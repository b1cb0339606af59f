---------------------------- MODULE CoverageRPC ----------------------------
(***************************************************************************)
(* What Afl.run (coverage.py) promises its caller, with the server, the    *)
(* shared memory and the semaphores of ex-frsv.c hidden: a call executes   *)
(* the target at most once, on the input of that call, and if it returns,  *)
(* it returns what that execution produced.  It may also never return: the *)
(* server may die, and the client waits without a timeout.                 *)
(***************************************************************************)
EXTENDS Naturals

CONSTANT MaxRequests          \* bound on the calls of one behaviour

VARIABLES phase,       \* "closed" (no engine), "idle" or "called"
          req,         \* number of the latest call
          executed,    \* number of the latest call whose input was executed
          result,      \* the outcome not yet returned, or NoResult
          last         \* what the latest completed call returned

vars == <<phase, req, executed, result, last>>

NoResult == [id |-> 0, status |-> 0]

\* child_crashed * 2 + last_run_timed_out: a crash is not a time-out.
Statuses == 0..2

Outcomes == [id : 1..MaxRequests, status : Statuses]

Init ==
  /\ phase = "closed"
  /\ req = 0
  /\ executed = 0
  /\ result = NoResult
  /\ last = NoResult

Open ==
  /\ phase = "closed"
  /\ phase' = "idle"
  /\ UNCHANGED <<req, executed, result, last>>

Call ==
  /\ phase = "idle"
  /\ req < MaxRequests
  /\ phase' = "called"
  /\ req' = req + 1
  /\ UNCHANGED <<executed, result, last>>

\* The only step that runs the target, and it runs it for the latest call.
Execute ==
  /\ executed < req
  /\ executed' = req
  /\ \/ /\ phase = "called"
        /\ \E st \in Statuses : result' = [id |-> req, status |-> st]
     \/ /\ phase # "called"
        /\ UNCHANGED result
  /\ UNCHANGED <<phase, req, last>>

Return ==
  /\ phase = "called"
  /\ result.id = req
  /\ phase' = "idle"
  /\ last' = result
  /\ result' = NoResult
  /\ UNCHANGED <<req, executed>>

\* The server dies with the outcome still in its hands.
Lose ==
  /\ result # NoResult
  /\ result' = NoResult
  /\ UNCHANGED <<phase, req, executed, last>>

\* The caller gives up, at any moment.
Close ==
  /\ phase # "closed"
  /\ phase' = "closed"
  /\ result' = NoResult
  /\ UNCHANGED <<req, executed, last>>

Next == Open \/ Call \/ Execute \/ Return \/ Lose \/ Close

Spec == Init /\ [][Next]_vars
=============================================================================
