------------------------------- MODULE ExFrsv -------------------------------
(***************************************************************************)
(* The fork-server RPC of CTFuzz: the client class Afl (coverage.py) and   *)
(* the server program ex-frsv (ex-frsv.c), two processes that share one    *)
(* memory object and two semaphores found by NAME.  A name may be unlinked *)
(* and bound again to a new object while a process keeps using the old     *)
(* one, so the model keeps names and objects apart: an object is known by  *)
(* the server that created it, and each process by what it is attached to. *)
(*                                                                         *)
(* Bounds: MaxServers server processes in all, MaxRequests calls of        *)
(* Afl.run in all, MaxSignals stop signals beyond those the client itself  *)
(* sends.                                                                  *)
(***************************************************************************)
EXTENDS Naturals, Sequences

CONSTANTS MaxServers,      \* server processes launched, in order
          MaxRequests,     \* calls of Afl.run
          MaxSignals,      \* stop signals from outside
          StopSignals,     \* SIGHUP, SIGINT and SIGTERM, or some of them
          TargetCanFail    \* FSRV_RUN_ERROR and FATAL at start-up may happen

ASSUME BoundsAssumption ==
  /\ MaxServers \in Nat \ {0}
  /\ MaxRequests \in Nat \ {0}
  /\ MaxSignals \in Nat
  /\ "TERM" \in StopSignals
  /\ TargetCanFail \in BOOLEAN

Servers == 1..MaxServers

None == 0                  \* an unbound name, or no server

Names == {"shm", "in", "out"}   \* SHARED_MEM_NAME, SEM_INPUT_NAME, SEM_OUTPUT_NAME

VARIABLES
  name,        \* kernel: [Names -> server whose object the name is bound to, or None]
  content,     \* kernel: what the memory object of a server holds
  semIn,       \* kernel: value of the input semaphore of a server
  semOut,      \* kernel: value of the output semaphore of a server
  spc,         \* server: control point of main
  hpc,         \* server: control point of handle_stop_sig, for each signal
  nest,        \* server: the signals whose handlers run, the innermost first
  att,         \* server: the objects it opened
  mapped,      \* server: shared_mem is still mapped
  stopSoon,    \* server: stop_soon
  inData,      \* server: the in_data buffer: "null", "held" or "freed"
  pend,        \* server: the stop signals that are pending
  job,         \* server: the request being run; 0 is no request of the client
  status,      \* server: outcome of the run
  cpc,         \* client: control point of Afl.__init__ / Afl.run
  catt,        \* client: the objects it opened
  proc,        \* client: server of the engine (being) constructed
  req,         \* client: number of the latest call
  last,        \* history: what the latest call returned
  ran,         \* history: the latest request that the target was run on
  signals      \* bound: signals sent from outside so far

kernelVars == <<name, content, semIn, semOut>>
mainVars   == <<spc, att, job, status, ran>>
handlerVars == <<hpc, nest, mapped, stopSoon, inData>>
clientVars == <<cpc, catt, proc, req, last>>
vars == <<kernelVars, mainVars, handlerVars, pend, clientVars, signals>>

-----------------------------------------------------------------------------
(* What the shared memory holds, as far as the protocol tells it apart.    *)

Unsized == [kind |-> "unsized", id |-> 0, status |-> 0]   \* before ftruncate
Zero    == [kind |-> "zero", id |-> 0, status |-> 0]
Request(n) == [kind |-> "request", id |-> n, status |-> 0]
Response(n, st) == [kind |-> "response", id |-> n, status |-> st]

Statuses == 0..2     \* child_crashed * 2 + last_run_timed_out, never both
Jobs == 0..MaxRequests

Contents == [kind : {"unsized", "zero", "request", "response"},
             id : Jobs, status : Statuses]
Attached == [Names -> 0..MaxServers]
Detached == [n \in Names |-> None]

Booting == {"boot", "openShm", "mapShm", "openIn", "openOut"}
Serving == {"read", "run", "clear", "reply", "post"}
ServerPoints == {"unborn", "wait", "dead"} \cup Booting \cup Serving
HandlerPoints == {"none", "post", "unlinkShm", "unlinkIn", "unlinkOut"}
InCall == {"release", "acquire", "collect"}
ClientPoints == {"off", "openShm", "openIn", "openOut", "idle", "failed"} \cup InCall

TypeOK ==
  /\ name \in [Names -> 0..MaxServers]
  /\ content \in [Servers -> Contents]
  /\ semIn \in [Servers -> Nat]
  /\ semOut \in [Servers -> Nat]
  /\ spc \in [Servers -> ServerPoints]
  /\ hpc \in [Servers -> [StopSignals -> HandlerPoints]]
  /\ nest \in [Servers -> Seq(StopSignals)]
  /\ att \in [Servers -> Attached]
  /\ mapped \in [Servers -> BOOLEAN]
  /\ stopSoon \in [Servers -> BOOLEAN]
  /\ inData \in [Servers -> {"null", "held", "freed"}]
  /\ pend \in [Servers -> SUBSET StopSignals]
  /\ job \in [Servers -> Jobs]
  /\ status \in [Servers -> Statuses]
  /\ cpc \in ClientPoints
  /\ catt \in Attached
  /\ proc \in 0..MaxServers
  /\ req \in Jobs
  /\ last \in [sent : Jobs, id : Jobs, status : Statuses]
  /\ ran \in Jobs
  /\ signals \in 0..MaxSignals

Init ==
  /\ name = Detached
  /\ content = [s \in Servers |-> Unsized]
  /\ semIn = [s \in Servers |-> 0]
  /\ semOut = [s \in Servers |-> 0]
  /\ spc = [s \in Servers |-> "unborn"]
  /\ hpc = [s \in Servers |-> [g \in StopSignals |-> "none"]]
  /\ nest = [s \in Servers |-> << >>]
  /\ att = [s \in Servers |-> Detached]
  /\ mapped = [s \in Servers |-> FALSE]
  /\ stopSoon = [s \in Servers |-> FALSE]
  /\ inData = [s \in Servers |-> "null"]
  /\ pend = [s \in Servers |-> {}]
  /\ job = [s \in Servers |-> 0]
  /\ status = [s \in Servers |-> 0]
  /\ cpc = "off"
  /\ catt = Detached
  /\ proc = None
  /\ req = 0
  /\ last = [sent |-> 0, id |-> 0, status |-> 0]
  /\ ran = 0
  /\ signals = 0

Alive(s) == spc[s] \notin {"unborn", "dead"}

-----------------------------------------------------------------------------
(* The server's main thread.  Handlers that interrupted it run to their    *)
(* end first, hence NoHandler in every step.                               *)

NoHandler(s) == \A g \in StopSignals : hpc[s][g] = "none"

Goto(s, from, to) ==
  /\ NoHandler(s)
  /\ spc[s] = from
  /\ spc' = [spc EXCEPT ![s] = to]

\* Options, AFL's maps and the target's own fork server; it may refuse to start.
Boot(s) ==
  /\ \/ Goto(s, "boot", "openShm")
     \/ TargetCanFail /\ Goto(s, "boot", "dead")
  /\ UNCHANGED <<kernelVars, att, job, status, ran, handlerVars, pend, clientVars, signals>>

\* O_CREAT without O_EXCL: an object left behind under the name is taken over.
OpenName(s, n) ==
  LET object == IF name[n] = None THEN s ELSE name[n]
  IN  /\ name' = [name EXCEPT ![n] = object]
      /\ att' = [att EXCEPT ![s][n] = object]

OpenShm(s) ==
  /\ Goto(s, "openShm", "mapShm")
  /\ OpenName(s, "shm")
  /\ UNCHANGED <<content, semIn, semOut, job, status, ran, handlerVars, pend, clientVars, signals>>

\* ftruncate, mmap, memset
MapShm(s) ==
  /\ Goto(s, "mapShm", "openIn")
  /\ content' = [content EXCEPT ![att[s]["shm"]] = Zero]
  /\ mapped' = [mapped EXCEPT ![s] = TRUE]
  /\ UNCHANGED <<name, semIn, semOut, att, job, status, ran, hpc, nest, stopSoon, inData, pend, clientVars, signals>>

\* The initial value 0 applies to a new semaphore only.
OpenIn(s) ==
  /\ Goto(s, "openIn", "openOut")
  /\ OpenName(s, "in")
  /\ UNCHANGED <<content, semIn, semOut, job, status, ran, handlerVars, pend, clientVars, signals>>

OpenOut(s) ==
  /\ Goto(s, "openOut", "wait")
  /\ OpenName(s, "out")
  /\ inData' = [inData EXCEPT ![s] = "held"]
  /\ UNCHANGED <<content, semIn, semOut, job, status, ran, hpc, nest, mapped, stopSoon, pend, clientVars, signals>>

\* Fault: the server does not wait (sem_trywait, the result ignored).
WaitUnguarded(s) ==
  /\ Goto(s, "wait", "read")
  /\ semIn' = [semIn EXCEPT ![att[s]["in"]] = @ - 1]
  /\ UNCHANGED <<name, content, semOut, att, job, status, ran, handlerVars, pend, clientVars, signals>>

\* Fault: the token stays in the semaphore.
WaitKeepsToken(s) ==
  /\ Goto(s, "wait", "read")
  /\ semIn[att[s]["in"]] > 0
  /\ UNCHANGED <<kernelVars, att, job, status, ran, handlerVars, pend, clientVars, signals>>

Wait(s) ==
  /\ Goto(s, "wait", "read")
  /\ semIn[att[s]["in"]] > 0
  /\ semIn' = [semIn EXCEPT ![att[s]["in"]] = @ - 1]
  /\ UNCHANGED <<name, content, semOut, att, job, status, ran, handlerVars, pend, clientVars, signals>>

\* The first four bytes are the length.  Zeroes are an empty input; in an old
\* response they are its status and CPU time, so a status other than 0 gives a
\* length of 2^24 or more and the copy runs off both buffers.
Read(s) ==
  LET seen == content[att[s]["shm"]]
      overrun == seen.kind = "response" /\ seen.status # 0
  IN  /\ \/ /\ Goto(s, "read", "run")
            /\ mapped[s] /\ ~overrun
            /\ job' = [job EXCEPT ![s] = IF seen.kind = "request" THEN seen.id ELSE 0]
         \/ /\ Goto(s, "read", "dead")
            /\ ~mapped[s] \/ overrun
            /\ UNCHANGED job
      /\ UNCHANGED <<kernelVars, att, status, ran, handlerVars, pend, clientVars, signals>>

\* showmap_run_target_forkserver: the target runs, then stop_soon is tested.
Run(s) ==
  /\ \/ /\ ~stopSoon[s]
        /\ Goto(s, "run", "clear")
        /\ status' \in {[status EXCEPT ![s] = st] : st \in Statuses}
        /\ ran' = IF job[s] = 0 THEN ran ELSE job[s]
     \/ /\ stopSoon[s] \/ TargetCanFail
        /\ Goto(s, "run", "dead")
        /\ UNCHANGED <<status, ran>>
  /\ UNCHANGED <<kernelVars, att, job, handlerVars, pend, clientVars, signals>>

\* Both halves of the answer go through shared_mem, which a handler unmaps.
WriteShm(s, from, to, data) ==
  \/ /\ mapped[s]
     /\ Goto(s, from, to)
     /\ content' = [content EXCEPT ![att[s]["shm"]] = data]
  \/ /\ ~mapped[s]
     /\ Goto(s, from, "dead")
     /\ UNCHANGED content

\* Fault: the answer is announced before it is written.
ClearAndPost(s) ==
  /\ WriteShm(s, "clear", "reply", Zero)
  /\ semOut' = [semOut EXCEPT ![att[s]["out"]] = @ + 1]
  /\ UNCHANGED <<name, semIn, att, job, status, ran, handlerVars, pend, clientVars, signals>>

Clear(s) ==
  /\ WriteShm(s, "clear", "reply", Zero)
  /\ UNCHANGED <<name, semIn, semOut, att, job, status, ran, handlerVars, pend, clientVars, signals>>

Reply(s) ==
  /\ WriteShm(s, "reply", "post", Response(job[s], status[s]))
  /\ UNCHANGED <<name, semIn, semOut, att, job, status, ran, handlerVars, pend, clientVars, signals>>

\* Fault: the server posts the input semaphore.
PostInput(s) ==
  /\ Goto(s, "post", "wait")
  /\ semIn' = [semIn EXCEPT ![att[s]["in"]] = @ + 1]
  /\ UNCHANGED <<name, content, semOut, att, job, status, ran, handlerVars, pend, clientVars, signals>>

Post(s) ==
  /\ Goto(s, "post", "wait")
  /\ semOut' = [semOut EXCEPT ![att[s]["out"]] = @ + 1]
  /\ UNCHANGED <<name, content, semIn, att, job, status, ran, handlerVars, pend, clientVars, signals>>

Main(s) ==
  \/ Boot(s) \/ OpenShm(s) \/ MapShm(s) \/ OpenIn(s) \/ OpenOut(s)
  \/ Wait(s) \/ Read(s) \/ Run(s) \/ Clear(s) \/ Reply(s) \/ Post(s)

-----------------------------------------------------------------------------
(* handle_stop_sig.  Standard signals do not queue.  A signal is blocked   *)
(* while its own handler runs, but sa_mask is empty: another stop signal   *)
(* interrupts that handler, whose rest is run when the inner one returns.  *)

\* Before sem_input is opened the handler posts a null semaphore and faults.
Deliver(s) ==
  \E g \in pend[s] :
    /\ Alive(s)
    /\ hpc[s][g] = "none"
    /\ pend' = [pend EXCEPT ![s] = @ \ {g}]
    /\ \/ /\ spc[s] \in {"boot", "openShm", "mapShm", "openIn"}
          /\ spc' = [spc EXCEPT ![s] = "dead"]
          /\ UNCHANGED <<hpc, nest, stopSoon>>
       \/ /\ spc[s] \notin {"boot", "openShm", "mapShm", "openIn"}
          /\ hpc' = [hpc EXCEPT ![s][g] = "post"]
          /\ nest' = [nest EXCEPT ![s] = <<g>> \o @]
          /\ stopSoon' = [stopSoon EXCEPT ![s] = TRUE]
          /\ UNCHANGED spc
    /\ UNCHANGED <<kernelVars, att, job, status, ran, mapped, inData, clientVars, signals>>

\* A step of the innermost handler.
HandlerGoto(s, from, to) ==
  /\ Alive(s)
  /\ nest[s] # << >>
  /\ hpc[s][Head(nest[s])] = from
  /\ hpc' = [hpc EXCEPT ![s][Head(nest[s])] = to]
  /\ nest' = IF to = "none" THEN [nest EXCEPT ![s] = Tail(@)] ELSE nest

\* Fault: deinit_sem_shm without its sem_post.
HandlerUnmap(s) ==
  /\ HandlerGoto(s, "post", "unlinkShm")
  /\ mapped' = [mapped EXCEPT ![s] = FALSE]
  /\ UNCHANGED <<kernelVars, mainVars, stopSoon, inData, pend, clientVars, signals>>

\* deinit_sem_shm: sem_post and munmap, then the three unlinks, then free.
HandlerPost(s) ==
  /\ HandlerGoto(s, "post", "unlinkShm")
  /\ semIn' = [semIn EXCEPT ![att[s]["in"]] = @ + 1]
  /\ mapped' = [mapped EXCEPT ![s] = FALSE]
  /\ UNCHANGED <<name, content, semOut, mainVars, stopSoon, inData, pend, clientVars, signals>>

\* Unlinking goes by name: it removes whatever object the name now has.
HandlerUnlink(s, n, from, to) ==
  /\ HandlerGoto(s, from, to)
  /\ name' = [name EXCEPT ![n] = None]
  /\ UNCHANGED <<content, semIn, semOut, att, job, status, ran, mapped, stopSoon, pend, clientVars, signals>>

\* Freeing in_data a second time aborts the process.
HandlerFree(s) ==
  \/ /\ inData[s] = "freed"
     /\ spc' = [spc EXCEPT ![s] = "dead"]
     /\ UNCHANGED inData
  \/ /\ inData[s] # "freed"
     /\ inData' = [inData EXCEPT ![s] = IF @ = "held" THEN "freed" ELSE @]
     /\ UNCHANGED spc

\* Fault: deinit_sem_shm forgets sem_unlink(SEM_INPUT_NAME).
HandlerLeavesInput(s) ==
  \/ HandlerPost(s)
  \/ HandlerUnlink(s, "shm", "unlinkShm", "unlinkOut") /\ UNCHANGED <<spc, inData>>
  \/ HandlerUnlink(s, "out", "unlinkOut", "none") /\ HandlerFree(s)

Handler(s) ==
  \/ HandlerPost(s)
  \/ HandlerUnlink(s, "shm", "unlinkShm", "unlinkIn") /\ UNCHANGED <<spc, inData>>
  \/ HandlerUnlink(s, "in", "unlinkIn", "unlinkOut") /\ UNCHANGED <<spc, inData>>
  \/ HandlerUnlink(s, "out", "unlinkOut", "none") /\ HandlerFree(s)

-----------------------------------------------------------------------------
(* The client.                                                             *)

Send(g, set) ==
  pend' = [s \in Servers |-> IF s \in set /\ Alive(s) THEN pend[s] \cup {g} ELSE pend[s]]

Terminate(set) == Send("TERM", set)

StartEngine(s) ==
  /\ spc' = [spc EXCEPT ![s] = "boot"]
  /\ proc' = s
  /\ cpc' = "openShm"
  /\ catt' = Detached
  /\ UNCHANGED <<kernelVars, att, job, status, ran, handlerVars, pend, req, last, signals>>

\* Fault: the drivers do not wait for the servers they kill.
LaunchEarly(s) ==
  /\ cpc = "off"
  /\ spc[s] = "unborn"
  /\ \A t \in Servers : t < s => spc[t] # "unborn"
  /\ StartEngine(s)

\* Afl.__init__ starts a server.  The driver scripts start a session only
\* after killall and a pause, when no server is left.
Launch(s) ==
  /\ cpc = "off"
  /\ spc[s] = "unborn"
  /\ \A t \in Servers : t < s => spc[t] = "dead"
  /\ StartEngine(s)

\* SharedMemory(name) is retried; mmap of an object without a size raises.
ClientOpenShm ==
  LET mappable == name["shm"] # None /\ content[name["shm"]] # Unsized
  IN  /\ cpc = "openShm"
      /\ \/ /\ mappable
            /\ catt' = [catt EXCEPT !["shm"] = name["shm"]]
            /\ cpc' = "openIn"
         \/ /\ ~mappable
            /\ cpc' = "failed"
            /\ UNCHANGED catt
      /\ UNCHANGED <<kernelVars, mainVars, handlerVars, pend, proc, req, last, signals>>

\* Semaphore(name) is not retried.
ClientOpenIn ==
  /\ cpc = "openIn"
  /\ IF name["in"] = None
     THEN cpc' = "failed" /\ UNCHANGED catt
     ELSE cpc' = "openOut" /\ catt' = [catt EXCEPT !["in"] = name["in"]]
  /\ UNCHANGED <<kernelVars, mainVars, handlerVars, pend, proc, req, last, signals>>

ClientOpenOut ==
  /\ cpc = "openOut"
  /\ IF name["out"] = None
     THEN cpc' = "failed" /\ UNCHANGED catt
     ELSE cpc' = "idle" /\ catt' = [catt EXCEPT !["out"] = name["out"]]
  /\ UNCHANGED <<kernelVars, mainVars, handlerVars, pend, proc, req, last, signals>>

\* run: write the request ...
ClientWrite ==
  /\ cpc = "idle"
  /\ req < MaxRequests
  /\ cpc' = "release"
  /\ req' = req + 1
  /\ content' = [content EXCEPT ![catt["shm"]] = Request(req + 1)]
  /\ UNCHANGED <<name, semIn, semOut, mainVars, handlerVars, pend, catt, proc, last, signals>>

\* ... signal the server ...
ClientRelease ==
  /\ cpc = "release"
  /\ cpc' = "acquire"
  /\ semIn' = [semIn EXCEPT ![catt["in"]] = @ + 1]
  /\ UNCHANGED <<name, content, semOut, mainVars, handlerVars, pend, catt, proc, req, last, signals>>

\* Fault: the client does not wait for the answer (a timeout that is ignored).
ClientAcquireEarly ==
  /\ cpc = "acquire"
  /\ cpc' = "collect"
  /\ UNCHANGED <<kernelVars, mainVars, handlerVars, pend, catt, proc, req, last, signals>>

\* ... wait for it, with no timeout ...
ClientAcquire ==
  /\ cpc = "acquire"
  /\ semOut[catt["out"]] > 0
  /\ cpc' = "collect"
  /\ semOut' = [semOut EXCEPT ![catt["out"]] = @ - 1]
  /\ UNCHANGED <<name, content, semIn, mainVars, handlerVars, pend, catt, proc, req, last, signals>>

\* ... and take whatever the memory holds as the answer.
ClientCollect ==
  /\ cpc = "collect"
  /\ cpc' = "idle"
  /\ LET seen == content[catt["shm"]]
     IN  last' = [sent |-> req,
                  id |-> IF seen.kind = "response" THEN seen.id ELSE 0,
                  status |-> seen.status]
  /\ UNCHANGED <<kernelVars, mainVars, handlerVars, pend, catt, proc, req, signals>>

\* The script ends (an interrupt at any point, or an exception in __init__)
\* and its servers are terminated by __del__ and by clear.sh's killall.
EndSession ==
  /\ cpc # "off"
  /\ cpc' = "off"
  /\ Terminate(Servers)
  /\ UNCHANGED <<kernelVars, mainVars, handlerVars, catt, proc, req, last, signals>>

\* A signal from elsewhere: coverage.py's own SIGINT handler, or the operator.
Signal(s) ==
  /\ signals < MaxSignals
  /\ Alive(s)
  /\ \E g \in StopSignals : Send(g, {s})
  /\ signals' = signals + 1
  /\ UNCHANGED <<kernelVars, mainVars, handlerVars, clientVars>>

Client ==
  \/ ClientOpenShm \/ ClientOpenIn \/ ClientOpenOut
  \/ ClientWrite \/ ClientRelease \/ ClientAcquire \/ ClientCollect

Next ==
  \/ \E s \in Servers : Main(s) \/ Deliver(s) \/ Handler(s) \/ Signal(s) \/ Launch(s)
  \/ Client
  \/ EndSession

Spec == Init /\ [][Next]_vars

\* The kernel runs every runnable process and delivers pending signals; a run
\* of the target ends because afl_fsrv_run_target enforces exec_tmout.  Nothing
\* obliges the driver to start or end a session, or anyone to send a signal.
Fairness ==
  /\ \A s \in Servers : WF_vars(Main(s)) /\ WF_vars(Deliver(s)) /\ WF_vars(Handler(s))
  /\ WF_vars(ClientOpenShm \/ ClientOpenIn \/ ClientOpenOut)
  /\ WF_vars(ClientRelease \/ ClientAcquire \/ ClientCollect)

FairSpec == Spec /\ Fairness

-----------------------------------------------------------------------------
(* Safety.                                                                 *)

\* The answer Afl.run returns was computed for the input of that very call
\* (coverage.py:117-132 pairs them by nothing but the order of the tokens).
OwnAnswer == last.id = last.sent

\* ex-frsv.c:483 "Wait for input to be available": when the server gets past
\* that wait, unless it was told to stop, the memory holds the client's latest
\* request, and the target has not been run on it yet.
InputAvailable ==
  \A s \in Servers :
    spc[s] = "read" /\ pend[s] = {} /\ ~stopSoon[s] =>
      /\ content[att[s]["shm"]] = Request(req)
      /\ ran < req

\* The semaphores alone keep the two sides from using the shared memory at once
\* (coverage.py:120-127 and ex-frsv.c:490-516 take no lock): no server has the
\* client's object in its hands while the client writes or reads it.
MemoryExclusion ==
  cpc \in {"idle", "release", "collect"} =>
    \A s \in Servers :
      att[s]["shm"] = catt["shm"] =>
        /\ spc[s] # "mapShm"
        /\ spc[s] \in {"read", "clear", "reply"} => ~mapped[s]

\* What one session leaves under the names cannot wake the next one: once every
\* server has ended, a semaphore that still has its name has the value 0
\* (ex-frsv.c:156, 163 open it with O_CREAT and would keep its value).
LeftoversAreClean ==
  (\A s \in Servers : ~Alive(s)) =>
    /\ name["in"] # None => semIn[name["in"]] = 0
    /\ name["out"] # None => semOut[name["out"]] = 0

\* While a call waits (coverage.py:125) for a server that has its memory, there is exactly one token for
\* it: in the input semaphore, in the server's hands or in the output semaphore.  Without one each side
\* would wait for the other for ever, and a second would answer the next call.
OneTokenPerCall ==
  cpc = "acquire" =>
    \A s \in Servers :
      Alive(s) /\ mapped[s] =>
        semIn[catt["in"]] + semOut[catt["out"]] + (IF spc[s] \in Serving THEN 1 ELSE 0) = 1

-----------------------------------------------------------------------------
(* Action properties.                                                      *)

Told(s) == pend[s] # {} \/ stopSoon[s]

\* Unless the target itself fails, a server ends only after a stop signal to it: no order of
\* requests, answers and what an earlier session left behind makes it take an answer for a request
\* (ex-frsv.c:498 trusts the length it finds) or use memory that is gone, and freeing in_data twice
\* (184) takes a second signal, the same or another.
DiesOnlyWhenTold == [][\A s \in Servers : Alive(s) /\ ~Alive(s)' => Told(s)]_vars

\* Once its server waits for input and nobody has told it to stop, a client's attempt to connect
\* succeeds: the one-second pauses of coverage.py:100-111 are all that a session needs, and nothing
\* an earlier server still does takes the names away again.
ConnectFailsOnlyEarly ==
  [][cpc # "failed" /\ cpc' = "failed" => spc[proc] # "wait" \/ Told(proc)]_vars

-----------------------------------------------------------------------------
(* Liveness, under FairSpec.                                               *)

\* sem_output.acquire() has no timeout (coverage.py:125): the caller still gets
\* on, unless its server has died.
CallReturns == cpc = "acquire" ~> (cpc # "acquire" \/ ~Alive(proc))

\* A server told to stop does stop: the handler's sem_post (ex-frsv.c:174) is
\* there to get it out of sem_wait.
StopEndsServer == \A s \in Servers : pend[s] # {} ~> ~Alive(s)

-----------------------------------------------------------------------------
(* Refinement: the whole protocol implements CoverageRPC.                  *)

Phase == IF cpc \in InCall THEN "called" ELSE IF cpc = "idle" THEN "idle" ELSE "closed"

NoResult == [id |-> 0, status |-> 0]

\* The outcome of the current call, wherever it is on its way to the client.
Result ==
  LET seen == content[catt["shm"]]
  IN  IF cpc \notin InCall THEN NoResult
      ELSE IF spc[proc] \in {"clear", "reply", "post"}
           THEN [id |-> job[proc], status |-> status[proc]]
      ELSE IF seen.kind = "response" THEN [id |-> seen.id, status |-> seen.status]
      ELSE NoResult

RPC == INSTANCE CoverageRPC WITH
  phase <- Phase,
  executed <- ran,
  result <- Result,
  last <- [id |-> last.id, status |-> last.status]

\* Afl.run executes the target at most once per call, on that call's input, and
\* returns what that execution produced (coverage.py:117-132, ex-frsv.c:478-536).
ImplementsRPC == RPC!Spec
=============================================================================
