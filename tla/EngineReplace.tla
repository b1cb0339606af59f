--------------------------- MODULE EngineReplace ---------------------------
(***************************************************************************)
(* The protocol of ExFrsv when an environment replaces a live engine, as   *)
(* CTFuzz1Env.reset does: "self.engine = coverage.Afl(...)" builds the new *)
(* engine, server and all, before the reference to the old one goes and    *)
(* its __del__ terminates the old server.  For a while two servers share   *)
(* the three names.                                                        *)
(***************************************************************************)
EXTENDS ExFrsv

VARIABLE old         \* the server of the engine being replaced, or None

varsReplace == <<vars, old>>

InitReplace == Init /\ old = None

ReplaceEngine(s) ==
  /\ cpc = "idle"
  /\ old = None
  /\ spc[s] = "unborn"
  /\ \A t \in Servers : t < s => spc[t] # "unborn"
  /\ StartEngine(s)
  /\ old' = proc

\* __del__ of the old engine, once the new one is complete.
DropOldEngine ==
  /\ cpc = "idle"
  /\ old # None
  /\ Terminate({old})
  /\ old' = None
  /\ UNCHANGED <<kernelVars, mainVars, handlerVars, clientVars, signals>>

NextReplace ==
  \/ /\ Next
     /\ old # None => cpc' # "release"     \* no call before reset() goes on
     /\ UNCHANGED old
  \/ \E s \in Servers : ReplaceEngine(s)
  \/ DropOldEngine

SpecReplace == InitReplace /\ [][NextReplace]_varsReplace
=============================================================================
