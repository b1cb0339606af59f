---------------------------- MODULE ExFrsvProofs ----------------------------
(***************************************************************************)
(* Theorems about the fork-server RPC: for any number of servers, requests *)
(* and stop signals, one session after the other.  What needs a target     *)
(* that never makes its server abort, or only one server, says so.         *)
(***************************************************************************)
EXTENDS ExFrsv, TLAPS

Early == {"boot", "openShm", "mapShm", "openIn"}
Late  == {"openOut", "wait"} \union Serving
Connecting == {"openShm", "openIn", "openOut"}

\* A server that aborts leaves its names bound: then no other may follow it.
FailuresAlone == TargetCanFail => MaxServers = 1

-----------------------------------------------------------------------------
(* The inductive invariant.  The latest server, proc, is the only one that  *)
(* can be alive.                                                            *)

\* Later servers are untouched, earlier ones dead, and nobody knows an object of a later one.
OneByOne ==
  /\ \A s \in Servers : s > proc =>
       /\ spc[s] = "unborn" /\ NoHandler(s) /\ att[s] = Detached /\ ~mapped[s] /\ ~stopSoon[s]
       /\ inData[s] = "null" /\ pend[s] = {} /\ semIn[s] = 0 /\ semOut[s] = 0
  /\ \A s \in Servers : s < proc => spc[s] = "dead"
  /\ proc # None => spc[proc] # "unborn"
  /\ proc = None => cpc = "off"
  /\ \A n \in Names : name[n] <= proc /\ catt[n] <= proc /\ (proc # None => att[proc][n] <= proc)

\* No number is ahead of the client's.
Numbers ==
  /\ \A s \in Servers : content[s].id <= req /\ job[s] <= req
  /\ ran <= req

\* The output semaphore that has the name holds no answer.
OutClean == name["out"] # None => semOut[name["out"]] = 0

Gone == proc = None \/ spc[proc] = "dead"

\* What a dead server leaves: no input semaphore, or it aborted and that semaphore is 0.
Left ==
  Gone =>
    /\ OutClean
    /\ \/ name["in"] = None
       \/ /\ proc # None /\ TargetCanFail /\ cpc \in {"acquire", "off"}
          /\ semIn[name["in"]] = 0
          /\ cpc = "acquire" => semOut[catt["out"]] = 0

\* A server that boots finds no input semaphore and clean objects, and no client is past the first
\* step of its connection.
EarlyInv ==
  proc # None /\ spc[proc] \in Early =>
    /\ NoHandler(proc) /\ ~stopSoon[proc] /\ inData[proc] = "null"
    /\ name["in"] = None /\ OutClean
    /\ semIn[proc] = 0 /\ semOut[proc] = 0
    /\ att[proc]["in"] = None /\ att[proc]["out"] = None
    /\ spc[proc] \in {"mapShm", "openIn"} => name["shm"] # None /\ att[proc]["shm"] = name["shm"]
    /\ mapped[proc] <=> spc[proc] = "openIn"
    /\ spc[proc] = "openIn" => content[name["shm"]] # Unsized
    /\ cpc \in {"off", "openShm", "openIn", "failed"}
    /\ cpc = "off" => pend[proc] # {}
    /\ cpc = "openIn" => catt["shm"] # None /\ catt["shm"] = name["shm"]

\* Until its memory is unmapped a server owns the names it is attached to, and the client that is
\* connected uses the same objects; after that it can reach nothing but its death.
LateInv ==
  proc # None /\ spc[proc] \in Late =>
    /\ att[proc]["in"] = proc /\ att[proc]["shm"] \in Servers
    /\ name["in"] \in {None, proc} /\ name["shm"] \in {None, att[proc]["shm"]}
    /\ spc[proc] # "openOut" => att[proc]["out"] \in Servers
    /\ spc[proc] = "openOut" => att[proc]["out"] = None /\ semOut[proc] = 0
    /\ cpc = "off" => Told(proc)
    /\ ~mapped[proc] => stopSoon[proc]
    /\ mapped[proc] =>
         /\ stopSoon[proc] <=> ~NoHandler(proc)
         /\ \A g \in StopSignals : hpc[proc][g] \in {"none", "post"}
         /\ name["in"] = proc /\ name["shm"] = att[proc]["shm"] /\ content[att[proc]["shm"]] # Unsized
         /\ spc[proc] # "openOut" => name["out"] = att[proc]["out"]
    /\ ~NoHandler(proc) => stopSoon[proc]
    /\ stopSoon[proc] /\ NoHandler(proc) =>
         /\ name["shm"] = None /\ name["in"] = None /\ OutClean
         /\ name["out"] # None => spc[proc] \in {"wait", "read"}
    /\ \A g \in StopSignals :
         /\ hpc[proc][g] \in {"unlinkIn", "unlinkOut"} => name["shm"] = None
         /\ hpc[proc][g] = "unlinkOut" => name["in"] = None

\* Between two calls, and while the client connects, a mapped server waits and has no token.
MeetInv ==
  proc # None /\ spc[proc] \in Late =>
    /\ mapped[proc] /\ cpc \in {"idle"} \union InCall => catt["out"] = name["out"]
    /\ cpc \in {"openIn", "openOut", "idle"} \union InCall => catt["shm"] = att[proc]["shm"]
    /\ cpc \in {"openOut", "idle"} \union InCall => catt["in"] = proc
    /\ cpc \notin {"acquire", "off"} => spc[proc] \in {"openOut", "wait", "read"}
    /\ mapped[proc] /\ cpc \notin {"acquire", "off"} => spc[proc] # "read" /\ semIn[proc] = 0

\* A token in the output semaphore is the answer to the call that waits.
ClientInv ==
  /\ cpc \in {"idle"} \union InCall =>
       catt["shm"] \in Servers /\ catt["in"] \in Servers /\ catt["out"] \in Servers
  /\ cpc = "openOut" => catt["shm"] \in Servers /\ catt["in"] \in Servers
  /\ cpc = "openIn" => catt["shm"] \in Servers
  /\ cpc \in Connecting => OutClean
  /\ cpc \in {"idle", "release", "collect"} => semOut[catt["out"]] = 0
  /\ cpc = "release" => content[catt["shm"]] = Request(req) /\ ran < req
  /\ cpc = "collect" => content[catt["shm"]].kind = "response" /\ content[catt["shm"]].id = req
  /\ cpc = "acquire" /\ semOut[catt["out"]] # 0 =>
       /\ semOut[catt["out"]] = 1
       /\ content[catt["shm"]].kind = "response" /\ content[catt["shm"]].id = req

\* How far the server is with the request of the call that waits for an answer.
CallInv ==
  cpc = "acquire" /\ proc # None /\ spc[proc] \in Late =>
    LET seen == content[catt["shm"]]
        answered == semOut[catt["out"]] # 0
    IN /\ mapped[proc] =>
            \/ /\ spc[proc] \in {"openOut", "wait"} /\ semIn[proc] = 1 /\ ~answered
               /\ seen = Request(req) /\ ran < req
            \/ /\ spc[proc] \in {"read", "run"} /\ semIn[proc] = 0 /\ ~answered
               /\ seen = Request(req) /\ ran < req
            \/ spc[proc] \in {"clear", "reply", "post"} /\ semIn[proc] = 0 /\ ~answered
            \/ spc[proc] = "wait" /\ semIn[proc] = 0 /\ answered
       /\ mapped[proc] /\ spc[proc] \in {"run", "clear", "reply"} => job[proc] = req
       /\ spc[proc] \in {"run", "clear", "reply", "post"} => ~answered
       /\ spc[proc] \in {"run", "clear", "reply"} => seen.kind # "response"
       /\ spc[proc] = "post" => job[proc] = req /\ seen = Response(req, status[proc])

\* The same for a call whose client has gone.
OffInv ==
  cpc = "off" /\ proc # None /\ spc[proc] \in Late /\ mapped[proc] =>
    LET latest == content[att[proc]["shm"]] = Request(req) /\ ran < req
    IN \/ spc[proc] \in {"openOut", "wait"} /\ semIn[proc] = 0
       \/ spc[proc] \in {"openOut", "wait"} /\ semIn[proc] = 1 /\ OutClean /\ latest
       \/ spc[proc] = "read" /\ semIn[proc] = 0 /\ OutClean /\ latest
       \/ spc[proc] = "run" /\ semIn[proc] = 0 /\ OutClean /\ job[proc] = req /\ ran < req
       \/ spc[proc] \in {"clear", "reply", "post"} /\ semIn[proc] = 0 /\ OutClean

IInv ==
  /\ TypeOK /\ OwnAnswer /\ OneByOne /\ Numbers /\ Left
  /\ EarlyInv /\ LateInv /\ MeetInv /\ ClientInv /\ CallInv /\ OffInv

-----------------------------------------------------------------------------
(* The server's main thread.                                                *)

\* No server but the latest is alive.
LEMMA Living ==
  ASSUME OneByOne, TypeOK, NEW s \in Servers, Alive(s)
  PROVE  s = proc /\ proc # None
  BY DEF OneByOne, NoHandler, TypeOK, Servers, Alive, None

\* A step of main belongs to the latest server, in no handler.
LEMMA GotoEffect ==
  ASSUME TypeOK, OneByOne, NEW s \in Servers, NEW from \in ServerPoints \ {"unborn", "dead"},
         NEW to \in ServerPoints, Goto(s, from, to)
  PROVE  /\ s = proc /\ proc \in Servers /\ proc # None
         /\ spc[proc] = from /\ spc'[proc] = to /\ NoHandler(proc)
         /\ \A t \in Servers : t # proc => spc'[t] = spc[t]
         /\ spc' \in [Servers -> ServerPoints]
<1>1. s = proc /\ proc # None
  BY Living DEF Goto, NoHandler, Alive
<1> QED BY <1>1 DEF Goto, NoHandler, TypeOK

\* Booting, or refusing to, comes before the server has any name.
LEMMA Boots ==
  ASSUME IInv, NEW s \in Servers, Boot(s)
  PROVE  IInv'
<1>1. /\ proc \in Servers /\ proc # None /\ spc[proc] = "boot" /\ NoHandler(proc)
      /\ spc'[proc] \in {"openShm", "dead"}
      /\ \A t \in Servers : t # proc => spc'[t] = spc[t]
      /\ spc' \in [Servers -> ServerPoints]
  BY GotoEffect, "boot" \in ServerPoints \ {"unborn", "dead"}, "openShm" \in ServerPoints, "dead" \in ServerPoints
     DEF IInv, Boot, ServerPoints, Booting
<1>2. UNCHANGED <<kernelVars, att, job, status, ran, handlerVars, pend, clientVars, signals>>
  BY DEF Boot
<1> USE <1>2 DEF kernelVars, handlerVars, clientVars
<1>3. TypeOK'
  BY <1>1 DEF IInv, TypeOK
<1>4. OwnAnswer' /\ Numbers' /\ ClientInv'
  BY DEF IInv, OwnAnswer, Numbers, ClientInv, OutClean
<1>5. OneByOne'
  BY <1>1 DEF IInv, TypeOK, OneByOne, NoHandler, Servers
<1>6. EarlyInv' /\ LateInv' /\ MeetInv' /\ CallInv' /\ OffInv' /\ Left'
  BY <1>1 DEF IInv, EarlyInv, NoHandler, LateInv, MeetInv, CallInv, OffInv, Left, Early, Late, Serving, Gone, OutClean
<1> QED BY <1>3, <1>4, <1>5, <1>6 DEF IInv

\* The memory object under the name, if there is one, becomes the server's.
LEMMA OpensShm ==
  ASSUME IInv, NEW s \in Servers, OpenShm(s)
  PROVE  IInv'
<1>1. /\ s = proc /\ proc \in Servers /\ proc # None /\ spc[proc] = "openShm" /\ NoHandler(proc)
      /\ spc'[proc] = "mapShm"
      /\ \A t \in Servers : t # proc => spc'[t] = spc[t]
      /\ spc' \in [Servers -> ServerPoints]
  BY GotoEffect, "openShm" \in ServerPoints \ {"unborn", "dead"}, "mapShm" \in ServerPoints
     DEF IInv, OpenShm, ServerPoints, Booting
<1>2. UNCHANGED <<content, semIn, semOut, job, status, ran, handlerVars, pend, clientVars, signals>>
  BY DEF OpenShm
<1>3. /\ name'["shm"] = (IF name["shm"] = None THEN proc ELSE name["shm"])
      /\ name'["in"] = name["in"] /\ name'["out"] = name["out"]
      /\ name' \in [Names -> 0..MaxServers]
  BY <1>1 DEF OpenShm, OpenName, IInv, TypeOK, Names, Servers
<1>4. /\ att'[proc]["shm"] = name'["shm"]
      /\ att'[proc]["in"] = att[proc]["in"] /\ att'[proc]["out"] = att[proc]["out"]
      /\ \A t \in Servers : t # proc => att'[t] = att[t]
      /\ att' \in [Servers -> Attached]
  BY <1>1, <1>3 DEF OpenShm, OpenName, IInv, TypeOK, Names, Attached
<1> USE <1>2 DEF kernelVars, handlerVars, clientVars
<1>5. TypeOK'
  BY <1>1, <1>3, <1>4 DEF IInv, TypeOK
<1>6. OwnAnswer' /\ Numbers' /\ ClientInv'
  BY <1>3 DEF IInv, OwnAnswer, Numbers, ClientInv, OutClean
<1>7. OneByOne'
  BY <1>1, <1>3, <1>4 DEF IInv, TypeOK, OneByOne, NoHandler, Servers, Names, None
<1>8. EarlyInv'
  BY <1>1, <1>3, <1>4 DEF IInv, EarlyInv, NoHandler, Early, OutClean, None, TypeOK, Servers
<1>9. LateInv' /\ MeetInv' /\ CallInv' /\ OffInv' /\ Left'
  BY <1>1 DEF LateInv, NoHandler, MeetInv, CallInv, OffInv, Left, Late, Serving, Gone
<1> QED BY <1>5, <1>6, <1>7, <1>8, <1>9 DEF IInv

\* Clearing the memory harms nobody: no client writes to it yet.
LEMMA MapsShm ==
  ASSUME IInv, NEW s \in Servers, MapShm(s)
  PROVE  IInv'
<1>1. /\ s = proc /\ proc \in Servers /\ proc # None /\ spc[proc] = "mapShm" /\ NoHandler(proc)
      /\ spc'[proc] = "openIn"
      /\ \A t \in Servers : t # proc => spc'[t] = spc[t]
      /\ spc' \in [Servers -> ServerPoints]
  BY GotoEffect, "mapShm" \in ServerPoints \ {"unborn", "dead"}, "openIn" \in ServerPoints
     DEF IInv, MapShm, ServerPoints, Booting
<1>2. UNCHANGED <<name, semIn, semOut, att, job, status, ran, hpc, nest, stopSoon, inData, pend, clientVars, signals>>
  BY DEF MapShm
<1>3. /\ mapped'[proc] = TRUE /\ \A t \in Servers : t # proc => mapped'[t] = mapped[t]
      /\ mapped' \in [Servers -> BOOLEAN]
  BY <1>1 DEF MapShm, IInv, TypeOK
<1>4. /\ content'[att[proc]["shm"]] = Zero
      /\ \A t \in Servers : content'[t] \in {content[t], Zero}
      /\ content' \in [Servers -> Contents]
  <2>1. att[proc]["shm"] \in Servers
    BY <1>1 DEF IInv, EarlyInv, NoHandler, Early, None, TypeOK, Attached, Names, Servers
  <2>2. Zero \in Contents
    BY BoundsAssumption DEF Zero, Contents, Jobs, Statuses
  <2> QED BY <1>1, <2>1, <2>2 DEF MapShm, IInv, TypeOK
<1> USE <1>2 DEF kernelVars, clientVars
<1>5. TypeOK'
  BY <1>1, <1>3, <1>4 DEF IInv, TypeOK
<1>6. OwnAnswer'
  BY DEF IInv, OwnAnswer
<1>7. Numbers'
  <2>1. req \in Nat
    BY DEF IInv, TypeOK, Jobs
  <2> QED BY <1>4, <2>1 DEF IInv, Numbers, Zero
<1>8. ClientInv'
  BY <1>1 DEF IInv, ClientInv, EarlyInv, NoHandler, Early, OutClean, InCall, Connecting
<1>9. OneByOne'
  BY <1>1, <1>3 DEF IInv, TypeOK, OneByOne, NoHandler, Servers
<1>10. EarlyInv'
  BY <1>1, <1>3, <1>4 DEF IInv, EarlyInv, NoHandler, Early, OutClean, Zero, Unsized
<1>11. LateInv' /\ MeetInv' /\ CallInv' /\ OffInv' /\ Left'
  BY <1>1 DEF LateInv, NoHandler, MeetInv, CallInv, OffInv, Left, Late, Serving, Gone
<1> QED BY <1>5, <1>6, <1>7, <1>8, <1>9, <1>10, <1>11 DEF IInv

\* The input semaphore is new: none had its name.
LEMMA OpensIn ==
  ASSUME IInv, NEW s \in Servers, OpenIn(s)
  PROVE  IInv'
<1>1. /\ s = proc /\ proc \in Servers /\ proc # None /\ spc[proc] = "openIn" /\ NoHandler(proc)
      /\ spc'[proc] = "openOut"
      /\ \A t \in Servers : t # proc => spc'[t] = spc[t]
      /\ spc' \in [Servers -> ServerPoints]
  BY GotoEffect, "openIn" \in ServerPoints \ {"unborn", "dead"}, "openOut" \in ServerPoints
     DEF IInv, OpenIn, ServerPoints, Booting
<1>2. UNCHANGED <<content, semIn, semOut, job, status, ran, handlerVars, pend, clientVars, signals>>
  BY DEF OpenIn
<1>3. /\ name["in"] = None /\ name'["in"] = proc
      /\ name'["shm"] = name["shm"] /\ name'["out"] = name["out"]
      /\ name' \in [Names -> 0..MaxServers]
  BY <1>1 DEF OpenIn, OpenName, IInv, EarlyInv, NoHandler, Early, TypeOK, Names, Servers
<1>4. /\ att'[proc]["in"] = proc
      /\ att'[proc]["shm"] = att[proc]["shm"] /\ att'[proc]["out"] = att[proc]["out"]
      /\ \A t \in Servers : t # proc => att'[t] = att[t]
      /\ att' \in [Servers -> Attached]
  BY <1>1, <1>3 DEF OpenIn, OpenName, IInv, TypeOK, Names, Attached, Servers
<1> USE <1>2 DEF kernelVars, handlerVars, clientVars
<1>5. TypeOK'
  BY <1>1, <1>3, <1>4 DEF IInv, TypeOK
<1>6. OwnAnswer' /\ Numbers' /\ ClientInv'
  BY <1>3 DEF IInv, OwnAnswer, Numbers, ClientInv, OutClean
<1>7. OneByOne'
  BY <1>1, <1>3, <1>4 DEF IInv, TypeOK, OneByOne, NoHandler, Servers, Names, None
<1>8. att[proc]["shm"] \in Servers
  BY <1>1 DEF IInv, EarlyInv, NoHandler, Early, None, TypeOK, Attached, Names, Servers
<1>9. EarlyInv' /\ CallInv' /\ Left'
  BY <1>1 DEF IInv, EarlyInv, NoHandler, CallInv, Left, Early, Gone
<1>10. LateInv'
  BY <1>1, <1>3, <1>4, <1>8 DEF IInv, EarlyInv, NoHandler, LateInv, Early, OutClean, Told
<1>11. MeetInv' /\ OffInv'
  BY <1>1, <1>3, <1>4 DEF IInv, EarlyInv, NoHandler, MeetInv, OffInv, Early, InCall
<1> QED BY <1>5, <1>6, <1>7, <1>9, <1>10, <1>11 DEF IInv

\* The output semaphore is new or holds no answer.
LEMMA OpensOut ==
  ASSUME IInv, NEW s \in Servers, OpenOut(s)
  PROVE  IInv'
<1>1. /\ s = proc /\ proc \in Servers /\ proc # None /\ spc[proc] = "openOut" /\ NoHandler(proc)
      /\ spc'[proc] = "wait"
      /\ \A t \in Servers : t # proc => spc'[t] = spc[t]
      /\ spc' \in [Servers -> ServerPoints]
  BY GotoEffect, "openOut" \in ServerPoints \ {"unborn", "dead"}, "wait" \in ServerPoints
     DEF IInv, OpenOut, ServerPoints, Booting
<1>2. UNCHANGED <<content, semIn, semOut, job, status, ran, hpc, nest, mapped, stopSoon, pend, clientVars, signals>>
  BY DEF OpenOut
<1>3. /\ name'["out"] = (IF name["out"] = None THEN proc ELSE name["out"])
      /\ name'["in"] = name["in"] /\ name'["shm"] = name["shm"]
      /\ name' \in [Names -> 0..MaxServers]
  BY <1>1 DEF OpenOut, OpenName, IInv, TypeOK, Names, Servers
<1>4. /\ att'[proc]["out"] = name'["out"]
      /\ att'[proc]["shm"] = att[proc]["shm"] /\ att'[proc]["in"] = att[proc]["in"]
      /\ \A t \in Servers : t # proc => att'[t] = att[t]
      /\ att' \in [Servers -> Attached]
  BY <1>1, <1>3 DEF OpenOut, OpenName, IInv, TypeOK, Names, Attached
<1>5. /\ \A t \in Servers : t # proc => inData'[t] = inData[t]
      /\ inData' \in [Servers -> {"null", "held", "freed"}]
  BY <1>1 DEF OpenOut, IInv, TypeOK
<1> USE <1>2 DEF kernelVars, clientVars
<1>6. TypeOK'
  BY <1>1, <1>3, <1>4, <1>5 DEF IInv, TypeOK
<1>7. OwnAnswer' /\ Numbers'
  BY DEF IInv, OwnAnswer, Numbers
<1>8. att'[proc]["out"] \in Servers /\ (OutClean => OutClean')
  BY <1>1, <1>3, <1>4 DEF IInv, LateInv, NoHandler, Late, OutClean, TypeOK, Names, None, Servers
<1>9. ClientInv'
  BY <1>8 DEF IInv, ClientInv
<1>10. OneByOne'
  BY <1>1, <1>3, <1>4, <1>5 DEF IInv, TypeOK, OneByOne, NoHandler, Servers, Names, None
<1>11. EarlyInv' /\ Left'
  BY <1>1 DEF EarlyInv, NoHandler, Left, Early, Gone
<1>12. LateInv'
  BY <1>1, <1>3, <1>4, <1>8 DEF IInv, LateInv, NoHandler, Late, Told
<1>13. MeetInv'
  BY <1>1, <1>3, <1>4 DEF IInv, LateInv, NoHandler, MeetInv, ClientInv, Late, InCall, None, Servers
<1>14. CallInv' /\ OffInv'
  BY <1>1, <1>4, <1>8 DEF IInv, CallInv, OffInv, Late
<1> QED BY <1>6, <1>7, <1>9, <1>10, <1>11, <1>12, <1>13, <1>14 DEF IInv

\* A server that is still mapped takes the token of a call, and of nothing else.
LEMMA Waits ==
  ASSUME IInv, NEW s \in Servers, Wait(s)
  PROVE  IInv'
<1>1. /\ s = proc /\ proc \in Servers /\ proc # None /\ spc[proc] = "wait" /\ NoHandler(proc)
      /\ spc'[proc] = "read"
      /\ \A t \in Servers : t # proc => spc'[t] = spc[t]
      /\ spc' \in [Servers -> ServerPoints]
  BY GotoEffect, "wait" \in ServerPoints \ {"unborn", "dead"}, "read" \in ServerPoints
     DEF IInv, Wait, ServerPoints, Serving
<1>2. att[proc]["in"] = proc /\ semIn[proc] > 0
  BY <1>1 DEF Wait, IInv, LateInv, NoHandler, Late
<1>3. /\ semIn'[proc] = semIn[proc] - 1 /\ \A t \in Servers : t # proc => semIn'[t] = semIn[t]
      /\ semIn' \in [Servers -> Nat]
  BY <1>1, <1>2 DEF Wait, IInv, TypeOK
<1>4. UNCHANGED <<name, content, semOut, att, job, status, ran, handlerVars, pend, clientVars, signals>>
  BY DEF Wait
<1> USE <1>4 DEF handlerVars, clientVars
<1>5. TypeOK'
  BY <1>1, <1>3 DEF IInv, TypeOK
<1>6. OwnAnswer' /\ Numbers' /\ ClientInv'
  BY DEF IInv, OwnAnswer, Numbers, ClientInv, OutClean
<1>7. OneByOne'
  BY <1>1, <1>3 DEF IInv, TypeOK, OneByOne, NoHandler, Servers
<1>8. EarlyInv' /\ Left'
  BY <1>1 DEF EarlyInv, NoHandler, Left, Early, Gone
<1>9. LateInv'
  BY <1>1 DEF IInv, LateInv, NoHandler, Late, Serving, Told, OutClean
<1>10. MeetInv'
  BY <1>1, <1>2, <1>3 DEF IInv, MeetInv, Late, Serving
<1>11. CallInv'
  BY <1>1, <1>2, <1>3 DEF IInv, CallInv, Late, Serving
<1>12. OffInv'
  BY <1>1, <1>2, <1>3 DEF IInv, OffInv, Late, Serving, OutClean
<1> QED BY <1>5, <1>6, <1>7, <1>8, <1>9, <1>10, <1>11, <1>12 DEF IInv

\* What a mapped server reads is the request of the latest call.
LEMMA Reads ==
  ASSUME IInv, NEW s \in Servers, Read(s)
  PROVE  IInv'
<1> DEFINE seen == content[att[s]["shm"]]
           overrun == seen.kind = "response" /\ seen.status # 0
<1>1. /\ s = proc /\ proc \in Servers /\ proc # None /\ spc[proc] = "read" /\ NoHandler(proc)
      /\ spc'[proc] \in {"run", "dead"}
      /\ \A t \in Servers : t # proc => spc'[t] = spc[t]
      /\ spc' \in [Servers -> ServerPoints]
  BY GotoEffect, "read" \in ServerPoints \ {"unborn", "dead"}, "run" \in ServerPoints, "dead" \in ServerPoints
     DEF IInv, Read, ServerPoints, Serving
<1>2. UNCHANGED <<kernelVars, att, status, ran, handlerVars, pend, clientVars, signals>>
  BY DEF Read
<1>3. att[proc]["shm"] \in Servers /\ seen \in Contents
  BY <1>1 DEF IInv, LateInv, NoHandler, Late, Serving, TypeOK
<1>4. /\ job' \in [Servers -> Jobs] /\ \A t \in Servers : job'[t] <= req
      /\ spc'[proc] = "run" => /\ mapped[proc]
                               /\ job'[proc] = (IF seen.kind = "request" THEN seen.id ELSE 0)
      /\ spc'[proc] = "dead" => ~mapped[proc] \/ overrun
  <2>1. CASE Goto(s, "read", "run")
    <3>1. /\ mapped[proc] /\ spc'[proc] = "run"
          /\ job' = [job EXCEPT ![proc] = IF seen.kind = "request" THEN seen.id ELSE 0]
      BY <1>1, <2>1 DEF Read, Goto, NoHandler, IInv, TypeOK
    <3>2. 0 \in Jobs /\ req \in Jobs /\ 0 <= req
      BY BoundsAssumption DEF Jobs, IInv, TypeOK
    <3>3. seen.id \in Jobs
      BY <1>3 DEF Contents
    <3>4. seen.id <= req
      BY <1>1, <1>3 DEF IInv, Numbers
    <3> QED BY <1>1, <3>1, <3>2, <3>3, <3>4 DEF IInv, TypeOK, Numbers
  <2>2. CASE ~Goto(s, "read", "run")
    BY <1>1, <2>2 DEF Read, Goto, NoHandler, IInv, TypeOK, Numbers
  <2> QED BY <2>1, <2>2
<1> USE <1>2 DEF kernelVars, handlerVars, clientVars
<1>5. TypeOK'
  BY <1>1, <1>4 DEF IInv, TypeOK
<1>6. OwnAnswer' /\ ClientInv'
  BY DEF IInv, OwnAnswer, ClientInv, OutClean
<1>7. Numbers'
  BY <1>4 DEF IInv, Numbers
<1>8. OneByOne'
  BY <1>1 DEF IInv, TypeOK, OneByOne, NoHandler, Servers
<1>9. EarlyInv'
  BY <1>1 DEF EarlyInv, NoHandler, Early
<1>10. spc'[proc] = "dead" => ~mapped[proc]
  <2>1. mapped[proc] => seen.kind = "request"
    BY <1>1 DEF IInv, LateInv, NoHandler, MeetInv, CallInv, OffInv, Late, Serving, InCall, Request
  <2> QED BY <1>4, <2>1
<1>11. Left'
  BY <1>1, <1>10 DEF IInv, LateInv, NoHandler, Left, Late, Serving, Gone, OutClean
<1>12. LateInv' /\ MeetInv'
  BY <1>1, <1>4 DEF IInv, LateInv, NoHandler, MeetInv, Late, Serving, Told, OutClean
<1>13. CallInv'
  BY <1>1, <1>4 DEF IInv, CallInv, MeetInv, Late, Serving, InCall, Request
<1>14. OffInv'
  BY <1>1, <1>4 DEF IInv, OffInv, Late, Serving, OutClean, Request
<1> QED BY <1>5, <1>6, <1>7, <1>8, <1>9, <1>11, <1>12, <1>13, <1>14 DEF IInv

\* The target is run on the latest request; a server that aborts here leaves clean semaphores.
LEMMA Runs ==
  ASSUME IInv, NEW s \in Servers, Run(s)
  PROVE  IInv'
<1>1. /\ s = proc /\ proc \in Servers /\ proc # None /\ spc[proc] = "run" /\ NoHandler(proc)
      /\ spc'[proc] \in {"clear", "dead"}
      /\ \A t \in Servers : t # proc => spc'[t] = spc[t]
      /\ spc' \in [Servers -> ServerPoints]
  BY GotoEffect, "run" \in ServerPoints \ {"unborn", "dead"}, "clear" \in ServerPoints, "dead" \in ServerPoints
     DEF IInv, Run, ServerPoints, Serving
<1>2. UNCHANGED <<kernelVars, att, job, handlerVars, pend, clientVars, signals>>
  BY DEF Run
<1>3. /\ status' \in [Servers -> Statuses] /\ ran' \in Jobs /\ ran' <= req
      /\ spc'[proc] = "dead" => stopSoon[proc] \/ TargetCanFail
  <2>1. \A st \in Statuses : [status EXCEPT ![s] = st] \in [Servers -> Statuses]
    BY DEF IInv, TypeOK
  <2>2. job[proc] \in Jobs /\ job[proc] <= req /\ ran \in Jobs /\ ran <= req
    BY <1>1 DEF IInv, TypeOK, Numbers
  <2>3. status \in [Servers -> Statuses]
    BY DEF IInv, TypeOK
  <2>4. CASE stopSoon[s] \/ TargetCanFail
    BY <1>1, <2>1, <2>2, <2>3, <2>4 DEF Run
  <2>5. CASE ~(stopSoon[s] \/ TargetCanFail)
    <3>1. spc'[proc] = "clear" /\ ran' \in {ran, job[proc]}
      BY <1>1, <2>5 DEF Run, Goto, IInv, TypeOK
    <3> QED BY <1>1, <2>1, <2>2, <2>5, <3>1 DEF Run
  <2> QED BY <2>4, <2>5
<1> USE <1>2 DEF kernelVars, handlerVars, clientVars
<1>4. TypeOK'
  BY <1>1, <1>3 DEF IInv, TypeOK
<1>5. OwnAnswer'
  BY DEF IInv, OwnAnswer
<1>6. Numbers'
  BY <1>3 DEF IInv, Numbers
<1>7. ClientInv'
  BY <1>1 DEF IInv, ClientInv, MeetInv, Late, Serving, OutClean
<1>8. OneByOne'
  BY <1>1 DEF IInv, TypeOK, OneByOne, NoHandler, Servers
<1>9. EarlyInv'
  BY <1>1 DEF EarlyInv, NoHandler, Early
<1>10. Left'
  <2>1. CASE ~mapped[proc] \/ stopSoon[proc]
    BY <1>1, <2>1 DEF IInv, LateInv, NoHandler, Left, Late, Serving, Gone, OutClean
  <2>2. CASE mapped[proc] /\ ~stopSoon[proc]
    BY <1>1, <1>3, <2>2 DEF IInv, LateInv, NoHandler, MeetInv, CallInv, OffInv, Left, Late, Serving, InCall, Gone, OutClean
  <2> QED BY <2>1, <2>2 DEF IInv, TypeOK
<1>11. LateInv' /\ MeetInv'
  BY <1>1 DEF IInv, LateInv, NoHandler, MeetInv, Late, Serving, Told, OutClean
<1>12. CallInv' /\ OffInv'
  BY <1>1 DEF IInv, CallInv, OffInv, Late, Serving, OutClean
<1> QED BY <1>4, <1>5, <1>6, <1>7, <1>8, <1>9, <1>10, <1>11, <1>12 DEF IInv

\* Where a write to the shared memory goes, and what becomes of a server without it.
LEMMA WriteEffect ==
  ASSUME IInv, NEW s \in Servers, NEW from \in Serving, NEW to \in Serving, NEW data \in Contents,
         WriteShm(s, from, to, data), UNCHANGED mapped
  PROVE  /\ s = proc /\ proc \in Servers /\ proc # None /\ spc[proc] = from /\ NoHandler(proc)
         /\ \A t \in Servers : t # proc => spc'[t] = spc[t]
         /\ spc' \in [Servers -> ServerPoints]
         /\ att[proc]["shm"] \in Servers
         /\ content' \in [Servers -> Contents]
         /\ \A t \in Servers : content'[t] \in {content[t], data}
         /\ \/ mapped[proc] /\ spc'[proc] = to /\ content'[att[proc]["shm"]] = data
            \/ ~mapped[proc] /\ spc'[proc] = "dead" /\ UNCHANGED content
<1>1. /\ s = proc /\ proc \in Servers /\ proc # None /\ spc[proc] = from /\ NoHandler(proc)
      /\ spc'[proc] \in {to, "dead"}
      /\ \A t \in Servers : t # proc => spc'[t] = spc[t]
      /\ spc' \in [Servers -> ServerPoints]
  BY GotoEffect, from \in ServerPoints \ {"unborn", "dead"}, to \in ServerPoints, "dead" \in ServerPoints
     DEF IInv, WriteShm, ServerPoints, Serving
<1>2. att[proc]["shm"] \in Servers
  BY <1>1 DEF IInv, LateInv, NoHandler, Late
<1>3. CASE mapped[proc]
  <2>1. Goto(s, from, to) /\ content' = [content EXCEPT ![att[proc]["shm"]] = data]
    BY <1>1, <1>3 DEF WriteShm
  <2> QED BY <1>1, <1>2, <1>3, <2>1 DEF Goto, NoHandler, IInv, TypeOK
<1>4. CASE ~mapped[proc]
  <2>1. Goto(s, from, "dead") /\ UNCHANGED content
    BY <1>1, <1>4 DEF WriteShm
  <2> QED BY <1>1, <1>2, <1>4, <2>1 DEF Goto, NoHandler, IInv, TypeOK
<1> QED BY <1>3, <1>4

\* The answer is begun while the client waits, or has gone.
LEMMA Clears ==
  ASSUME IInv, NEW s \in Servers, Clear(s)
  PROVE  IInv'
<1>1. UNCHANGED <<name, semIn, semOut, att, job, status, ran, handlerVars, pend, clientVars, signals>>
  BY DEF Clear
<1> USE <1>1 DEF handlerVars, clientVars
<1>2. /\ proc \in Servers /\ proc # None /\ spc[proc] = "clear" /\ NoHandler(proc)
      /\ \A t \in Servers : t # proc => spc'[t] = spc[t]
      /\ spc' \in [Servers -> ServerPoints]
      /\ att[proc]["shm"] \in Servers
      /\ content' \in [Servers -> Contents]
      /\ \A t \in Servers : content'[t] \in {content[t], Zero}
      /\ \/ mapped[proc] /\ spc'[proc] = "reply" /\ content'[att[proc]["shm"]] = Zero
         \/ ~mapped[proc] /\ spc'[proc] = "dead" /\ UNCHANGED content
  <2>1. Zero \in Contents /\ "clear" \in Serving /\ "reply" \in Serving
    BY BoundsAssumption DEF Zero, Contents, Jobs, Statuses, Serving
  <2> QED BY <2>1, WriteEffect DEF Clear
<1>3. TypeOK'
  BY <1>2 DEF IInv, TypeOK
<1>4. OwnAnswer'
  BY DEF IInv, OwnAnswer
<1>5. Numbers'
  BY <1>2 DEF IInv, Numbers, Zero, TypeOK, Jobs
<1>6. ClientInv'
  BY <1>2 DEF IInv, ClientInv, MeetInv, CallInv, Late, Serving, InCall, Connecting
<1>7. OneByOne'
  BY <1>2 DEF IInv, TypeOK, OneByOne, NoHandler, Servers
<1>8. EarlyInv'
  BY <1>2 DEF EarlyInv, NoHandler, Early
<1>9. Left'
  BY <1>2 DEF IInv, LateInv, NoHandler, Left, Late, Serving, Gone, OutClean
<1>10. LateInv' /\ MeetInv'
  BY <1>2 DEF IInv, LateInv, NoHandler, MeetInv, Late, Serving, Told, OutClean, Zero, Unsized
<1>11. CallInv' /\ OffInv'
  BY <1>2 DEF IInv, CallInv, OffInv, MeetInv, Late, Serving, InCall, OutClean, Zero
<1> QED BY <1>3, <1>4, <1>5, <1>6, <1>7, <1>8, <1>9, <1>10, <1>11 DEF IInv

\* The answer carries the number of the call that waits for it.
LEMMA Replies ==
  ASSUME IInv, NEW s \in Servers, Reply(s)
  PROVE  IInv'
<1> DEFINE answer == Response(job[s], status[s])
<1>1. UNCHANGED <<name, semIn, semOut, att, job, status, ran, handlerVars, pend, clientVars, signals>>
  BY DEF Reply
<1> USE <1>1 DEF handlerVars, clientVars
<1>2. /\ s = proc /\ proc \in Servers /\ proc # None /\ spc[proc] = "reply" /\ NoHandler(proc)
      /\ \A t \in Servers : t # proc => spc'[t] = spc[t]
      /\ spc' \in [Servers -> ServerPoints]
      /\ att[proc]["shm"] \in Servers
      /\ content' \in [Servers -> Contents]
      /\ \A t \in Servers : content'[t] \in {content[t], answer}
      /\ \/ mapped[proc] /\ spc'[proc] = "post" /\ content'[att[proc]["shm"]] = answer
         \/ ~mapped[proc] /\ spc'[proc] = "dead" /\ UNCHANGED content
  <2>1. answer \in Contents /\ "reply" \in Serving /\ "post" \in Serving
    BY DEF Response, Contents, Serving, IInv, TypeOK
  <2> HIDE DEF answer
  <2>2. WriteShm(s, "reply", "post", answer)
    BY DEF Reply, answer
  <2> QED BY <2>1, <2>2, WriteEffect
<1>3. /\ answer.kind = "response" /\ answer.id = job[proc] /\ answer # Unsized
      /\ answer = Response(job[proc], status[proc])
  BY <1>2 DEF Response, Unsized
<1> HIDE DEF answer
<1>4. TypeOK'
  BY <1>2 DEF IInv, TypeOK
<1>5. OwnAnswer'
  BY DEF IInv, OwnAnswer
<1>6. Numbers'
  BY <1>2, <1>3 DEF IInv, Numbers, TypeOK
<1>7. ClientInv'
  BY <1>2 DEF IInv, ClientInv, MeetInv, CallInv, Late, Serving, InCall, Connecting
<1>8. OneByOne'
  BY <1>2 DEF IInv, TypeOK, OneByOne, NoHandler, Servers
<1>9. EarlyInv'
  BY <1>2 DEF EarlyInv, NoHandler, Early
<1>10. Left'
  BY <1>2 DEF IInv, LateInv, NoHandler, Left, Late, Serving, Gone, OutClean
<1>11. LateInv' /\ MeetInv'
  BY <1>2, <1>3 DEF IInv, LateInv, NoHandler, MeetInv, Late, Serving, Told, OutClean
<1>12. CallInv' /\ OffInv'
  BY <1>2, <1>3 DEF IInv, CallInv, OffInv, MeetInv, Late, Serving, InCall, OutClean
<1> QED BY <1>4, <1>5, <1>6, <1>7, <1>8, <1>9, <1>10, <1>11, <1>12 DEF IInv

\* The answer's token is the only one, and its server waits without a token of its own.
LEMMA Posts ==
  ASSUME IInv, NEW s \in Servers, Post(s)
  PROVE  IInv'
<1>1. /\ s = proc /\ proc \in Servers /\ proc # None /\ spc[proc] = "post" /\ NoHandler(proc)
      /\ spc'[proc] = "wait"
      /\ \A t \in Servers : t # proc => spc'[t] = spc[t]
      /\ spc' \in [Servers -> ServerPoints]
  BY GotoEffect, "post" \in ServerPoints \ {"unborn", "dead"}, "wait" \in ServerPoints
     DEF IInv, Post, ServerPoints, Serving
<1>2. UNCHANGED <<name, content, semIn, att, job, status, ran, handlerVars, pend, clientVars, signals>>
  BY DEF Post
<1>3. att[proc]["out"] \in Servers /\ att[proc]["out"] <= proc
  BY <1>1 DEF IInv, LateInv, NoHandler, Late, Serving, OneByOne, Names
<1>4. /\ semOut'[att[proc]["out"]] = semOut[att[proc]["out"]] + 1
      /\ \A t \in Servers : t # att[proc]["out"] => semOut'[t] = semOut[t]
      /\ semOut' \in [Servers -> Nat]
  <2> DEFINE o == att[proc]["out"]
  <2>1. o \in Servers /\ semOut' = [semOut EXCEPT ![o] = @ + 1]
    BY <1>1, <1>3 DEF Post
  <2>2. semOut \in [Servers -> Nat]
    BY DEF IInv, TypeOK
  <2> HIDE DEF o
  <2>3. /\ semOut'[o] = semOut[o] + 1 /\ \A t \in Servers : t # o => semOut'[t] = semOut[t]
        /\ semOut' \in [Servers -> Nat]
    BY <2>1, <2>2
  <2> QED BY <2>3 DEF o
<1> USE <1>2 DEF handlerVars, clientVars
<1>5. TypeOK'
  BY <1>1, <1>4 DEF IInv, TypeOK
<1>6. OwnAnswer' /\ Numbers'
  BY DEF IInv, OwnAnswer, Numbers
<1>7. OneByOne'
  BY <1>1, <1>3, <1>4 DEF IInv, TypeOK, OneByOne, NoHandler, Servers
<1>8. EarlyInv' /\ Left'
  BY <1>1 DEF EarlyInv, NoHandler, Left, Early, Gone
<1>9. LateInv'
  BY <1>1 DEF IInv, LateInv, NoHandler, Late, Serving, Told, OutClean
<1>10. MeetInv' /\ OffInv'
  BY <1>1 DEF IInv, MeetInv, OffInv, Late, Serving
<1>11. cpc \in {"acquire", "off"} /\ (cpc = "acquire" => catt["out"] \in Servers)
  BY <1>1 DEF IInv, MeetInv, ClientInv, InCall, Late, Serving
<1>12. ClientInv'
  <2>1. CASE cpc = "off"
    BY <2>1 DEF ClientInv, InCall, Connecting
  <2>2. CASE cpc = "acquire"
    <3>1. semOut[catt["out"]] = 0 /\ content[catt["shm"]].kind = "response" /\ content[catt["shm"]].id = req
      BY <1>1, <2>2 DEF IInv, CallInv, Late, Serving, Response
    <3>2. semOut'[catt["out"]] \in {0, 1}
      BY <1>3, <1>4, <1>11, <2>2, <3>1
    <3> QED BY <2>2, <3>1, <3>2 DEF IInv, ClientInv, InCall, Connecting
  <2> QED BY <1>11, <2>1, <2>2
<1>13. CallInv'
  BY <1>1, <1>3, <1>4, <1>11 DEF IInv, TypeOK, CallInv, MeetInv, LateInv, NoHandler, Late, Serving, InCall
<1> QED BY <1>5, <1>6, <1>7, <1>8, <1>9, <1>10, <1>12, <1>13 DEF IInv

-----------------------------------------------------------------------------
(* The stop handler.                                                        *)

\* A signal to a booting server ends it, to a later one it starts its handler.
LEMMA Delivers ==
  ASSUME IInv, NEW s \in Servers, Deliver(s)
  PROVE  IInv'
<1>0. PICK g \in pend[s] :
        /\ Alive(s) /\ hpc[s][g] = "none"
        /\ pend' = [pend EXCEPT ![s] = @ \ {g}]
        /\ \/ spc[s] \in Early /\ spc' = [spc EXCEPT ![s] = "dead"] /\ UNCHANGED <<hpc, nest, stopSoon>>
           \/ /\ spc[s] \notin Early /\ UNCHANGED spc
              /\ hpc' = [hpc EXCEPT ![s][g] = "post"]
              /\ nest' = [nest EXCEPT ![s] = <<g>> \o @]
              /\ stopSoon' = [stopSoon EXCEPT ![s] = TRUE]
  BY DEF Deliver, Early
<1>1. /\ s = proc /\ proc \in Servers /\ proc # None /\ spc[proc] \notin {"unborn", "dead"}
      /\ g \in StopSignals
  BY <1>0, Living DEF IInv, TypeOK, Alive
<1>2. UNCHANGED <<kernelVars, att, job, status, ran, mapped, inData, clientVars, signals>>
  BY DEF Deliver
<1>3. /\ \A t \in Servers : t # proc => spc'[t] = spc[t] /\ hpc'[t] = hpc[t] /\ pend'[t] = pend[t]
                                        /\ stopSoon'[t] = stopSoon[t]
      /\ spc' \in [Servers -> ServerPoints] /\ hpc' \in [Servers -> [StopSignals -> HandlerPoints]]
      /\ nest' \in [Servers -> Seq(StopSignals)]
      /\ pend' \in [Servers -> SUBSET StopSignals] /\ stopSoon' \in [Servers -> BOOLEAN]
      /\ \/ spc[proc] \in Early /\ spc'[proc] = "dead" /\ UNCHANGED <<hpc, stopSoon>>
         \/ /\ spc[proc] \notin Early /\ UNCHANGED spc /\ stopSoon'[proc]
            /\ hpc'[proc][g] = "post" /\ \A h \in StopSignals : h # g => hpc'[proc][h] = hpc[proc][h]
  <2>1. nest' \in [Servers -> Seq(StopSignals)]
    <3>1. <<g>> \o nest[proc] \in Seq(StopSignals)
      BY <1>1 DEF IInv, TypeOK
    <3> QED BY <1>0, <1>1, <3>1 DEF IInv, TypeOK
  <2>2. hpc' \in [Servers -> [StopSignals -> HandlerPoints]]
    <3>1. hpc \in [Servers -> [StopSignals -> HandlerPoints]]
      BY DEF IInv, TypeOK
    <3>2. "post" \in HandlerPoints
      BY DEF HandlerPoints
    <3> QED BY <1>0, <1>1, <3>1, <3>2
  <2>3. /\ spc' \in [Servers -> ServerPoints] /\ stopSoon' \in [Servers -> BOOLEAN]
        /\ pend' \in [Servers -> SUBSET StopSignals]
    BY <1>0, <1>1 DEF IInv, TypeOK, ServerPoints
  <2>4. \A t \in Servers : t # proc => spc'[t] = spc[t] /\ hpc'[t] = hpc[t] /\ pend'[t] = pend[t]
                                       /\ stopSoon'[t] = stopSoon[t]
    BY <1>0, <1>1 DEF IInv, TypeOK
  <2> QED BY <1>0, <1>1, <2>1, <2>2, <2>3, <2>4 DEF IInv, TypeOK
<1> USE <1>2 DEF kernelVars, clientVars
<1>4. TypeOK'
  BY <1>3 DEF IInv, TypeOK
<1>5. OwnAnswer' /\ Numbers' /\ ClientInv'
  BY DEF IInv, OwnAnswer, Numbers, ClientInv, OutClean
<1>6. OneByOne'
  BY <1>1, <1>3 DEF IInv, TypeOK, OneByOne, NoHandler, Servers
<1>7. spc[proc] \in Early \/ spc[proc] \in Late
  BY <1>1 DEF IInv, TypeOK, ServerPoints, Early, Late, Booting
<1>8. CASE spc[proc] \in Early
  <2>1. spc'[proc] = "dead"
    BY <1>3, <1>8
  <2>2. Left'
    BY <1>1, <1>8 DEF IInv, EarlyInv, NoHandler, Left, OutClean
  <2>3. EarlyInv' /\ LateInv' /\ MeetInv' /\ CallInv' /\ OffInv'
    BY <2>1 DEF EarlyInv, NoHandler, LateInv, MeetInv, CallInv, OffInv, Early, Late, Serving
  <2> QED BY <1>4, <1>5, <1>6, <2>2, <2>3 DEF IInv
<1>9. CASE spc[proc] \in Late
  <2>1. /\ spc[proc] \notin Early /\ UNCHANGED spc /\ stopSoon'[proc]
        /\ hpc'[proc][g] = "post" /\ \A h \in StopSignals : h # g => hpc'[proc][h] = hpc[proc][h]
    BY <1>3, <1>9 DEF Early, Late, Serving
  <2>2. Left' /\ EarlyInv'
    BY <1>1, <2>1 DEF Left, Gone, EarlyInv, NoHandler
  <2>3. LateInv'
    BY <1>1, <1>9, <2>1 DEF IInv, LateInv, NoHandler, Told, OutClean
  <2>4. MeetInv' /\ CallInv' /\ OffInv'
    BY <2>1 DEF IInv, MeetInv, CallInv, OffInv, OutClean
  <2> QED BY <1>4, <1>5, <1>6, <2>2, <2>3, <2>4 DEF IInv
<1> QED BY <1>7, <1>8, <1>9

\* Only the latest server can be in its handler, and it is past the input semaphore.
LEMMA Handling ==
  ASSUME IInv, NEW s \in Servers, Alive(s), ~NoHandler(s)
  PROVE  s = proc /\ proc \in Servers /\ proc # None /\ spc[proc] \in Late /\ stopSoon[proc]
<1>1. s = proc /\ proc # None /\ spc[proc] \notin {"unborn", "dead"}
  BY Living DEF IInv, Alive
<1>2. spc[proc] \in Early \/ spc[proc] \in Late
  BY <1>1 DEF IInv, TypeOK, ServerPoints, Early, Late, Booting
<1> QED BY <1>1, <1>2 DEF IInv, EarlyInv, NoHandler, LateInv

\* A step of a handler moves that handler, and no other.
LEMMA HandlerEffect ==
  ASSUME IInv, NEW s \in Servers, NEW from \in HandlerPoints \ {"none"}, NEW to \in HandlerPoints,
         HandlerGoto(s, from, to)
  PROVE  /\ s = proc /\ proc \in Servers /\ proc # None /\ spc[proc] \in Late /\ stopSoon[proc]
         /\ \A t \in Servers : t # proc => hpc'[t] = hpc[t]
         /\ hpc' \in [Servers -> [StopSignals -> HandlerPoints]]
         /\ nest' \in [Servers -> Seq(StopSignals)]
         /\ \E g \in StopSignals :
              /\ hpc[proc][g] = from /\ hpc'[proc][g] = to
              /\ \A h \in StopSignals : h # g => hpc'[proc][h] = hpc[proc][h]
<1> DEFINE g == Head(nest[s])
<1>1. nest[s] \in Seq(StopSignals) /\ nest[s] # << >> /\ Alive(s)
  BY DEF HandlerGoto, IInv, TypeOK
<1>2. g \in StopSignals /\ Tail(nest[s]) \in Seq(StopSignals)
  BY <1>1
<1>3. hpc[s][g] = from /\ hpc' = [hpc EXCEPT ![s][g] = to]
  BY DEF HandlerGoto
<1>4. nest' = [nest EXCEPT ![s] = Tail(@)] \/ nest' = nest
  BY DEF HandlerGoto
<1> HIDE DEF g
<1>5. ~NoHandler(s)
  BY <1>2, <1>3 DEF NoHandler
<1>6. s = proc /\ proc \in Servers /\ proc # None /\ spc[proc] \in Late /\ stopSoon[proc]
  BY <1>1, <1>5, Handling
<1>7. nest' \in [Servers -> Seq(StopSignals)]
  BY <1>2, <1>4 DEF IInv, TypeOK
<1>8. hpc' \in [Servers -> [StopSignals -> HandlerPoints]]
  BY <1>2, <1>3 DEF IInv, TypeOK
<1>9. /\ \A t \in Servers : t # s => hpc'[t] = hpc[t]
      /\ hpc'[s][g] = to /\ \A h \in StopSignals : h # g => hpc'[s][h] = hpc[s][h]
  BY <1>2, <1>3 DEF IInv, TypeOK
<1> QED BY <1>2, <1>3, <1>6, <1>7, <1>8, <1>9

\* The token that wakes the main thread comes with the loss of its memory.
LEMMA HandlerPosts ==
  ASSUME IInv, NEW s \in Servers, HandlerPost(s)
  PROVE  IInv'
<1>1. /\ s = proc /\ proc \in Servers /\ proc # None /\ spc[proc] \in Late /\ stopSoon[proc]
      /\ \A t \in Servers : t # proc => hpc'[t] = hpc[t]
      /\ hpc' \in [Servers -> [StopSignals -> HandlerPoints]]
      /\ nest' \in [Servers -> Seq(StopSignals)]
      /\ \E g \in StopSignals :
           /\ hpc[proc][g] = "post" /\ hpc'[proc][g] = "unlinkShm"
           /\ \A h \in StopSignals : h # g => hpc'[proc][h] = hpc[proc][h]
  BY HandlerEffect, "post" \in HandlerPoints \ {"none"}, "unlinkShm" \in HandlerPoints
     DEF HandlerPost, HandlerPoints
<1>2. UNCHANGED <<name, content, semOut, mainVars, stopSoon, inData, pend, clientVars, signals>>
  BY DEF HandlerPost
<1>3. att[proc]["in"] = proc
  BY <1>1 DEF IInv, LateInv, NoHandler
<1>4. /\ \A t \in Servers : t # proc => mapped'[t] = mapped[t] /\ semIn'[t] = semIn[t]
      /\ mapped' \in [Servers -> BOOLEAN]
      /\ semIn' \in [Servers -> Nat]
      /\ mapped'[proc] = FALSE
  <2>1. semIn' = [semIn EXCEPT ![proc] = @ + 1] /\ semIn \in [Servers -> Nat]
    BY <1>1, <1>3 DEF HandlerPost, IInv, TypeOK
  <2> QED BY <1>1, <2>1 DEF HandlerPost, IInv, TypeOK
<1> USE <1>2 DEF mainVars, clientVars
<1>5. TypeOK'
  BY <1>1, <1>4 DEF IInv, TypeOK
<1>6. OwnAnswer' /\ Numbers' /\ ClientInv'
  BY DEF IInv, OwnAnswer, Numbers, ClientInv, OutClean
<1>7. OneByOne'
  BY <1>1, <1>4 DEF IInv, TypeOK, OneByOne, NoHandler, Servers, Late, Serving
<1>8. EarlyInv' /\ Left'
  BY <1>1 DEF EarlyInv, NoHandler, Left, Early, Late, Serving, Gone
<1>9. LateInv'
  BY <1>1, <1>4 DEF IInv, LateInv, NoHandler, Told, OutClean
<1>10. MeetInv' /\ CallInv' /\ OffInv'
  BY <1>1, <1>4 DEF IInv, MeetInv, CallInv, OffInv
<1> QED BY <1>5, <1>6, <1>7, <1>8, <1>9, <1>10 DEF IInv

\* An unlinked name, of a server without its memory.
LEMMA UnlinkEffect ==
  ASSUME IInv, NEW s \in Servers, NEW n \in Names, NEW from \in {"unlinkShm", "unlinkIn", "unlinkOut"},
         NEW to \in HandlerPoints, HandlerUnlink(s, n, from, to)
  PROVE  /\ s = proc /\ proc \in Servers /\ proc # None /\ spc[proc] \in Late /\ stopSoon[proc]
         /\ ~mapped[proc]
         /\ \A t \in Servers : t # proc => hpc'[t] = hpc[t]
         /\ hpc' \in [Servers -> [StopSignals -> HandlerPoints]]
         /\ nest' \in [Servers -> Seq(StopSignals)]
         /\ \E g \in StopSignals :
              /\ hpc[proc][g] = from /\ hpc'[proc][g] = to
              /\ \A h \in StopSignals : h # g => hpc'[proc][h] = hpc[proc][h]
         /\ name'[n] = None /\ \A m \in Names : m # n => name'[m] = name[m]
         /\ name' \in [Names -> 0..MaxServers]
         /\ UNCHANGED <<content, semIn, semOut, att, job, status, ran, mapped, stopSoon, pend, clientVars, signals>>
         /\ OutClean => OutClean'
<1>1. /\ s = proc /\ proc \in Servers /\ proc # None /\ spc[proc] \in Late /\ stopSoon[proc]
      /\ \A t \in Servers : t # proc => hpc'[t] = hpc[t]
      /\ hpc' \in [Servers -> [StopSignals -> HandlerPoints]]
      /\ nest' \in [Servers -> Seq(StopSignals)]
      /\ \E g \in StopSignals :
           /\ hpc[proc][g] = from /\ hpc'[proc][g] = to
           /\ \A h \in StopSignals : h # g => hpc'[proc][h] = hpc[proc][h]
  BY HandlerEffect, from \in HandlerPoints \ {"none"} DEF HandlerUnlink, HandlerPoints
<1>2. ~mapped[proc]
  BY <1>1 DEF IInv, LateInv, NoHandler
<1>4. /\ name'[n] = None /\ \A m \in Names : m # n => name'[m] = name[m]
      /\ name' \in [Names -> 0..MaxServers]
  BY BoundsAssumption DEF HandlerUnlink, IInv, TypeOK, None
<1>5. UNCHANGED <<content, semIn, semOut, att, job, status, ran, mapped, stopSoon, pend, clientVars, signals>>
  BY DEF HandlerUnlink
<1>6. OutClean => OutClean'
  BY <1>4, <1>5 DEF OutClean, Names
<1> QED BY <1>1, <1>2, <1>4, <1>5, <1>6

\* The memory object loses its name.
LEMMA UnlinksShm ==
  ASSUME IInv, NEW s \in Servers, HandlerUnlink(s, "shm", "unlinkShm", "unlinkIn"), UNCHANGED <<spc, inData>>
  PROVE  IInv'
<1>1. /\ proc \in Servers /\ proc # None /\ spc[proc] \in Late /\ stopSoon[proc]
      /\ ~mapped[proc]
      /\ \A t \in Servers : t # proc => hpc'[t] = hpc[t]
      /\ hpc' \in [Servers -> [StopSignals -> HandlerPoints]]
      /\ nest' \in [Servers -> Seq(StopSignals)]
      /\ \E g \in StopSignals :
           /\ hpc[proc][g] = "unlinkShm" /\ hpc'[proc][g] = "unlinkIn"
           /\ \A h \in StopSignals : h # g => hpc'[proc][h] = hpc[proc][h]
      /\ name'["shm"] = None /\ name'["in"] = name["in"] /\ name'["out"] = name["out"]
      /\ name' \in [Names -> 0..MaxServers]
      /\ OutClean => OutClean'
  BY UnlinkEffect, "shm" \in Names, "unlinkIn" \in HandlerPoints DEF Names, HandlerPoints
<1>2. UNCHANGED <<content, semIn, semOut, att, job, status, ran, mapped, stopSoon, pend, clientVars, signals>>
  BY DEF HandlerUnlink
<1> USE <1>2 DEF clientVars
<1>3. TypeOK'
  BY <1>1 DEF IInv, TypeOK
<1>4. OwnAnswer' /\ Numbers' /\ ClientInv'
  BY <1>1 DEF IInv, OwnAnswer, Numbers, ClientInv
<1>5. OneByOne'
  BY <1>1 DEF IInv, TypeOK, OneByOne, NoHandler, Servers, Late, Serving, Names, None
<1>6. EarlyInv' /\ Left'
  BY <1>1 DEF EarlyInv, NoHandler, Left, Early, Late, Serving, Gone
<1>7. LateInv'
  BY <1>1 DEF IInv, LateInv, NoHandler, Told
<1>8. MeetInv' /\ CallInv' /\ OffInv'
  BY <1>1 DEF IInv, MeetInv, CallInv, OffInv
<1> QED BY <1>3, <1>4, <1>5, <1>6, <1>7, <1>8 DEF IInv

\* The input semaphore loses its name.
LEMMA UnlinksIn ==
  ASSUME IInv, NEW s \in Servers, HandlerUnlink(s, "in", "unlinkIn", "unlinkOut"), UNCHANGED <<spc, inData>>
  PROVE  IInv'
<1>1. /\ proc \in Servers /\ proc # None /\ spc[proc] \in Late /\ stopSoon[proc]
      /\ ~mapped[proc]
      /\ \A t \in Servers : t # proc => hpc'[t] = hpc[t]
      /\ hpc' \in [Servers -> [StopSignals -> HandlerPoints]]
      /\ nest' \in [Servers -> Seq(StopSignals)]
      /\ \E g \in StopSignals :
           /\ hpc[proc][g] = "unlinkIn" /\ hpc'[proc][g] = "unlinkOut"
           /\ \A h \in StopSignals : h # g => hpc'[proc][h] = hpc[proc][h]
      /\ name'["in"] = None /\ name'["shm"] = name["shm"] /\ name'["out"] = name["out"]
      /\ name' \in [Names -> 0..MaxServers]
      /\ OutClean => OutClean'
  BY UnlinkEffect, "in" \in Names, "unlinkOut" \in HandlerPoints DEF Names, HandlerPoints
<1>2. UNCHANGED <<content, semIn, semOut, att, job, status, ran, mapped, stopSoon, pend, clientVars, signals>>
  BY DEF HandlerUnlink
<1> USE <1>2 DEF clientVars
<1>3. TypeOK'
  BY <1>1 DEF IInv, TypeOK
<1>4. OwnAnswer' /\ Numbers' /\ ClientInv'
  BY <1>1 DEF IInv, OwnAnswer, Numbers, ClientInv
<1>5. OneByOne'
  BY <1>1 DEF IInv, TypeOK, OneByOne, NoHandler, Servers, Late, Serving, Names, None
<1>6. EarlyInv' /\ Left'
  BY <1>1 DEF EarlyInv, NoHandler, Left, Early, Late, Serving, Gone
<1>7. LateInv'
  BY <1>1 DEF IInv, LateInv, NoHandler, Told
<1>8. MeetInv' /\ CallInv' /\ OffInv'
  BY <1>1 DEF IInv, MeetInv, CallInv, OffInv
<1> QED BY <1>3, <1>4, <1>5, <1>6, <1>7, <1>8 DEF IInv

\* The output semaphore loses its name, and the handler returns or has freed in_data twice.
LEMMA UnlinksOut ==
  ASSUME IInv, NEW s \in Servers, HandlerUnlink(s, "out", "unlinkOut", "none"), HandlerFree(s)
  PROVE  IInv'
<1>1. /\ s = proc /\ proc \in Servers /\ proc # None /\ spc[proc] \in Late /\ stopSoon[proc]
      /\ ~mapped[proc]
      /\ \A t \in Servers : t # proc => hpc'[t] = hpc[t]
      /\ hpc' \in [Servers -> [StopSignals -> HandlerPoints]]
      /\ nest' \in [Servers -> Seq(StopSignals)]
      /\ \E g \in StopSignals :
           /\ hpc[proc][g] = "unlinkOut" /\ hpc'[proc][g] = "none"
           /\ \A h \in StopSignals : h # g => hpc'[proc][h] = hpc[proc][h]
      /\ name'["out"] = None /\ name'["shm"] = name["shm"] /\ name'["in"] = name["in"]
      /\ name' \in [Names -> 0..MaxServers]
  BY UnlinkEffect, "out" \in Names, "none" \in HandlerPoints DEF Names, HandlerPoints
<1>2. UNCHANGED <<content, semIn, semOut, att, job, status, ran, mapped, stopSoon, pend, clientVars, signals>>
  BY DEF HandlerUnlink
<1>3. /\ \A t \in Servers : t # proc => spc'[t] = spc[t] /\ inData'[t] = inData[t]
      /\ spc' \in [Servers -> ServerPoints] /\ inData' \in [Servers -> {"null", "held", "freed"}]
      /\ spc'[proc] \in {spc[proc], "dead"}
  BY <1>1 DEF HandlerFree, IInv, TypeOK, ServerPoints
<1>4. name["shm"] = None /\ name["in"] = None /\ OutClean'
  BY <1>1 DEF IInv, LateInv, NoHandler, OutClean
<1> USE <1>2 DEF clientVars
<1>5. TypeOK'
  BY <1>1, <1>3 DEF IInv, TypeOK
<1>6. OwnAnswer' /\ Numbers' /\ ClientInv'
  BY <1>4 DEF IInv, OwnAnswer, Numbers, ClientInv
<1>7. OneByOne'
  BY <1>1, <1>3 DEF IInv, TypeOK, OneByOne, NoHandler, Servers, Late, Serving, Names, None
<1>8. EarlyInv' /\ Left'
  BY <1>1, <1>3, <1>4 DEF EarlyInv, NoHandler, Left, Early, Late, Serving
<1>9. LateInv'
  BY <1>1, <1>3, <1>4 DEF IInv, LateInv, NoHandler, Told, Late, Serving
<1>10. MeetInv' /\ CallInv' /\ OffInv'
  BY <1>1, <1>3 DEF IInv, MeetInv, CallInv, OffInv, Late, Serving
<1> QED BY <1>5, <1>6, <1>7, <1>8, <1>9, <1>10 DEF IInv

-----------------------------------------------------------------------------
(* The client.                                                              *)

\* Every server is booting, or serving, or gone.
LEMMA ProcPhase ==
  ASSUME IInv
  PROVE  Gone \/ (proc \in Servers /\ proc # None /\ (spc[proc] \in Early \/ spc[proc] \in Late))
  BY DEF IInv, OneByOne, NoHandler, TypeOK, Servers, None, Gone, ServerPoints, Early, Late, Booting

\* A new server comes after a dead one, which has left it clean names.
LEMMA Launches ==
  ASSUME IInv, FailuresAlone, NEW s \in Servers, Launch(s)
  PROVE  IInv'
<1>1. /\ cpc = "off" /\ spc[s] = "unborn" /\ \A t \in Servers : t < s => spc[t] = "dead"
      /\ proc' = s /\ cpc' = "openShm" /\ catt' = Detached
  BY DEF Launch, StartEngine
<1>2. UNCHANGED <<kernelVars, att, job, status, ran, handlerVars, pend, req, last, signals>>
  BY DEF Launch, StartEngine
<1>3. /\ spc'[s] = "boot" /\ \A t \in Servers : t # s => spc'[t] = spc[t]
      /\ spc' \in [Servers -> ServerPoints]
  BY DEF Launch, StartEngine, IInv, TypeOK, ServerPoints, Booting
<1>4. s > proc /\ Gone
  BY <1>1 DEF IInv, OneByOne, NoHandler, TypeOK, Servers, None, Gone
<1>5. name["in"] = None /\ OutClean
  BY <1>4, BoundsAssumption DEF IInv, Left, FailuresAlone, TypeOK, Servers, None
<1> USE <1>2 DEF kernelVars, handlerVars
<1>6. TypeOK'
  <2>1. Detached \in Attached
    BY BoundsAssumption DEF Detached, Attached, None
  <2> QED BY <1>1, <1>3, <2>1 DEF IInv, TypeOK, ClientPoints, Servers
<1>7. OwnAnswer' /\ Numbers'
  BY DEF IInv, OwnAnswer, Numbers
<1>8. att[s] = Detached /\ NoHandler(s) /\ ~mapped[s] /\ ~stopSoon[s] /\ inData[s] = "null"
      /\ semIn[s] = 0 /\ semOut[s] = 0
  BY <1>4 DEF IInv, OneByOne, NoHandler
<1>9. OneByOne'
  <2>1. \A n \in Names : Detached[n] = 0
    BY DEF Detached, None
  <2>2. \A t \in Servers : t > s => t > proc
    BY <1>4 DEF IInv, TypeOK, Servers
  <2>3. \A n \in Names : name[n] <= s /\ 0 <= s
    BY <1>4 DEF IInv, TypeOK, OneByOne, NoHandler, Servers
  <2> QED BY <1>1, <1>3, <1>4, <1>8, <2>1, <2>2, <2>3 DEF IInv, TypeOK, OneByOne, NoHandler, Servers, None
<1>10. EarlyInv'
  BY <1>1, <1>3, <1>5, <1>8 DEF EarlyInv, NoHandler, Early, OutClean, Detached, None, Names
<1>11. LateInv' /\ MeetInv' /\ CallInv' /\ OffInv' /\ Left'
  BY <1>1, <1>3, <1>4 DEF LateInv, NoHandler, MeetInv, CallInv, OffInv, Left, Late, Serving, Gone, IInv, TypeOK, Servers, None
<1>12. ClientInv'
  BY <1>1, <1>5 DEF ClientInv, InCall, Connecting, OutClean
<1> QED BY <1>6, <1>7, <1>9, <1>10, <1>11, <1>12 DEF IInv

\* The client maps the object its server has, or will have.
LEMMA ClientOpensShm ==
  ASSUME IInv, ClientOpenShm
  PROVE  IInv'
<1>1. UNCHANGED <<kernelVars, mainVars, handlerVars, pend, proc, req, last, signals>>
  BY DEF ClientOpenShm
<1>2. /\ cpc = "openShm"
      /\ \/ /\ cpc' = "openIn" /\ name["shm"] # None
            /\ catt'["shm"] = name["shm"] /\ catt'["in"] = catt["in"] /\ catt'["out"] = catt["out"]
         \/ cpc' = "failed" /\ UNCHANGED catt
      /\ catt' \in Attached
  BY DEF ClientOpenShm, IInv, TypeOK, Attached, Names
<1> USE <1>1 DEF kernelVars, mainVars, handlerVars
<1>3. TypeOK'
  BY <1>2 DEF IInv, TypeOK, ClientPoints
<1>4. OwnAnswer' /\ Numbers'
  BY DEF IInv, OwnAnswer, Numbers
<1>5. OneByOne'
  BY <1>2 DEF IInv, TypeOK, OneByOne, NoHandler, Names, None
<1>6. Left' /\ EarlyInv'
  BY <1>2 DEF IInv, Left, EarlyInv, NoHandler, Gone, OutClean
<1>7. LateInv' /\ CallInv' /\ OffInv'
  BY <1>2 DEF IInv, LateInv, NoHandler, CallInv, OffInv, Told, OutClean
<1>8. MeetInv'
  BY <1>2 DEF IInv, MeetInv, LateInv, NoHandler, InCall
<1>9. ClientInv'
  BY <1>2 DEF IInv, ClientInv, InCall, Connecting, OutClean, TypeOK, Names, Servers, None
<1> QED BY <1>3, <1>4, <1>5, <1>6, <1>7, <1>8, <1>9 DEF IInv

\* The input semaphore has a name only if it is the server's.
LEMMA ClientOpensIn ==
  ASSUME IInv, ClientOpenIn
  PROVE  IInv'
<1>1. UNCHANGED <<kernelVars, mainVars, handlerVars, pend, proc, req, last, signals>>
  BY DEF ClientOpenIn
<1>2. /\ cpc = "openIn"
      /\ \/ /\ cpc' = "openOut" /\ name["in"] # None
            /\ catt'["in"] = name["in"] /\ catt'["shm"] = catt["shm"] /\ catt'["out"] = catt["out"]
         \/ cpc' = "failed" /\ UNCHANGED catt
      /\ catt' \in Attached
  BY DEF ClientOpenIn, IInv, TypeOK, Attached, Names
<1> USE <1>1 DEF kernelVars, mainVars, handlerVars
<1>3. TypeOK'
  BY <1>2 DEF IInv, TypeOK, ClientPoints
<1>4. OwnAnswer' /\ Numbers'
  BY DEF IInv, OwnAnswer, Numbers
<1>5. OneByOne'
  BY <1>2 DEF IInv, TypeOK, OneByOne, NoHandler, Names, None
<1>6. Left' /\ EarlyInv'
  BY <1>2 DEF IInv, Left, EarlyInv, NoHandler, Gone, OutClean
<1>7. LateInv' /\ CallInv' /\ OffInv'
  BY <1>2 DEF IInv, LateInv, NoHandler, CallInv, OffInv, Told, OutClean
<1>8. MeetInv'
  BY <1>2 DEF IInv, MeetInv, LateInv, NoHandler, InCall
<1>9. ClientInv'
  BY <1>2 DEF IInv, ClientInv, InCall, Connecting, OutClean, TypeOK, Names, Servers, None
<1> QED BY <1>3, <1>4, <1>5, <1>6, <1>7, <1>8, <1>9 DEF IInv

\* The output semaphore it finds holds no answer.
LEMMA ClientOpensOut ==
  ASSUME IInv, ClientOpenOut
  PROVE  IInv'
<1>1. UNCHANGED <<kernelVars, mainVars, handlerVars, pend, proc, req, last, signals>>
  BY DEF ClientOpenOut
<1>2. /\ cpc = "openOut"
      /\ \/ /\ cpc' = "idle" /\ name["out"] # None
            /\ catt'["out"] = name["out"] /\ catt'["shm"] = catt["shm"] /\ catt'["in"] = catt["in"]
         \/ cpc' = "failed" /\ UNCHANGED catt
      /\ catt' \in Attached
  BY DEF ClientOpenOut, IInv, TypeOK, Attached, Names
<1> USE <1>1 DEF kernelVars, mainVars, handlerVars
<1>3. TypeOK'
  BY <1>2 DEF IInv, TypeOK, ClientPoints
<1>4. OwnAnswer' /\ Numbers'
  BY DEF IInv, OwnAnswer, Numbers
<1>5. OneByOne'
  BY <1>2 DEF IInv, TypeOK, OneByOne, NoHandler, Names, None
<1>6. Left' /\ EarlyInv'
  BY <1>2 DEF IInv, Left, EarlyInv, NoHandler, Gone, OutClean
<1>7. LateInv' /\ CallInv' /\ OffInv'
  BY <1>2 DEF IInv, LateInv, NoHandler, CallInv, OffInv, Told, OutClean
<1>8. MeetInv'
  BY <1>2 DEF IInv, MeetInv, LateInv, NoHandler, InCall
<1>9. ClientInv'
  <2>1. name["out"] # None => name["out"] \in Servers
    BY DEF IInv, TypeOK, Names, Servers, None
  <2> QED BY <1>2, <2>1 DEF IInv, ClientInv, InCall, Connecting, OutClean
<1> QED BY <1>3, <1>4, <1>5, <1>6, <1>7, <1>8, <1>9 DEF IInv

\* A request is written when no server is booting or has a request in hand.
LEMMA ClientWrites ==
  ASSUME IInv, ClientWrite
  PROVE  IInv'
<1>1. UNCHANGED <<name, semIn, semOut, mainVars, handlerVars, pend, catt, proc, last, signals>>
  BY DEF ClientWrite
<1>2. cpc = "idle" /\ cpc' = "release" /\ req' = req + 1 /\ req \in Nat /\ req' \in Jobs
  BY BoundsAssumption DEF ClientWrite, IInv, TypeOK, Jobs
<1>3. catt["shm"] \in Servers
  BY <1>2 DEF IInv, ClientInv
<1>4. Request(req + 1) \in Contents
  BY <1>2 DEF Request, Contents, Statuses
<1>5. /\ content'[catt["shm"]] = Request(req')
      /\ \A t \in Servers : content'[t] \in {content[t], Request(req')}
      /\ content' \in [Servers -> Contents]
  BY <1>2, <1>3, <1>4 DEF ClientWrite, IInv, TypeOK
<1>6. \A n : Request(n).id = n /\ Request(n) # Unsized
  BY DEF Request, Unsized
<1> USE <1>1 DEF mainVars, handlerVars
<1>7. TypeOK'
  BY <1>2, <1>5 DEF IInv, TypeOK, ClientPoints, InCall
<1>8. OwnAnswer'
  BY DEF IInv, OwnAnswer
<1>9. Numbers'
  <2>1. \A t \in Servers : content[t].id \in Nat /\ job[t] \in Nat
    BY DEF IInv, TypeOK, Contents, Jobs
  <2>2. ran \in Nat
    BY DEF IInv, TypeOK, Jobs
  <2>3. \A t \in Servers : content'[t].id <= req'
    BY <1>2, <1>5, <1>6, <2>1 DEF IInv, Numbers
  <2> QED BY <1>2, <2>1, <2>2, <2>3 DEF IInv, Numbers
<1>10. OneByOne'
  BY <1>2 DEF IInv, OneByOne, NoHandler
<1>11. Left' /\ EarlyInv'
  BY <1>2 DEF IInv, Left, EarlyInv, NoHandler, Gone, OutClean
<1>12. LateInv'
  BY <1>2, <1>5, <1>6 DEF IInv, LateInv, NoHandler, MeetInv, Told, OutClean, InCall
<1>13. MeetInv' /\ CallInv' /\ OffInv'
  BY <1>2 DEF IInv, MeetInv, CallInv, OffInv, InCall
<1>14. ClientInv'
  BY <1>2, <1>5 DEF IInv, ClientInv, Numbers, InCall, Connecting, TypeOK, Jobs
<1> QED BY <1>7, <1>8, <1>9, <1>10, <1>11, <1>12, <1>13, <1>14 DEF IInv

\* The call's token is the only one a mapped server can take.
LEMMA ClientReleases ==
  ASSUME IInv, ClientRelease
  PROVE  IInv'
<1>1. UNCHANGED <<name, content, semOut, mainVars, handlerVars, pend, catt, proc, req, last, signals>>
  BY DEF ClientRelease
<1>2. cpc = "release" /\ cpc' = "acquire" /\ catt["in"] \in Servers /\ catt["in"] <= proc
  BY DEF ClientRelease, IInv, ClientInv, InCall, OneByOne, NoHandler, Names
<1>3. /\ semIn'[catt["in"]] = semIn[catt["in"]] + 1
      /\ \A t \in Servers : t # catt["in"] => semIn'[t] = semIn[t]
      /\ semIn' \in [Servers -> Nat]
  <2>1. semIn \in [Servers -> Nat]
    BY DEF IInv, TypeOK
  <2> QED BY <1>2, <2>1 DEF ClientRelease
<1> USE <1>1 DEF mainVars, handlerVars
<1>4. TypeOK'
  BY <1>2, <1>3 DEF IInv, TypeOK, ClientPoints, InCall
<1>5. OwnAnswer' /\ Numbers' /\ ClientInv'
  BY <1>2 DEF IInv, OwnAnswer, Numbers, ClientInv, InCall, Connecting
<1>6. OneByOne'
  BY <1>2, <1>3 DEF IInv, TypeOK, OneByOne, NoHandler, Servers
<1>7. Left' /\ EarlyInv'
  BY <1>2 DEF IInv, Left, EarlyInv, NoHandler, Gone, OutClean
<1>8. LateInv'
  BY <1>2 DEF IInv, LateInv, NoHandler, Told, OutClean
<1>9. MeetInv' /\ OffInv'
  BY <1>2 DEF IInv, MeetInv, OffInv, InCall
<1>10. CallInv'
  BY <1>2, <1>3 DEF IInv, MeetInv, ClientInv, CallInv, InCall, Late, Serving
<1> QED BY <1>4, <1>5, <1>6, <1>7, <1>8, <1>9, <1>10 DEF IInv

\* The client takes the token of its answer.
LEMMA ClientAcquires ==
  ASSUME IInv, ClientAcquire
  PROVE  IInv'
<1>1. UNCHANGED <<name, content, semIn, mainVars, handlerVars, pend, catt, proc, req, last, signals>>
  BY DEF ClientAcquire
<1>2. cpc = "acquire" /\ cpc' = "collect" /\ catt["out"] \in Servers /\ catt["out"] <= proc
  BY DEF ClientAcquire, IInv, ClientInv, InCall, OneByOne, NoHandler, Names
<1>3. semOut[catt["out"]] = 1
  BY <1>2 DEF ClientAcquire, IInv, TypeOK, ClientInv
<1>4. /\ semOut'[catt["out"]] = 0
      /\ \A t \in Servers : t # catt["out"] => semOut'[t] = semOut[t]
      /\ semOut' \in [Servers -> Nat]
  <2>1. semOut \in [Servers -> Nat]
    BY DEF IInv, TypeOK
  <2> QED BY <1>2, <1>3, <2>1 DEF ClientAcquire
<1> USE <1>1 DEF mainVars, handlerVars
<1>5. TypeOK'
  BY <1>2, <1>4 DEF IInv, TypeOK, ClientPoints, InCall
<1>6. OwnAnswer' /\ Numbers'
  BY DEF IInv, OwnAnswer, Numbers
<1>7. OneByOne'
  BY <1>2, <1>4 DEF IInv, TypeOK, OneByOne, NoHandler, Servers
<1>8. OutClean => OutClean'
  BY <1>4 DEF OutClean, IInv, TypeOK, Names, Servers, None
<1>9. Left' /\ EarlyInv'
  BY <1>2, <1>3, <1>8 DEF IInv, Left, EarlyInv, NoHandler, Gone
<1>10. LateInv'
  <2>1. proc # None => proc \in Servers
    BY DEF IInv, TypeOK, Servers, None
  <2>2. proc # None /\ semOut[proc] = 0 => semOut'[proc] = 0
    BY <1>4, <2>1
  <2> QED BY <1>2, <1>8, <2>2 DEF IInv, LateInv, NoHandler, Told
<1>11. MeetInv'
  BY <1>2, <1>3 DEF IInv, MeetInv, CallInv, InCall, Late, Serving
<1>12. CallInv' /\ OffInv'
  BY <1>2 DEF CallInv, OffInv
<1>13. ClientInv'
  BY <1>2, <1>3, <1>4 DEF IInv, ClientInv, InCall, Connecting
<1> QED BY <1>5, <1>6, <1>7, <1>9, <1>10, <1>11, <1>12, <1>13 DEF IInv

\* What it then reads is its answer.
LEMMA ClientCollects ==
  ASSUME IInv, ClientCollect
  PROVE  IInv'
<1>1. UNCHANGED <<kernelVars, mainVars, handlerVars, pend, catt, proc, req, signals>>
  BY DEF ClientCollect
<1>2. cpc = "collect" /\ cpc' = "idle" /\ catt["shm"] \in Servers
  BY DEF ClientCollect, IInv, ClientInv, InCall
<1>3. last' \in [sent : Jobs, id : Jobs, status : Statuses] /\ last'.id = last'.sent
  BY <1>2 DEF ClientCollect, IInv, TypeOK, ClientInv, Contents
<1> USE <1>1 DEF kernelVars, mainVars, handlerVars
<1>4. TypeOK'
  BY <1>2, <1>3 DEF IInv, TypeOK, ClientPoints
<1>5. OwnAnswer' /\ Numbers' /\ ClientInv'
  BY <1>2, <1>3 DEF IInv, OwnAnswer, Numbers, ClientInv, InCall, Connecting
<1>6. OneByOne' /\ Left' /\ EarlyInv'
  BY <1>2 DEF IInv, OneByOne, NoHandler, Left, EarlyInv, Gone, OutClean
<1>7. LateInv' /\ MeetInv' /\ CallInv' /\ OffInv'
  BY <1>2 DEF IInv, LateInv, NoHandler, MeetInv, CallInv, OffInv, Told, OutClean, InCall
<1> QED BY <1>4, <1>5, <1>6, <1>7 DEF IInv

-----------------------------------------------------------------------------
(* The outside world.                                                       *)

\* A signal to all servers, or to one, reaches the living.
LEMMA SignalEffect ==
  ASSUME IInv, NEW set \in SUBSET Servers, NEW g \in StopSignals, Send(g, set)
  PROVE  /\ pend' \in [Servers -> SUBSET StopSignals]
         /\ \A t \in Servers : pend[t] # {} => pend'[t] # {}
         /\ \A t \in Servers : t \in set /\ Alive(t) => pend'[t] # {}
         /\ \A t \in Servers : ~Alive(t) => pend'[t] = pend[t]
<1>1. pend \in [Servers -> SUBSET StopSignals]
  BY DEF IInv, TypeOK
<1>2. \A t \in Servers : pend'[t] = IF t \in set /\ Alive(t) THEN pend[t] \cup {g} ELSE pend[t]
  BY DEF Send
<1>3. pend' \in [Servers -> SUBSET StopSignals]
  BY <1>1 DEF Send
<1> QED BY <1>2, <1>3

\* A session ends at any point, and its server is told.
LEMMA EndsSession ==
  ASSUME IInv, EndSession
  PROVE  IInv'
<1>1. UNCHANGED <<kernelVars, mainVars, handlerVars, catt, proc, req, last, signals>>
  BY DEF EndSession
<1>2. cpc # "off" /\ cpc' = "off"
  BY DEF EndSession
<1>3. /\ pend' \in [Servers -> SUBSET StopSignals]
      /\ \A t \in Servers : Alive(t) => pend'[t] # {}
      /\ \A t \in Servers : ~Alive(t) => pend'[t] = pend[t]
  BY SignalEffect, BoundsAssumption DEF EndSession, Terminate
<1> USE <1>1 DEF kernelVars, mainVars, handlerVars
<1>4. TypeOK'
  BY <1>2, <1>3 DEF IInv, TypeOK, ClientPoints
<1>5. OwnAnswer' /\ Numbers' /\ ClientInv'
  BY <1>2 DEF IInv, OwnAnswer, Numbers, ClientInv, InCall, Connecting
<1>6. OneByOne'
  BY <1>2, <1>3 DEF IInv, OneByOne, NoHandler, Alive
<1>7. Left'
  BY <1>2 DEF IInv, Left, Gone, OutClean
<1>8. proc # None => proc \in Servers
  BY DEF IInv, TypeOK, Servers, None
<1>9. EarlyInv'
  BY <1>2, <1>3, <1>8 DEF IInv, EarlyInv, NoHandler, OutClean, Early, Alive
<1>10. LateInv'
  BY <1>2, <1>3, <1>8 DEF IInv, LateInv, NoHandler, OutClean, Late, Serving, Alive, Told
<1>11. MeetInv' /\ CallInv'
  BY <1>2 DEF IInv, MeetInv, CallInv, InCall
<1>12. OffInv'
  <2>1. SUFFICES ASSUME proc # None, spc[proc] \in Late, mapped[proc]
        PROVE  OffInv'
    BY DEF OffInv
  <2>2. CASE cpc # "acquire"
    BY <1>2, <2>1, <2>2 DEF IInv, MeetInv, OffInv, Late, Serving
  <2>3. CASE cpc = "acquire"
    <3>1. catt["out"] = name["out"] /\ catt["shm"] = att[proc]["shm"]
      BY <2>1, <2>3 DEF IInv, MeetInv, InCall
    <3> QED BY <2>1, <2>3, <3>1 DEF IInv, CallInv, OffInv, OutClean, Request
  <2> QED BY <2>2, <2>3
<1> QED BY <1>4, <1>5, <1>6, <1>7, <1>9, <1>10, <1>11, <1>12 DEF IInv

\* A stop signal to one server.
LEMMA Signals ==
  ASSUME IInv, NEW s \in Servers, Signal(s)
  PROVE  IInv'
<1>1. UNCHANGED <<kernelVars, mainVars, handlerVars, clientVars>> /\ signals' \in 0..MaxSignals
  BY BoundsAssumption DEF Signal, IInv, TypeOK
<1>2. /\ pend' \in [Servers -> SUBSET StopSignals]
      /\ \A t \in Servers : pend[t] # {} => pend'[t] # {}
      /\ \A t \in Servers : ~Alive(t) => pend'[t] = pend[t]
  BY SignalEffect DEF Signal
<1> USE <1>1 DEF kernelVars, mainVars, handlerVars, clientVars
<1>3. TypeOK'
  BY <1>2 DEF IInv, TypeOK
<1>4. OwnAnswer' /\ Numbers' /\ ClientInv'
  BY DEF IInv, OwnAnswer, Numbers, ClientInv, OutClean
<1>5. OneByOne' /\ Left'
  BY <1>2 DEF IInv, OneByOne, NoHandler, Alive, Left, Gone, OutClean
<1>6. proc # None => proc \in Servers
  BY DEF IInv, TypeOK, Servers, None
<1>7. EarlyInv' /\ LateInv'
  BY <1>2, <1>6 DEF IInv, EarlyInv, NoHandler, LateInv, OutClean, Told
<1>8. MeetInv' /\ CallInv' /\ OffInv'
  BY DEF IInv, MeetInv, CallInv, OffInv, OutClean
<1> QED BY <1>3, <1>4, <1>5, <1>7, <1>8 DEF IInv

-----------------------------------------------------------------------------
(* The theorems.                                                            *)

\* Nothing has a name at first.
LEMMA Begins ==
  ASSUME Init
  PROVE  IInv
<1>1. TypeOK
  <2>1. Unsized \in Contents
    BY BoundsAssumption DEF Unsized, Contents, Jobs, Statuses
  <2>2. Detached \in Attached /\ 0 \in Jobs /\ 0 \in Statuses /\ 0 \in 0..MaxServers /\ 0 \in 0..MaxSignals
    BY BoundsAssumption DEF Detached, Attached, None, Jobs, Statuses
  <2> QED BY <2>1, <2>2 DEF Init, TypeOK, ServerPoints, HandlerPoints, ClientPoints, Attached, None
<1>2. OwnAnswer /\ Left /\ EarlyInv /\ LateInv /\ MeetInv /\ CallInv /\ OffInv
  BY DEF Init, OwnAnswer, Left, EarlyInv, NoHandler, LateInv, MeetInv, CallInv, OffInv, Gone, OutClean, Detached, None, Names
<1>3. ClientInv
  BY DEF Init, ClientInv, InCall, Connecting
<1>4. OneByOne
  BY DEF Init, OneByOne, NoHandler, Servers, None, Detached
<1>5. Numbers
  BY DEF Init, Numbers, Unsized
<1> QED BY <1>1, <1>2, <1>3, <1>4, <1>5 DEF IInv

\* Every step keeps the invariant.
LEMMA Continues ==
  ASSUME IInv, FailuresAlone, [Next]_vars
  PROVE  IInv'
<1>1. CASE UNCHANGED vars
  BY <1>1 DEF vars, kernelVars, mainVars, handlerVars, clientVars, IInv, TypeOK, OwnAnswer, OneByOne, NoHandler, Numbers,
     Left, EarlyInv, LateInv, MeetInv, ClientInv, CallInv, OffInv, OutClean, Gone, Told
<1>2. ASSUME NEW s \in Servers, Main(s)
      PROVE  IInv'
  BY <1>2, Boots, OpensShm, MapsShm, OpensIn, OpensOut, Waits, Reads, Runs, Clears, Replies, Posts DEF Main
<1>3. ASSUME NEW s \in Servers, Deliver(s) \/ Handler(s) \/ Signal(s) \/ Launch(s)
      PROVE  IInv'
  BY <1>3, Delivers, HandlerPosts, UnlinksShm, UnlinksIn, UnlinksOut, Signals, Launches DEF Handler
<1>4. CASE Client
  BY <1>4, ClientOpensShm, ClientOpensIn, ClientOpensOut, ClientWrites, ClientReleases, ClientAcquires,
     ClientCollects DEF Client
<1>5. CASE EndSession
  BY <1>5, EndsSession
<1> QED BY <1>1, <1>2, <1>3, <1>4, <1>5 DEF Next

\* Every reachable state satisfies the invariant.
THEOREM Invariant ==
  ASSUME FailuresAlone
  PROVE  Spec => []IInv
<1>1. Init => IInv
  BY Begins
<1>2. IInv /\ [Next]_vars => IInv'
  BY Continues
<1> QED BY <1>1, <1>2, PTL DEF Spec

\* Every variable of the protocol keeps its type.
THEOREM TypeCorrect ==
  ASSUME FailuresAlone
  PROVE  Spec => []TypeOK
<1>1. IInv => TypeOK
  BY DEF IInv
<1> QED BY <1>1, Invariant, PTL

\* Afl.run returns the answer to its own call, in every session, whatever signals arrive.
THEOREM AnswersAreOwn ==
  ASSUME FailuresAlone
  PROVE  Spec => []OwnAnswer
<1>1. IInv => OwnAnswer
  BY DEF IInv
<1> QED BY <1>1, Invariant, PTL

\* A server past its wait has the request of the latest call before it, unless it was told to stop.
LEMMA InputIsThere ==
  ASSUME IInv
  PROVE  InputAvailable
<1> SUFFICES ASSUME NEW s \in Servers, spc[s] = "read", pend[s] = {}, ~stopSoon[s]
             PROVE  content[att[s]["shm"]] = Request(req) /\ ran < req
  BY DEF InputAvailable
<1>1. s = proc /\ proc # None
  BY Living DEF IInv, Alive
<1>2. mapped[proc] /\ cpc # "off"
  BY <1>1 DEF IInv, LateInv, NoHandler, Late, Serving, Told
<1>3. cpc = "acquire"
  BY <1>1, <1>2 DEF IInv, MeetInv, Late, Serving
<1> QED BY <1>1, <1>2, <1>3 DEF IInv, MeetInv, CallInv, Late, Serving, InCall

\* ex-frsv.c:483 holds for any number of sessions.
THEOREM InputsAreAvailable ==
  ASSUME FailuresAlone
  PROVE  Spec => []InputAvailable
<1>1. IInv => InputAvailable
  BY InputIsThere
<1> QED BY <1>1, Invariant, PTL

\* The semaphores alone keep the two sides from using the shared memory at once.
THEOREM MemoryIsExclusive ==
  ASSUME FailuresAlone
  PROVE  Spec => []MemoryExclusion
<1>1. ASSUME IInv
      PROVE  MemoryExclusion
  <2> SUFFICES ASSUME cpc \in {"idle", "release", "collect"}, NEW s \in Servers
               PROVE  /\ spc[s] # "mapShm"
                      /\ spc[s] \in {"read", "clear", "reply"} => ~mapped[s]
    BY DEF MemoryExclusion
  <2>1. CASE Alive(s)
    <3>1. s = proc /\ proc # None
      BY <1>1, <2>1, Living DEF IInv
    <3> QED BY <1>1, <3>1 DEF IInv, EarlyInv, NoHandler, MeetInv, Early, Late, Serving
  <2>2. CASE ~Alive(s)
    BY <2>2 DEF Alive
  <2> QED BY <2>1, <2>2
<1> QED BY <1>1, Invariant, PTL

\* What the servers of all sessions leave under the names cannot wake the next one.
THEOREM LeftoversStayClean ==
  ASSUME FailuresAlone
  PROVE  Spec => []LeftoversAreClean
<1>1. ASSUME IInv, \A s \in Servers : ~Alive(s)
      PROVE  /\ name["in"] # None => semIn[name["in"]] = 0
             /\ name["out"] # None => semOut[name["out"]] = 0
  BY <1>1 DEF IInv, Left, Gone, OutClean, Alive, OneByOne, NoHandler, TypeOK, Servers, None
<1>2. IInv => LeftoversAreClean
  BY <1>1 DEF LeftoversAreClean
<1> QED BY <1>2, Invariant, PTL

\* While a call waits there is exactly one token for it, in a semaphore or in the server's hands: the
\* two sides of coverage.py:125 and ex-frsv.c:484 never wait for each other.
THEOREM TokenIsKept ==
  ASSUME FailuresAlone
  PROVE  Spec => []OneTokenPerCall
<1>1. ASSUME IInv, cpc = "acquire", NEW s \in Servers, Alive(s), mapped[s]
      PROVE  semIn[catt["in"]] + semOut[catt["out"]] + (IF spc[s] \in Serving THEN 1 ELSE 0) = 1
  <2>1. s = proc /\ proc # None
    BY <1>1, Living DEF IInv
  <2>2. spc[proc] \in Late
    BY <1>1, <2>1 DEF IInv, TypeOK, EarlyInv, NoHandler, Alive, ServerPoints, Booting, Serving, Early, Late
  <2>3. catt["in"] = proc
    BY <1>1, <2>1, <2>2 DEF IInv, MeetInv, InCall
  <2>4. catt["out"] \in Servers /\ semOut[catt["out"]] \in {0, 1}
    BY <1>1 DEF IInv, TypeOK, ClientInv, InCall
  <2>5. \/ spc[proc] \notin Serving /\ semIn[proc] = 1 /\ semOut[catt["out"]] = 0
        \/ spc[proc] \in Serving /\ semIn[proc] = 0 /\ semOut[catt["out"]] = 0
        \/ spc[proc] \notin Serving /\ semIn[proc] = 0 /\ semOut[catt["out"]] = 1
    BY <1>1, <2>1, <2>2, <2>4 DEF IInv, CallInv, Serving
  <2> QED BY <2>1, <2>3, <2>5
<1>2. IInv => OneTokenPerCall
  BY <1>1 DEF OneTokenPerCall
<1> QED BY <1>2, Invariant, PTL

\* Unless the target itself fails, only a stop signal to it ends a server.
THEOREM DeathIsTold ==
  ASSUME ~TargetCanFail
  PROVE  Spec => DiesOnlyWhenTold
<1>1. FailuresAlone
  BY DEF FailuresAlone
<1>2. ASSUME IInv, [Next]_vars
      PROVE  [\A s \in Servers : Alive(s) /\ ~Alive(s)' => Told(s)]_vars
  <2> SUFFICES ASSUME Next, NEW s \in Servers, Alive(s), ~Alive(s)'
               PROVE  Told(s)
    BY <1>2
  <2>1. s = proc /\ proc # None /\ spc[s] \notin {"unborn", "dead"} /\ spc'[s] \in {"unborn", "dead"}
    BY <1>2, Living DEF IInv, Alive
  <2>2. CASE Client \/ EndSession
    BY <2>1, <2>2 DEF Client, ClientOpenShm, ClientOpenIn, ClientOpenOut, ClientWrite, ClientRelease,
       ClientAcquire, ClientCollect, EndSession, mainVars
  <2>3. ASSUME NEW t \in Servers, Signal(t) \/ Launch(t)
        PROVE  Told(s)
    BY <1>2, <2>1, <2>3 DEF Signal, Launch, StartEngine, mainVars, IInv, TypeOK
  <2>4. ASSUME NEW t \in Servers, Deliver(t)
        PROVE  Told(s)
    BY <1>2, <2>1, <2>4 DEF Deliver, IInv, TypeOK, Told
  <2>5. ASSUME NEW t \in Servers, Handler(t)
        PROVE  Told(s)
    <3>1. t = s
      BY <1>2, <2>1, <2>5 DEF Handler, HandlerPost, HandlerUnlink, HandlerFree, mainVars, IInv, TypeOK
    <3>2. PICK from \in HandlerPoints \ {"none"}, to \in HandlerPoints : HandlerGoto(s, from, to)
      BY <2>5, <3>1 DEF Handler, HandlerPost, HandlerUnlink, HandlerPoints
    <3> QED BY <1>2, <3>2, HandlerEffect DEF Told
  <2>6. ASSUME NEW t \in Servers, Main(t)
        PROVE  Told(s)
    <3>1. t = s
      BY <1>2, <2>1, <2>6 DEF Main, Boot, OpenShm, MapShm, OpenIn, OpenOut, Wait, Read, Run, Clear, Reply, Post,
         WriteShm, Goto, NoHandler, IInv, TypeOK
    <3>2. CASE Boot(s) \/ OpenShm(s) \/ MapShm(s) \/ OpenIn(s) \/ OpenOut(s) \/ Wait(s) \/ Post(s)
      BY <1>2, <2>1, <3>2 DEF Boot, OpenShm, MapShm, OpenIn, OpenOut, Wait, Post, Goto, NoHandler, IInv, TypeOK
    <3>3. CASE Run(s)
      BY <1>2, <2>1, <3>3 DEF Run, Goto, NoHandler, IInv, TypeOK, Told
    <3>4. CASE Clear(s) \/ Reply(s)
      BY <1>2, <2>1, <3>4 DEF Clear, Reply, WriteShm, Goto, NoHandler, IInv, TypeOK, Told, LateInv, Late, Serving
    <3>5. CASE Read(s)
      <4> SUFFICES ASSUME ~Told(s)
                   PROVE  FALSE
        OBVIOUS
      <4>1. spc[s] = "read" /\ mapped[s]
        BY <1>2, <2>1, <3>5 DEF Read, Goto, NoHandler, IInv, LateInv, Late, Serving, Told
      <4>2. content[att[s]["shm"]].kind = "request"
        BY <1>2, <4>1, InputIsThere DEF InputAvailable, Told, Request
      <4> QED BY <1>2, <2>1, <3>5, <4>1, <4>2 DEF Read, Goto, NoHandler, IInv, TypeOK
    <3> QED BY <2>6, <3>1, <3>2, <3>3, <3>4, <3>5 DEF Main
  <2> QED BY <2>2, <2>3, <2>4, <2>5, <2>6 DEF Next
<1> QED BY <1>1, <1>2, Invariant, PTL DEF Spec, DiesOnlyWhenTold

\* Once its server waits, a client's attempt to connect succeeds.
THEOREM ConnectionSucceeds ==
  ASSUME FailuresAlone
  PROVE  Spec => ConnectFailsOnlyEarly
<1>1. ASSUME IInv, [Next]_vars
      PROVE  [cpc # "failed" /\ cpc' = "failed" => spc[proc] # "wait" \/ Told(proc)]_vars
  <2> SUFFICES ASSUME Next, cpc # "failed", cpc' = "failed", spc[proc] = "wait", ~Told(proc)
               PROVE  FALSE
    BY <1>1
  <2>1. ClientOpenShm \/ ClientOpenIn \/ ClientOpenOut
    <3>1. ASSUME NEW s \in Servers, Main(s) \/ Deliver(s) \/ Handler(s) \/ Signal(s) \/ Launch(s)
          PROVE  FALSE
      BY <3>1 DEF Main, Boot, OpenShm, MapShm, OpenIn, OpenOut, Wait, Read, Run, Clear, Reply, Post, Deliver,
         Handler, HandlerPost, HandlerUnlink, Signal, Launch, StartEngine, clientVars
    <3> QED BY <3>1 DEF Next, Client, ClientWrite, ClientRelease, ClientAcquire, ClientCollect, EndSession
  <2>2. cpc \in Connecting
    BY <2>1 DEF ClientOpenShm, ClientOpenIn, ClientOpenOut, Connecting
  <2>3. proc \in Servers /\ proc # None
    BY <1>1, <2>2 DEF IInv, OneByOne, NoHandler, TypeOK, Servers, None, Connecting
  <2>4. /\ att[proc]["shm"] \in Servers /\ att[proc]["out"] \in Servers
        /\ name["in"] = proc /\ name["shm"] = att[proc]["shm"] /\ content[att[proc]["shm"]] # Unsized
        /\ name["out"] = att[proc]["out"]
    BY <1>1, <2>3 DEF IInv, LateInv, NoHandler, Late, Told
  <2>5. name["in"] # None /\ name["shm"] # None /\ name["out"] # None
    BY <2>3, <2>4 DEF Servers, None
  <2> QED BY <2>1, <2>4, <2>5 DEF ClientOpenShm, ClientOpenIn, ClientOpenOut
<1> QED BY <1>1, Invariant, PTL DEF Spec, ConnectFailsOnlyEarly

-----------------------------------------------------------------------------
(* The refinement of CoverageRPC: the outcome of a call is in the server's  *)
(* hands until it is posted, and in the memory afterwards.                  *)

Answering == {"clear", "reply", "post"}

\* A step that leaves the call and its outcome alone is invisible to the caller.
LEMMA Invisible ==
  ASSUME UNCHANGED <<cpc, req, ran, last>>, Result' = Result
  PROVE  UNCHANGED RPC!vars
  BY DEF RPC!vars, Phase

\* The outcome moves only when the server takes or gives it, or the memory is written.
LEMMA SameResult ==
  ASSUME UNCHANGED <<cpc, proc, catt, content, job, status>>,
         \/ cpc \notin InCall
         \/ spc'[proc] = spc[proc]
         \/ spc[proc] \notin Answering /\ spc'[proc] \notin Answering
  PROVE  Result' = Result
  BY DEF Result, Answering

\* While a server has an outcome in its hands, its client waits or has gone.
LEMMA AnsweringMeets ==
  ASSUME IInv, proc # None, spc[proc] \in Answering \union {"run"}
  PROVE  cpc \in {"acquire", "off"}
  BY DEF IInv, MeetInv, Late, Serving, Answering

\* A server that dies with the outcome in its hands loses it, unless it is written.
LEMMA LosesResult ==
  ASSUME IInv, proc # None, spc[proc] \notin Early, spc'[proc] = "dead",
         UNCHANGED <<cpc, proc, catt, content, job, status, req, ran, last>>
  PROVE  [RPC!Next]_(RPC!vars)
<1>1. CASE Result' = Result
  BY <1>1, Invisible
<1>2. CASE Result' # Result
  <2>1. spc[proc] \in Answering /\ cpc \in InCall
    BY <1>2, SameResult DEF Answering
  <2>2. cpc = "acquire"
    BY <2>1, AnsweringMeets DEF InCall
  <2>3. CASE spc[proc] \in {"clear", "reply"}
    <3>1. Result' = NoResult
      BY <2>2, <2>3 DEF Result, InCall, IInv, CallInv, Late, Serving
    <3>2. RPC!Lose
      BY <1>2, <3>1 DEF RPC!Lose, RPC!NoResult, NoResult, Phase
    <3> QED BY <3>2 DEF RPC!Next
  <2>4. CASE spc[proc] = "post"
    BY <1>2, <2>2, <2>4 DEF Result, InCall, IInv, CallInv, Late, Serving, Response
  <2> QED BY <2>1, <2>3, <2>4 DEF Answering
<1> QED BY <1>1, <1>2

\* The run of the target is the one Execute of its call, also when the client has gone.
LEMMA RunRefines ==
  ASSUME IInv, NEW s \in Servers, Run(s)
  PROVE  [RPC!Next]_(RPC!vars)
<1>1. /\ s = proc /\ proc \in Servers /\ proc # None /\ spc[proc] = "run"
      /\ spc'[proc] \in {"clear", "dead"}
  BY GotoEffect, "run" \in ServerPoints \ {"unborn", "dead"}, "clear" \in ServerPoints, "dead" \in ServerPoints
     DEF IInv, Run, ServerPoints, Serving
<1>2. UNCHANGED <<kernelVars, att, job, handlerVars, pend, clientVars, signals>>
  BY DEF Run
<1> USE <1>2 DEF kernelVars, handlerVars, clientVars
<1>3. CASE spc'[proc] = "dead"
  <2>1. UNCHANGED <<status, ran>>
    BY <1>1, <1>3 DEF Run, Goto, NoHandler, IInv, TypeOK
  <2> QED BY <1>1, <1>3, <2>1, LosesResult DEF Early
<1>4. CASE spc'[proc] = "clear"
  <2>1. /\ ~stopSoon[proc] /\ \E st \in Statuses : status' = [status EXCEPT ![proc] = st]
        /\ ran' = IF job[proc] = 0 THEN ran ELSE job[proc]
    BY <1>1, <1>4 DEF Run, Goto, NoHandler, IInv, TypeOK
  <2>2. mapped[proc] /\ cpc \in {"acquire", "off"}
    BY <1>1, <2>1, AnsweringMeets DEF IInv, LateInv, NoHandler, Late, Serving
  <2>3. job[proc] = req /\ ran < req
    BY <1>1, <2>2 DEF IInv, CallInv, OffInv, Late, Serving
  <2>4. ran' = req
    BY <2>1, <2>3 DEF IInv, TypeOK, Jobs
  <2>5. status'[proc] \in Statuses
    BY <1>1, <2>1 DEF IInv, TypeOK
  <2>6. CASE cpc = "acquire"
    <3>1. Phase = "called" /\ Phase' = "called" /\ Result' = [id |-> req, status |-> status'[proc]]
      BY <1>4, <2>3, <2>6 DEF Phase, Result, InCall
    <3>2. RPC!Execute
      BY <2>3, <2>4, <2>5, <3>1 DEF RPC!Execute, RPC!Statuses, Statuses
    <3> QED BY <3>2 DEF RPC!Next
  <2>7. CASE cpc = "off"
    <3>1. Phase = "closed" /\ Phase' = "closed" /\ Result' = Result
      BY <2>7 DEF Phase, Result, InCall
    <3>2. RPC!Execute
      BY <2>3, <2>4, <3>1 DEF RPC!Execute
    <3> QED BY <3>2 DEF RPC!Next
  <2> QED BY <2>2, <2>6, <2>7
<1> QED BY <1>1, <1>3, <1>4

\* Writing the answer and posting it take the outcome to the memory, unseen by the caller.
LEMMA AnswerRefines ==
  ASSUME IInv, NEW s \in Servers, Clear(s) \/ Reply(s) \/ Post(s)
  PROVE  [RPC!Next]_(RPC!vars)
<1>1. /\ s = proc /\ proc \in Servers /\ proc # None /\ spc[proc] \in Answering
      /\ spc'[proc] \in {"reply", "post", "wait", "dead"}
  <2>1. /\ {"clear", "reply", "post"} \subseteq ServerPoints \ {"unborn", "dead"}
        /\ "wait" \in ServerPoints /\ "dead" \in ServerPoints
    BY DEF ServerPoints, Serving
  <2> QED BY <2>1, GotoEffect DEF IInv, Clear, Reply, Post, WriteShm, Answering
<1>2. UNCHANGED <<name, semIn, att, job, status, ran, handlerVars, pend, clientVars, signals>>
  BY DEF Clear, Reply, Post
<1> USE <1>2 DEF handlerVars, clientVars
<1>3. cpc \in {"acquire", "off"}
  BY <1>1, AnsweringMeets
<1>4. CASE cpc = "off"
  BY <1>4, Invisible DEF Result, InCall
<1>5. CASE cpc = "acquire" /\ spc'[proc] = "dead"
  <2>1. UNCHANGED content
    BY <1>1, <1>5 DEF Clear, Reply, Post, WriteShm, Goto, NoHandler, IInv, TypeOK
  <2> QED BY <1>1, <1>5, <2>1, LosesResult DEF Early, Answering
<1>6. CASE cpc = "acquire" /\ spc'[proc] \in {"reply", "post"}
  BY <1>1, <1>6, Invisible DEF Result, InCall, Answering
<1>7. CASE cpc = "acquire" /\ spc'[proc] = "wait"
  <2>1. UNCHANGED content /\ spc[proc] = "post"
    BY <1>1, <1>7 DEF Clear, Reply, Post, WriteShm, Goto, NoHandler, IInv, TypeOK
  <2>2. job[proc] = req /\ content[catt["shm"]] = Response(req, status[proc])
    BY <1>1, <1>7, <2>1 DEF IInv, CallInv, Late, Serving
  <2> QED BY <1>7, <2>1, <2>2, Invisible DEF Result, InCall, Response
<1> QED BY <1>1, <1>3, <1>4, <1>5, <1>6, <1>7

\* The rest of the server's main thread shows nothing of a call.
LEMMA MainRefines ==
  ASSUME IInv, NEW s \in Servers, Main(s)
  PROVE  [RPC!Next]_(RPC!vars)
<1>1. CASE Boot(s) \/ OpenShm(s) \/ OpenIn(s) \/ OpenOut(s) \/ Wait(s)
  <2>1. /\ s = proc /\ proc \in Servers
        /\ spc[proc] \notin Answering /\ spc'[proc] \notin Answering
    BY <1>1, Living DEF Boot, OpenShm, OpenIn, OpenOut, Wait, Goto, NoHandler, Alive, IInv, TypeOK, Answering
  <2>2. UNCHANGED <<cpc, proc, catt, content, job, status, req, ran, last>>
    BY <1>1 DEF Boot, OpenShm, OpenIn, OpenOut, Wait, kernelVars, clientVars
  <2> QED BY <2>1, <2>2, SameResult, Invisible
<1>2. CASE MapShm(s)
  <2>1. cpc \notin InCall
    BY <1>2, Living DEF MapShm, Goto, NoHandler, Alive, IInv, EarlyInv, Early, InCall
  <2>2. UNCHANGED <<cpc, req, ran, last>>
    BY <1>2 DEF MapShm, clientVars
  <2> QED BY <2>1, <2>2, Invisible DEF Result
<1>3. CASE Read(s)
  <2>1. /\ s = proc /\ proc \in Servers
        /\ spc[proc] \notin Answering /\ spc'[proc] \notin Answering
    BY <1>3, Living DEF Read, Goto, NoHandler, Alive, IInv, TypeOK, Answering
  <2>2. UNCHANGED <<cpc, proc, catt, content, status, req, ran, last>>
    BY <1>3 DEF Read, kernelVars, clientVars
  <2> QED BY <2>1, <2>2, Invisible DEF Result, Answering
<1> QED BY <1>1, <1>2, <1>3, RunRefines, AnswerRefines DEF Main

\* A signal or its handler can at most lose the outcome.
LEMMA HandlerRefines ==
  ASSUME IInv, NEW s \in Servers, Deliver(s) \/ Handler(s) \/ Signal(s) \/ Launch(s)
  PROVE  [RPC!Next]_(RPC!vars)
<1>1. CASE Deliver(s)
  <2>1. s = proc /\ proc \in Servers
    BY <1>1, Living DEF Deliver, IInv
  <2>2. spc'[proc] = spc[proc] \/ (spc[proc] \notin Answering /\ spc'[proc] \notin Answering)
    BY <1>1, <2>1 DEF Deliver, IInv, TypeOK, Answering
  <2>3. UNCHANGED <<cpc, proc, catt, content, job, status, req, ran, last>>
    BY <1>1 DEF Deliver, kernelVars, clientVars
  <2> QED BY <2>2, <2>3, SameResult, Invisible
<1>2. CASE Handler(s)
  <2>1. UNCHANGED <<cpc, proc, catt, content, job, status, req, ran, last>>
    BY <1>2 DEF Handler, HandlerPost, HandlerUnlink, mainVars, clientVars
  <2>2. s = proc /\ proc \in Servers /\ proc # None /\ spc[proc] \notin Early
    <3>1. PICK from \in HandlerPoints \ {"none"}, to \in HandlerPoints : HandlerGoto(s, from, to)
      BY <1>2 DEF Handler, HandlerPost, HandlerUnlink, HandlerPoints
    <3> QED BY <3>1, HandlerEffect DEF Early, Late, Serving
  <2>3. spc'[proc] \in {spc[proc], "dead"}
    BY <1>2, <2>2 DEF Handler, HandlerPost, HandlerUnlink, HandlerFree, mainVars, IInv, TypeOK
  <2> QED BY <2>1, <2>2, <2>3, SameResult, Invisible, LosesResult
<1>3. CASE Signal(s)
  BY <1>3, SameResult, Invisible DEF Signal, kernelVars, mainVars, clientVars
<1>4. CASE Launch(s)
  <2>1. UNCHANGED <<req, ran, last>> /\ cpc = "off" /\ cpc' = "openShm"
    BY <1>4 DEF Launch, StartEngine
  <2> QED BY <2>1 DEF RPC!vars, Phase, Result, InCall
<1> QED BY <1>1, <1>2, <1>3, <1>4

\* A call is opened, made, answered and closed by the steps of the client, and by no other.
LEMMA ClientRefines ==
  ASSUME IInv, Client \/ EndSession
  PROVE  [RPC!Next]_(RPC!vars)
<1>1. CASE ClientOpenShm \/ ClientOpenIn
  BY <1>1, Invisible DEF ClientOpenShm, ClientOpenIn, mainVars, RPC!vars, Phase, Result, InCall
<1>2. CASE ClientOpenOut
  <2>1. UNCHANGED <<req, ran, last>> /\ cpc = "openOut" /\ cpc' \in {"failed", "idle"}
    BY <1>2 DEF ClientOpenOut, mainVars
  <2>2. Result = NoResult /\ Result' = NoResult /\ Phase = "closed"
        /\ Phase' = IF cpc' = "idle" THEN "idle" ELSE "closed"
    BY <2>1 DEF Result, Phase, InCall
  <2>3. RPC!Open \/ UNCHANGED RPC!vars
    BY <2>1, <2>2 DEF RPC!Open, RPC!vars
  <2> QED BY <2>3 DEF RPC!Next
<1>3. CASE ClientWrite
  <2>1. /\ cpc = "idle" /\ cpc' = "release" /\ req < MaxRequests /\ req' = req + 1
        /\ content' = [content EXCEPT ![catt["shm"]] = Request(req + 1)]
        /\ UNCHANGED <<spc, ran, last, catt, proc>>
    BY <1>3 DEF ClientWrite, mainVars
  <2>2. catt["shm"] \in Servers /\ proc # None
    BY <2>1 DEF IInv, ClientInv, OneByOne, NoHandler, InCall
  <2>3. spc[proc] \notin Answering
    BY <2>1, <2>2, AnsweringMeets
  <2>4. content'[catt["shm"]] = Request(req + 1)
    BY <2>1, <2>2 DEF IInv, TypeOK
  <2>5. Result = NoResult /\ Result' = NoResult
    BY <2>1, <2>3, <2>4 DEF Result, InCall, Answering, Request
  <2>6. Phase = "idle" /\ Phase' = "called"
    BY <2>1 DEF Phase, InCall
  <2>7. RPC!Call
    BY <2>1, <2>5, <2>6 DEF RPC!Call
  <2> QED BY <2>7 DEF RPC!Next
<1>4. CASE ClientRelease \/ ClientAcquire
  <2>1. /\ UNCHANGED <<spc, content, job, status, ran, catt, proc, req, last>>
        /\ cpc \in InCall /\ cpc' \in InCall
    BY <1>4 DEF ClientRelease, ClientAcquire, mainVars, InCall
  <2>2. Result' = Result /\ Phase' = Phase
    BY <2>1 DEF Result, Phase
  <2> QED BY <2>1, <2>2 DEF RPC!vars
<1>5. CASE ClientCollect
  <2> DEFINE seen == content[catt["shm"]]
  <2>1. /\ cpc = "collect" /\ cpc' = "idle" /\ UNCHANGED <<ran, req>>
        /\ last' = [sent |-> req, id |-> IF seen.kind = "response" THEN seen.id ELSE 0, status |-> seen.status]
    BY <1>5 DEF ClientCollect, mainVars
  <2>2. seen.kind = "response" /\ seen.id = req /\ proc # None
    BY <2>1 DEF IInv, ClientInv, OneByOne, NoHandler
  <2>3. spc[proc] \notin Answering
    BY <2>1, <2>2, AnsweringMeets
  <2>4. Result = [id |-> req, status |-> seen.status] /\ Result' = NoResult
    BY <2>1, <2>2, <2>3 DEF Result, InCall, Answering
  <2>5. Phase = "called" /\ Phase' = "idle"
    BY <2>1 DEF Phase, InCall
  <2>6. [id |-> last'.id, status |-> last'.status] = Result
    BY <2>1, <2>2, <2>4
  <2>7. RPC!Return
    BY <2>1, <2>4, <2>5, <2>6 DEF RPC!Return, RPC!NoResult, NoResult
  <2> QED BY <2>7 DEF RPC!Next
<1>6. CASE EndSession
  <2>1. UNCHANGED <<req, ran, last>> /\ cpc' = "off"
    BY <1>6 DEF EndSession, mainVars
  <2>2. Phase' = "closed" /\ Result' = NoResult
    BY <2>1 DEF Phase, Result, InCall
  <2>3. CASE Phase = "closed"
    <3>1. Result = NoResult
      BY <2>3 DEF Phase, Result
    <3> QED BY <2>1, <2>2, <2>3, <3>1 DEF RPC!vars
  <2>4. CASE Phase # "closed"
    <3>1. RPC!Close
      BY <2>1, <2>2, <2>4 DEF RPC!Close, RPC!NoResult, NoResult
    <3> QED BY <3>1 DEF RPC!Next
  <2> QED BY <2>3, <2>4
<1> QED BY <1>1, <1>2, <1>3, <1>4, <1>5, <1>6 DEF Client

\* Afl.run executes the target at most once per call, on that call's input, and returns what that
\* execution produced (coverage.py:117-132, ex-frsv.c:478-536): for any number of sessions.
THEOREM Implementation ==
  ASSUME FailuresAlone
  PROVE  Spec => ImplementsRPC
<1>1. Init => RPC!Init
  BY DEF Init, RPC!Init, RPC!NoResult, Phase, Result, NoResult, InCall
<1>2. ASSUME IInv, [Next]_vars
      PROVE  [RPC!Next]_(RPC!vars)
  <2>1. CASE UNCHANGED vars
    BY <2>1, SameResult, Invisible DEF vars, kernelVars, mainVars, clientVars
  <2> QED BY <1>2, <2>1, MainRefines, HandlerRefines, ClientRefines DEF Next
<1> QED BY <1>1, <1>2, Invariant, PTL DEF Spec, ImplementsRPC, RPC!Spec
=============================================================================
