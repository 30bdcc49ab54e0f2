--------------------------- MODULE NetPing_proofs ---------------------------
(***************************************************************************)
(* Theorems about NetPing for any number of servers, any fault hosts and   *)
(* any hosts with a touchserver.                                           *)
(***************************************************************************)
EXTENDS NetPing, TLAPS

\* The client blocks in a ping only inside the loop of PingAll.
InLoop == pc[Caller] = "await" => More

TypeInv == TypeOK /\ InLoop

\* The client is a process of its own beside the servers.
LEMMA ProcFacts ==
  /\ Caller = 0 /\ Caller \in Procs /\ Caller \notin NodeIds
  /\ NodeIds \subseteq Procs
  /\ 1 \in NodeIds
  /\ NumHosts \in Nat /\ NodeIds \subseteq Nat
  /\ \A n \in NodeIds : n \in Nat /\ n >= 1 /\ n <= NumHosts
  /\ TouchHosts \subseteq NodeIds /\ CrashHosts \subseteq NodeIds
  BY RpcAssumption, PingAssumption DEF Procs, NodeIds

\* The pings and the stop messages: one of each for a node.
LEMMA CallFacts ==
  /\ \A n \in NodeIds :
       /\ Ping(n) \in Calls /\ Ping(n) \in Pings
       /\ StopCall(n) \in Calls /\ StopCall(n) \notin Pings
       /\ Ping(n).node = n /\ Ping(n).rpc = "RpcPing"
       /\ StopCall(n).node = n /\ StopCall(n).rpc = "RpcStopDaemon"
       /\ \A m \in NodeIds : Ping(m) # StopCall(n)
  /\ \A c \in Pings : c \in Calls /\ c = Ping(c.node)
  /\ \A c \in Calls : c.node \in NodeIds
<1>1. 0 \in 0 .. Rep
  BY RpcAssumption
<1>2. \A n \in NodeIds : Ping(n) \in Calls /\ StopCall(n) \in Calls
  BY <1>1 DEF Ping, StopCall, Calls, RpcNames
<1>3. \A n \in NodeIds :
        /\ Ping(n).node = n /\ Ping(n).rpc = "RpcPing"
        /\ StopCall(n).node = n /\ StopCall(n).rpc = "RpcStopDaemon"
  BY DEF Ping, StopCall
<1>4. \A c \in Calls : c.node \in NodeIds
  BY DEF Calls
<1> QED BY <1>2, <1>3, <1>4 DEF Pings

\* The loop variables stay in bounds when an iteration ends.
LEMMA NextNode ==
  ASSUME TypeOK, at.node <= NumHosts, at' = [at EXCEPT !.node = @ + 1]
  PROVE  /\ at.node \in NodeIds
         /\ at' \in [node : 1 .. NumHosts + 1, rep : {0}]
         /\ at'.node = at.node + 1
  BY RpcAssumption DEF TypeOK, NodeIds

\* Type correctness of the servers, the touchservers and the client.
LEMMA TypeInvInductive ==
  /\ Init => TypeInv
  /\ TypeInv /\ [Next]_vars => TypeInv'
<1> USE ProcFacts
<1>1. Init => TypeInv
  BY RpcAssumption DEF Init, RpcInit, TypeInv, TypeOK, InLoop, Status, PingStatus,
     TouchLabels
<1>2. ASSUME TypeInv, [Next]_vars
      PROVE  TypeInv'
  <2> USE <1>2 DEF TypeInv, TypeOK, Status, PingStatus, TouchLabels, InLoop,
                   More, Goto
  <2>1. ASSUME NEW n \in NodeIds,
               ServerDestroy(n) \/ ServerInit(n) \/ ServerMark(n)
        PROVE  TypeInv'
    <3>1. CASE ServerDestroy(n)
      <4>1. \/ pc' = [pc EXCEPT ![n] = "aborted"]
            \/ pc' = [pc EXCEPT ![n] = "init"]
        BY <3>1 DEF ServerDestroy
      <4>2. /\ marker' \subseteq NodeIds
            /\ UNCHANGED <<server, client, rpcs, stop, call, bulks, responses,
                           at, touch>>
        BY <3>1 DEF ServerDestroy
      <4> QED BY <4>1, <4>2
    <3>2. CASE ServerInit(n)
      <4>1. \/ pc' = [pc EXCEPT ![n] = "aborted"]
            \/ pc' = [pc EXCEPT ![n] = "mark"]
        BY <3>2 DEF ServerInit
      <4>2. /\ server' \in [Procs -> {"none", "up", "closing", "down"}]
            /\ client' \in [Procs -> {"none", "up", "down"}]
        BY <3>2 DEF ServerInit
      <4>3. rpcs' \in [Procs -> SUBSET RpcNames]
        BY <3>2 DEF ServerInit, RpcNames
      <4>4. UNCHANGED <<stop, call, bulks, responses, at, marker, touch>>
        BY <3>2 DEF ServerInit
      <4> QED BY <4>1, <4>2, <4>3, <4>4
    <3>3. CASE ServerMark(n)
      <4>1. /\ pc' = [pc EXCEPT ![n] = "daemon"]
            /\ marker' \subseteq NodeIds
            /\ UNCHANGED <<server, client, rpcs, stop, call, bulks, responses,
                           at, touch>>
        BY <3>3 DEF ServerMark
      <4> QED BY <4>1
    <3> QED BY <2>1, <3>1, <3>2, <3>3
  <2>2. ASSUME NEW n \in TouchHosts, TouchStep(n)
        PROVE  TypeInv'
    <3>1. UNCHANGED <<pc, server, client, rpcs, stop, call, bulks, responses,
                      at>>
      BY <2>2 DEF TouchStep, TouchFails, TouchDestroy, TouchInit, TouchMark,
         TouchExit, rpcVars
    <3>2. marker' \subseteq NodeIds /\ touch' \in [TouchHosts -> TouchLabels]
      BY <2>2 DEF TouchStep, TouchFails, TouchDestroy, TouchInit, TouchMark,
         TouchExit
    <3> QED BY <3>1, <3>2
  <2>3. CASE ClientInit \/ ClientDestroy
    <3>1. CASE ClientInit
      <4>1. \/ pc' = [pc EXCEPT ![Caller] = "aborted"]
            \/ pc' = [pc EXCEPT ![Caller] = "issue"]
        BY <3>1 DEF ClientInit
      <4>2. client' \in [Procs -> {"none", "up", "down"}]
        BY <3>1 DEF ClientInit
      <4>3. UNCHANGED <<server, rpcs, stop, call, bulks, responses, at, marker,
                        touch>>
        BY <3>1 DEF ClientInit
      <4>4. InLoop'
        BY <4>1 DEF InLoop
      <4> QED BY <4>1, <4>2, <4>3, <4>4
    <3>2. CASE ClientDestroy
      BY <3>2 DEF ClientDestroy
    <3> QED BY <2>3, <3>1, <3>2
  <2>4. CASE PingIssue
    <3>1. Cur \in Calls
      BY <2>4, CallFacts DEF PingIssue, Cur, NodeIds
    <3>2. call' \in [Calls -> PingStatus]
      BY <2>4, <3>1 DEF PingIssue, Sends, SendsToTouch
    <3> QED BY <2>4, <3>1, <3>2 DEF PingIssue
  <2>5. CASE PingReturn
    <3>1. at' \in [node : 1 .. NumHosts + 1, rep : {0}]
      BY <2>5, NextNode DEF PingReturn
    <3> QED BY <2>5, <3>1 DEF PingReturn
  <2>6. CASE PingFails
    BY <2>6 DEF PingFails
  <2>7. CASE PingDone
    <3>1. 1 \in 1 .. NumHosts + 1
      OBVIOUS
    <3> QED BY <2>7, <3>1 DEF PingDone
  <2>8. CASE StopAllDaemons
    <3>1. CASE StopSend \/ StopSendToTouch
      <4>1. StopCall(at.node) \in Calls
        BY <3>1, CallFacts DEF StopSend, StopSendToTouch, NodeIds
      <4>2. at' \in [node : 1 .. NumHosts + 1, rep : {0}]
        BY <3>1, NextNode DEF StopSend, StopSendToTouch
      <4>3. responses' \in Seq(Calls)
        <5>1. responses' = Append(responses, StopCall(at.node))
          BY <3>1 DEF StopSend, StopSendToTouch
        <5> QED BY <4>1, <5>1
      <4>4. call' \in [Calls -> PingStatus]
        BY <3>1, <4>1
           DEF StopSend, StopSendToTouch, Sends, FailsLater, SendsToTouch
      <4>5. UNCHANGED <<pc, server, client, rpcs, stop, bulks, marker, touch>>
        BY <2>8, <3>1 DEF StopSend, StopSendToTouch, StopAllDaemons
      <4>6. pc[Caller] # "await"
        BY <3>1 DEF StopSend, StopSendToTouch
      <4> QED BY <4>2, <4>3, <4>4, <4>5, <4>6
    <3>2. CASE StopSent \/ StopThrow("exited")
      BY <2>8, <3>2 DEF StopSent, StopThrow, StopAllDaemons
    <3>3. CASE StopWait("destroy")
      <4>1. responses # <<>> => Tail(responses) \in Seq(Calls)
        OBVIOUS
      <4>2. responses' \in Seq(Calls)
        BY <3>3, <4>1 DEF StopWait
      <4>3. \/ UNCHANGED pc
            \/ pc' = [pc EXCEPT ![Caller] = "destroy"]
        BY <3>3 DEF StopWait
      <4>4. UNCHANGED <<server, client, rpcs, stop, call, bulks, at, marker,
                        touch>>
        BY <2>8, <3>3 DEF StopWait, StopAllDaemons
      <4> QED BY <4>2, <4>3, <4>4
    <3> QED BY <2>8, <3>1, <3>2, <3>3 DEF StopAllDaemons
  <2>9. CASE ServiceStep
    <3> UNCHANGED <<marker, touch>>
      BY <2>9 DEF ServiceStep
    <3>1. ASSUME NEW c \in Calls, Dispatch(c) \/ RpcPing(c) \/ Receive(c)
          PROVE  TypeInv'
      BY <3>1 DEF Dispatch, RpcPing, Receive
    <3>2. ASSUME NEW c \in Calls, RpcStopDaemon(c)
          PROVE  TypeInv'
      BY <3>2, CallFacts DEF RpcStopDaemon
    <3>3. ASSUME NEW n \in NodeIds, FinalizeClient(n)
          PROVE  TypeInv'
      BY <3>3 DEF FinalizeClient
    <3>4. ASSUME NEW n \in NodeIds, FinalizeServer(n)
          PROVE  TypeInv'
      BY <3>4 DEF FinalizeServer
    <3>5. ASSUME NEW n \in NodeIds, CloseServer(n) \/ RunDaemon(n)
          PROVE  TypeInv'
      BY <3>5 DEF CloseServer, RunDaemon
    <3> QED BY <2>9, <3>1, <3>2, <3>3, <3>4, <3>5 DEF ServiceStep
  <2>10. CASE UnfairStep
    <3> UNCHANGED <<marker, touch>>
      BY <2>10 DEF UnfairStep
    <3>1. ASSUME NEW c \in Calls, Disconnect(c) \/ TouchDisconnect(c)
          PROVE  TypeInv'
      BY <3>1 DEF Disconnect, TouchDisconnect
    <3>2. ASSUME NEW n \in NodeIds, Crash(n)
          PROVE  TypeInv'
      BY <3>2 DEF Crash
    <3> QED BY <2>10, <3>1, <3>2 DEF UnfairStep
  <2>11. CASE UNCHANGED vars
    BY <2>11 DEF vars, rpcVars
  <2> QED BY <2>1, <2>2, <2>3, <2>4, <2>5, <2>6, <2>7, <2>8, <2>9, <2>10,
             <2>11 DEF Next, MainStep
<1> QED BY <1>1, <1>2

\* Type correctness of chi_net_ping, for any number of hosts.
THEOREM TypeCorrect == Spec => []TypeOK
<1>1. Spec => []TypeInv
  BY TypeInvInductive, PTL DEF Spec
<1>2. TypeInv => TypeOK
  BY DEF TypeInv
<1> QED BY <1>1, <1>2, PTL
-----------------------------------------------------------------------------
(***************************************************************************)
(* The inductive invariant of the safety properties: how far the servers,  *)
(* the client and the calls can be apart.                                  *)
(***************************************************************************)
Outstanding(c) == \E i \in 1 .. Len(responses) : responses[i] = c

\* How far a server is: what its main thread and its stop handler have done.
ServerPhases ==
  \A n \in NodeIds :
    /\ pc[n] \in {"start", "init", "mark", "daemon", "exited", "aborted",
                  "crashed"}
    /\ pc[n] \in {"start", "init", "aborted"} => server[n] = "none"
    /\ pc[n] \in {"mark", "daemon"} => server[n] # "none"
    /\ pc[n] = "exited" => server[n] = "down"
    /\ server[n] # "none" => rpcs[n] = {"RpcStopDaemon", "RpcPing"}
    /\ server[n] \in {"closing", "down"} => stop[n] = "returned"
    /\ stop[n] # "none" <=> call[StopCall(n)] \in {"replied", "ok"}

\* A port has one owner.
OnePort == \A n \in NodeIds : ~(TouchBound(n) /\ ServerBound(n))

\* The client's engine is up in both loops.
ClientPhases ==
  /\ pc[Caller] \in {"start", "issue", "await", "stopSend", "stopWait",
                     "destroy", "exited", "aborted"}
  /\ pc[Caller] \notin {"start", "aborted"} => client[Caller] = "up"

\* A call that is not held was accepted by a server, and a server that is
\* down has no handler.
CallsMade ==
  \A c \in Calls :
    /\ call[c] # "idle" => c \in Pings \/ c = StopCall(c.node)
    /\ call[c] \notin {"pulled", "nomatch"}
    /\ call[c] \notin {"idle", "failed", "held"} => server[c.node] # "none"
    /\ server[c.node] = "down" => call[c] # "running"

\* The loop of PingAll goes on only when a ping was answered.
PingOrder ==
  \A n \in NodeIds :
    /\ pc[Caller] = "start" => at.node = 1 /\ call[Ping(n)] = "idle"
    /\ pc[Caller] \in {"issue", "await"} =>
         /\ n < at.node => call[Ping(n)] = "ok"
         /\ at.node < n => call[Ping(n)] = "idle"
         /\ (n = at.node /\ pc[Caller] = "issue") => call[Ping(n)] = "idle"
    /\ pc[Caller] \in {"stopSend", "stopWait", "destroy", "exited"} =>
         call[Ping(n)] = "ok"

\* No stop message before the last ping was answered; each that was sent is
\* waited for, and one that failed, or that a touchserver has, was meant for a
\* server that crashed.
StopOrder ==
  \A n \in NodeIds :
    /\ pc[Caller] \in {"start", "issue", "await", "aborted"} =>
         call[StopCall(n)] = "idle"
    /\ (pc[Caller] = "stopSend" /\ at.node <= n) =>
         call[StopCall(n)] = "idle"
    /\ call[StopCall(n)] \in {"failed", "held"} => pc[n] = "crashed"
    /\ (\/ pc[Caller] = "stopWait"
        \/ pc[Caller] = "stopSend" /\ n < at.node) =>
         /\ call[StopCall(n)] # "idle"
         /\ call[StopCall(n)] = "ok" \/ Outstanding(StopCall(n))
    /\ pc[Caller] = "destroy" => call[StopCall(n)] = "ok"

\* Only stop messages are asynchronous.
Waited ==
  \A c \in Calls : Outstanding(c) => c = StopCall(c.node)

PingInv ==
  /\ TypeInv
  /\ ServerPhases /\ OnePort /\ ClientPhases
  /\ CallsMade
  /\ PingOrder /\ StopOrder /\ Waited
  /\ MarkerShowsServer
  /\ ExitZeroSound
-----------------------------------------------------------------------------
\* The parts of the invariant after a step.
Kept ==
  /\ ServerPhases /\ OnePort /\ ClientPhases
  /\ CallsMade
  /\ PingOrder /\ StopOrder /\ Waited
  /\ MarkerShowsServer
  /\ ExitZeroSound

\* A process that crashed stays so.
LEMMA CrashedStays ==
  ASSUME \A n \in NodeIds : pc[n] = "crashed" => pc'[n] = "crashed"
  PROVE  /\ Crashed => Crashed'
         /\ \A n \in NodeIds : CrashedUpTo(n) => CrashedUpTo(n)'
<1>1. \A n \in NodeIds : 1 .. n \subseteq NodeIds
  BY ProcFacts DEF NodeIds
<1>2. \A n \in NodeIds : CrashedUpTo(n) => CrashedUpTo(n)'
  BY <1>1 DEF CrashedUpTo
<1> QED BY <1>2 DEF Crashed, CrashedUpTo, NodeIds

\* A process that crashed is one of them.
LEMMA CrashedNode ==
  ASSUME NEW n \in NodeIds, pc[n] = "crashed"
  PROVE  Crashed /\ \A m \in NodeIds : n <= m => CrashedUpTo(m)
<1>1. Crashed
  BY DEF Crashed, CrashedUpTo, NodeIds
<1>2. ASSUME NEW m \in NodeIds, n <= m
      PROVE  CrashedUpTo(m)
  <2>1. n \in 1 .. m
    BY <1>2, ProcFacts
  <2> QED BY <2>1 DEF CrashedUpTo
<1> QED BY <1>1, <1>2

\* Nobody binds a port by a step that starts neither server nor touchserver.
LEMMA PortKept ==
  ASSUME OnePort, UNCHANGED touch,
         \A n \in NodeIds : ServerBound(n)' => ServerBound(n)
  PROVE  OnePort'
  BY DEF OnePort, TouchBound

\* Once its ping was answered, a server that was not told to stop and cannot
\* be reached has crashed.
LEMMA OnlyCrashed ==
  ASSUME PingInv, NEW n \in NodeIds, ~Reachable(n), server[n] # "none",
         call[StopCall(n)] \notin {"replied", "ok"}
  PROVE  pc[n] = "crashed"
<1>1. stop[n] = "none" /\ server[n] = "up"
  BY ProcFacts DEF PingInv, ServerPhases, TypeInv, TypeOK
<1> QED BY <1>1 DEF Reachable, Dead, PingInv, ServerPhases

\* A touchserver leaves servers, calls and other hosts' markers alone, and
\* makes its own marker but when it starts.
LEMMA TouchKeeps ==
  ASSUME TypeOK, NEW n \in TouchHosts, TouchStep(n)
  PROVE  /\ UNCHANGED rpcVars
         /\ \A m \in NodeIds \ TouchHosts : m \in marker' <=> m \in marker
         /\ \A m \in NodeIds :
              TouchBound(m)' => TouchBound(m) \/ ~ServerBound(m)
<1>1. UNCHANGED rpcVars
  BY DEF TouchStep, TouchFails, TouchDestroy, TouchInit, TouchMark, TouchExit
<1>2. \A m \in NodeIds \ TouchHosts : m \in marker' <=> m \in marker
  BY DEF TouchStep, TouchFails, TouchDestroy, TouchInit, TouchMark, TouchExit
<1>3. ASSUME NEW m \in NodeIds, TouchBound(m)'
      PROVE  TouchBound(m) \/ ~ServerBound(m)
  <2>1. m # n => touch'[m] = touch[m] \/ m \notin TouchHosts
    BY DEF TouchStep, TouchFails, TouchDestroy, TouchInit, TouchMark,
       TouchExit, TypeOK
  <2>2. touch'[n] \in {"mark", "made"} =>
          touch[n] \in {"mark", "made"} \/ ~ServerBound(n)
    BY DEF TouchStep, TouchFails, TouchDestroy, TouchInit, TouchMark,
       TouchExit, TypeOK
  <2> QED BY <1>3, <2>1, <2>2 DEF TouchBound
<1> QED BY <1>1, <1>2, <1>3

\* The start-up of servers and touchservers.
LEMMA StartKeeps ==
  ASSUME PingInv,
         \/ \E n \in NodeIds : ServerDestroy(n) \/ ServerInit(n)
                               \/ ServerMark(n)
         \/ \E n \in TouchHosts : TouchStep(n)
  PROVE  Kept'
<1> USE ProcFacts DEF PingInv
<1>1. /\ UNCHANGED <<call, stop, responses, at>>
      /\ pc'[Caller] = pc[Caller] /\ client'[Caller] = client[Caller]
      /\ \A n \in NodeIds : pc[n] = "crashed" => pc'[n] = "crashed"
      /\ \A n \in NodeIds : server[n] # "none" => server'[n] = server[n]
      /\ \A n \in NodeIds : server'[n] # "down" \/ server[n] = "down"
      /\ \A n \in NodeIds : StopCall(n)' = StopCall(n) /\ Ping(n)' = Ping(n)
  <2>1. ASSUME NEW n \in NodeIds, ServerDestroy(n)
        PROVE  <1>1!:
    BY <2>1 DEF ServerDestroy, Goto, TypeInv, TypeOK, StopCall, Ping
  <2>2. ASSUME NEW n \in NodeIds, ServerInit(n)
        PROVE  <1>1!:
    <3>1. server[n] = "none" /\ pc[n] # "crashed"
      BY <2>2 DEF ServerInit, ServerPhases
    <3> QED BY <2>2, <3>1
            DEF ServerInit, Goto, TypeInv, TypeOK, StopCall, Ping
  <2>3. ASSUME NEW n \in NodeIds, ServerMark(n)
        PROVE  <1>1!:
    BY <2>3 DEF ServerMark, Goto, TypeInv, TypeOK, StopCall, Ping
  <2>4. ASSUME NEW n \in TouchHosts, TouchStep(n)
        PROVE  <1>1!:
    <3>1. UNCHANGED rpcVars
      BY <2>4, TouchKeeps DEF TypeInv
    <3> QED BY <3>1 DEF rpcVars, StopCall, Ping
  <2> QED BY <2>1, <2>2, <2>3, <2>4
<1>2. ServerPhases' /\ MarkerShowsServer'
  <2>1. ASSUME NEW n \in NodeIds, ServerDestroy(n)
        PROVE  ServerPhases' /\ MarkerShowsServer'
    BY <1>1, <2>1 DEF ServerDestroy, Goto, TypeInv, TypeOK, ServerPhases,
       MarkerShowsServer
  <2>2. ASSUME NEW n \in NodeIds, ServerInit(n)
        PROVE  ServerPhases' /\ MarkerShowsServer'
    BY <1>1, <2>2 DEF ServerInit, Goto, TypeInv, TypeOK, ServerPhases,
       MarkerShowsServer
  <2>3. ASSUME NEW n \in NodeIds, ServerMark(n)
        PROVE  ServerPhases' /\ MarkerShowsServer'
    BY <1>1, <2>3 DEF ServerMark, Goto, TypeInv, TypeOK, ServerPhases,
       MarkerShowsServer
  <2>4. ASSUME NEW n \in TouchHosts, TouchStep(n)
        PROVE  ServerPhases' /\ MarkerShowsServer'
    <3>1. UNCHANGED <<pc, server, rpcs, stop, call>>
      BY <2>4, TouchKeeps DEF TypeInv, rpcVars
    <3>2. \A m \in NodeIds \ TouchHosts : m \in marker' <=> m \in marker
      BY <2>4, TouchKeeps DEF TypeInv
    <3> QED BY <1>1, <3>1, <3>2 DEF ServerPhases, MarkerShowsServer
  <2> QED BY <2>1, <2>2, <2>3, <2>4
<1>3. CallsMade'
  <2>1. Calls' = Calls /\ Pings' = Pings
    BY DEF Calls, Pings, Ping
  <2>2. \A c \in Calls : c.node \in NodeIds
    BY CallFacts
  <2> QED BY <1>1, <2>1, <2>2 DEF CallsMade
<1>4. ClientPhases' /\ PingOrder' /\ Waited'
  <2>1. Calls' = Calls /\ \A c \in Calls : Outstanding(c)' => Outstanding(c)
    BY <1>1 DEF Outstanding, Calls
  <2> QED BY <1>1, <2>1, CallFacts DEF ClientPhases, PingOrder, Waited
<1>5. StopOrder'
  <2>1. \A n \in NodeIds :
          Outstanding(StopCall(n)) => Outstanding(StopCall(n))'
    BY <1>1 DEF Outstanding
  <2> QED BY <1>1, <2>1 DEF StopOrder
<1>6. ExitZeroSound'
  BY <1>1, CrashedStays DEF ExitZeroSound
<1>7. OnePort'
  <2>1. ASSUME NEW n \in NodeIds, ServerDestroy(n) \/ ServerMark(n)
        PROVE  OnePort'
    <3>1. UNCHANGED <<server, touch>> /\ \A m \in NodeIds : Dead(m) => Dead(m)'
      BY <2>1 DEF ServerDestroy, ServerMark, Goto, Dead, TypeInv, TypeOK
    <3> QED BY <3>1, PortKept DEF ServerBound
  <2>2. ASSUME NEW n \in NodeIds, ServerInit(n)
        PROVE  OnePort'
    <3>1. CASE UNCHANGED server
      <4>1. UNCHANGED touch /\ \A m \in NodeIds : Dead(m) => Dead(m)'
        BY <2>2 DEF ServerInit, Goto, Dead, TypeInv, TypeOK
      <4> QED BY <3>1, <4>1, PortKept DEF ServerBound
    <3>2. CASE ~TouchBound(n) /\ server' = [server EXCEPT ![n] = "up"]
      <4>1. UNCHANGED touch /\ \A m \in NodeIds : Dead(m) => Dead(m)'
        BY <2>2 DEF ServerInit, Goto, Dead, TypeInv, TypeOK
      <4>2. \A m \in NodeIds \ {n} : server'[m] = server[m]
        BY <3>2 DEF TypeInv, TypeOK
      <4>3. \A m \in NodeIds \ {n} : ServerBound(m)' => ServerBound(m)
        BY <4>1, <4>2 DEF ServerBound
      <4>4. \A m \in NodeIds : TouchBound(m)' <=> TouchBound(m)
        BY <4>1 DEF TouchBound
      <4> QED BY <3>2, <4>3, <4>4 DEF OnePort
    <3> QED BY <2>2, <3>1, <3>2 DEF ServerInit
  <2>3. ASSUME NEW n \in TouchHosts, TouchStep(n)
        PROVE  OnePort'
    <3>1. UNCHANGED <<pc, server>>
      BY <2>3, TouchKeeps DEF TypeInv, rpcVars
    <3>2. \A m \in NodeIds : ServerBound(m)' <=> ServerBound(m)
      BY <3>1 DEF ServerBound, Dead
    <3>3. \A m \in NodeIds :
            TouchBound(m)' => TouchBound(m) \/ ~ServerBound(m)
      BY <2>3, TouchKeeps DEF TypeInv
    <3> QED BY <3>2, <3>3 DEF OnePort
  <2> QED BY <2>1, <2>2, <2>3
<1> QED BY <1>2, <1>3, <1>4, <1>5, <1>6, <1>7 DEF Kept

\* The handlers, the answers and the connections that break: a call moves on.
LEMMA HandlersKeep ==
  ASSUME PingInv, NEW c \in Calls, UNCHANGED <<marker, touch>>,
         \/ Dispatch(c) \/ RpcPing(c) \/ RpcStopDaemon(c) \/ Receive(c)
         \/ Disconnect(c) \/ TouchDisconnect(c)
  PROVE  Kept'
<1> USE ProcFacts DEF PingInv
<1> DEFINE n == c.node
           Moves(s) ==
             /\ call' = [call EXCEPT ![c] = s]
             /\ call[c] \in {"queued", "running", "replied", "held"}
             /\ s = "running" => call[c] = "queued" /\ server[n] = "up"
             /\ s = "replied" => call[c] = "running"
             /\ s = "ok" => call[c] = "replied"
             /\ s = "failed" => \/ call[c] = "held"
                                \/ /\ call[c] \in {"queued", "running"}
                                   /\ ~Reachable(n)
             /\ IF s = "replied" /\ c = StopCall(n)
                THEN stop' = [stop EXCEPT ![n] = "replied"]
                ELSE stop' = stop
<1>1. n \in NodeIds /\ UNCHANGED <<pc, server, client, rpcs, responses, at>>
  BY CallFacts DEF Dispatch, RpcPing, RpcStopDaemon, Receive, Disconnect,
     TouchDisconnect
<1>2. \E s \in {"running", "replied", "ok", "failed"} : Moves(s)
  <2>1. call[c] # "pulled" /\ (call[c] # "idle" => c \in Pings \/ c = StopCall(n))
    BY DEF CallsMade
  <2>2. CASE Dispatch(c)
    <3>1. c.rpc \in {"RpcPing", "RpcStopDaemon"}
      <4>1. c = Ping(n) \/ c = StopCall(n)
        BY <2>1, <2>2, CallFacts DEF Dispatch
      <4> QED BY <4>1 DEF Ping, StopCall
    <3>2. rpcs[n] = {"RpcStopDaemon", "RpcPing"}
      BY <1>1, <2>2 DEF Dispatch, ServerPhases
    <3>3. Moves("running")
      BY <2>2, <3>1, <3>2 DEF Dispatch
    <3> QED BY <3>3
  <2>3. CASE RpcPing(c)
    <3>1. c # StopCall(n)
      BY <1>1, <2>3, CallFacts DEF RpcPing
    <3>2. Moves("replied")
      BY <2>3, <3>1 DEF RpcPing
    <3> QED BY <3>2
  <2>4. CASE RpcStopDaemon(c)
    <3>1. c = StopCall(n)
      BY <1>1, <2>1, <2>4, CallFacts DEF RpcStopDaemon
    <3>2. Moves("replied")
      BY <2>4, <3>1 DEF RpcStopDaemon
    <3> QED BY <3>2
  <2>5. CASE Receive(c)
    <3>1. Moves("ok")
      BY <2>5 DEF Receive
    <3> QED BY <3>1
  <2>6. CASE Disconnect(c) \/ TouchDisconnect(c)
    <3>1. Moves("failed")
      BY <2>1, <2>6 DEF Disconnect, TouchDisconnect
    <3> QED BY <3>1
  <2> QED BY <2>2, <2>3, <2>4, <2>5, <2>6
<1>3. PICK s \in {"running", "replied", "ok", "failed"} : Moves(s)
  BY <1>2
<1>4. /\ \A d \in Calls : d # c => call'[d] = call[d]
      /\ call'[c] = s
      /\ \A d \in Calls : call[d] \in {"idle", "ok"} => call'[d] = call[d]
      /\ \A d \in Calls : call'[d] = "idle" => call[d] = "idle"
      /\ \A m \in NodeIds : StopCall(m)' = StopCall(m) /\ Ping(m)' = Ping(m)
      /\ Calls' = Calls /\ Pings' = Pings
  BY <1>3 DEF TypeInv, TypeOK, StopCall, Ping, Calls, Pings
<1>5. /\ s = "failed" /\ c = StopCall(n) => pc[n] = "crashed"
      /\ s # "failed" => server[n] # "none"
  <2>1. call[c] # "held" => server[n] # "none"
    BY <1>3 DEF CallsMade
  <2>2. call[c] = "held" /\ c = StopCall(n) => pc[n] = "crashed"
    BY <1>1 DEF StopOrder
  <2>3. s = "failed" /\ c = StopCall(n) => pc[n] = "crashed"
    BY <1>1, <1>3, <2>1, <2>2, OnlyCrashed
  <2> QED BY <1>3, <2>1, <2>3
<1>6. /\ stop'[n] = (IF s = "replied" /\ c = StopCall(n)
                    THEN "replied" ELSE stop[n])
      /\ \A m \in NodeIds : m # n => stop'[m] = stop[m]
      /\ s = "ok" => call[c] = "replied"
      /\ s # "ok" => call[c] \notin {"replied", "ok"}
      /\ s = "running" => server[n] = "up"
  BY <1>1, <1>3 DEF TypeInv, TypeOK
<1>7. call[c] # "idle" /\ s # "idle"
  BY <1>3
<1> HIDE DEF Moves, n
<1>8. ServerPhases'
  <2>1. \A m \in NodeIds :
          stop'[m] # "none" <=> call'[StopCall(m)] \in {"replied", "ok"}
    <3> TAKE m \in NodeIds
    <3>1. stop[m] # "none" <=> call[StopCall(m)] \in {"replied", "ok"}
      BY DEF ServerPhases
    <3>2. CASE c = StopCall(m)
      <4>1. m = n
        BY <3>2, CallFacts DEF n
      <4> QED BY <3>1, <3>2, <4>1, <1>4, <1>6
    <3>3. CASE c # StopCall(m)
      <4>1. call'[StopCall(m)] = call[StopCall(m)] /\ stop'[m] = stop[m]
        BY <3>3, <1>4, <1>6, CallFacts
      <4> QED BY <3>1, <4>1
    <3> QED BY <3>2, <3>3
  <2>2. \A m \in NodeIds : stop[m] = "none" \/ stop'[m] = stop[m]
    <3>1. c = StopCall(n) /\ s = "replied" => stop[n] = "none"
      BY <1>1, <1>6 DEF ServerPhases
    <3> QED BY <1>6, <3>1
  <2> QED BY <1>1, <1>4, <2>1, <2>2 DEF ServerPhases
<1>9. CallsMade'
  <2>1. ASSUME NEW d \in Calls
        PROVE  /\ call'[d] # "idle" => d \in Pings \/ d = StopCall(d.node)
               /\ call'[d] \notin {"pulled", "nomatch"}
               /\ call'[d] \notin {"idle", "failed", "held"} =>
                    server[d.node] # "none"
               /\ server[d.node] = "down" => call'[d] # "running"
    <3>1. CASE d # c
      BY <1>4, <3>1 DEF CallsMade
    <3>2. CASE d = c
      BY <1>4, <1>5, <1>6, <1>7, <3>2 DEF CallsMade, n
    <3> QED BY <3>1, <3>2
  <2>2. \A d \in Calls : StopCall(d.node)' = StopCall(d.node)
    BY <1>4, CallFacts
  <2> QED BY <1>1, <1>4, <2>1, <2>2 DEF CallsMade
<1>10. ClientPhases' /\ PingOrder' /\ Waited'
  <2>1. \A m \in NodeIds :
          call[Ping(m)] \in {"idle", "ok"} => call'[Ping(m)] = call[Ping(m)]
    BY <1>4, CallFacts
  <2>2. PingOrder'
    BY <1>1, <1>4, <2>1 DEF PingOrder
  <2>3. ClientPhases' /\ Waited'
    <3>1. \A d \in Calls : Outstanding(d)' => Outstanding(d)
      BY <1>1 DEF Outstanding
    <3> QED BY <1>1, <1>4, <3>1, CallFacts DEF ClientPhases, Waited
  <2> QED BY <2>2, <2>3
<1>11. StopOrder'
  <2>1. \A m \in NodeIds :
          /\ Outstanding(StopCall(m)) => Outstanding(StopCall(m))'
          /\ call'[StopCall(m)] \in {"failed", "held"} => pc[m] = "crashed"
    <3> TAKE m \in NodeIds
    <3>1. Outstanding(StopCall(m)) => Outstanding(StopCall(m))'
      BY <1>1, <1>4 DEF Outstanding
    <3>2. CASE c = StopCall(m)
      <4>1. m = n
        BY <3>2, CallFacts DEF n
      <4>2. call'[StopCall(m)] = s
        BY <1>4, <3>2
      <4> QED BY <1>5, <3>1, <3>2, <4>1, <4>2
    <3>3. CASE c # StopCall(m)
      <4>1. call'[StopCall(m)] = call[StopCall(m)]
        BY <1>4, <3>3, CallFacts
      <4> QED BY <3>1, <4>1 DEF StopOrder
    <3> QED BY <3>2, <3>3
  <2> QED
    <3>1. \A m \in NodeIds :
            /\ call[StopCall(m)] \in {"idle", "ok"} =>
                 call'[StopCall(m)] = call[StopCall(m)]
            /\ call'[StopCall(m)] = "idle" => call[StopCall(m)] = "idle"
      BY <1>4, CallFacts
    <3>2. \A m \in NodeIds :
            /\ pc'[Caller] \in {"start", "issue", "await", "aborted"} =>
                 call'[StopCall(m)] = "idle"
            /\ (pc'[Caller] = "stopSend" /\ at'.node <= m) =>
                 call'[StopCall(m)] = "idle"
            /\ pc'[Caller] = "destroy" => call'[StopCall(m)] = "ok"
      BY <1>1, <3>1 DEF StopOrder
    <3>3. ASSUME NEW m \in NodeIds,
                 \/ pc'[Caller] = "stopWait"
                 \/ pc'[Caller] = "stopSend" /\ m < at'.node
          PROVE  /\ call'[StopCall(m)] # "idle"
                 /\ call'[StopCall(m)] = "ok" \/ Outstanding(StopCall(m))'
      <4>1. /\ call[StopCall(m)] # "idle"
            /\ call[StopCall(m)] = "ok" \/ Outstanding(StopCall(m))
        BY <1>1, <3>3 DEF StopOrder
      <4> QED BY <2>1, <3>1, <4>1
    <3>4. \A m \in NodeIds : StopCall(m)' = StopCall(m)
      BY <1>4
    <3> QED BY <2>1, <3>2, <3>3, <3>4, <1>1 DEF StopOrder
<1>12. MarkerShowsServer' /\ ExitZeroSound' /\ OnePort'
  <2>1. \A m \in NodeIds : stop'[m] = "none" => stop[m] = "none"
    BY <1>6
  <2>2. MarkerShowsServer'
    BY <1>1, <2>1 DEF MarkerShowsServer
  <2>3. ExitZeroSound'
    BY <1>1, <1>4, CallFacts, CrashedStays DEF ExitZeroSound
  <2>4. OnePort'
    BY <1>1, PortKept DEF ServerBound, Dead
  <2> QED BY <2>2, <2>3, <2>4
<1> QED BY <1>8, <1>9, <1>10, <1>11, <1>12 DEF Kept

\* The engines of a server go down, its main thread returns, or its host dies.
LEMMA EnginesKeep ==
  ASSUME PingInv, NEW n \in NodeIds, UNCHANGED <<marker, touch>>,
         \/ FinalizeClient(n) \/ FinalizeServer(n) \/ CloseServer(n)
         \/ RunDaemon(n) \/ Crash(n)
  PROVE  Kept'
<1> USE ProcFacts DEF PingInv
<1>1. /\ UNCHANGED <<call, rpcs, responses, at>>
      /\ \A m \in NodeIds : StopCall(m)' = StopCall(m) /\ Ping(m)' = Ping(m)
      /\ Calls' = Calls /\ Pings' = Pings
  BY DEF FinalizeClient, FinalizeServer, CloseServer, RunDaemon, Crash,
     StopCall, Ping, Calls, Pings
<1>2. /\ pc'[Caller] = pc[Caller] /\ client'[Caller] = client[Caller]
      /\ \A m \in NodeIds : pc[m] = "crashed" => pc'[m] = "crashed"
      /\ \A m \in NodeIds : pc'[m] = "daemon" => pc[m] = "daemon"
      /\ \A m \in NodeIds : stop'[m] # "none" <=> stop[m] # "none"
      /\ \A m \in NodeIds : server'[m] = "none" => server[m] = "none"
      /\ \A m \in NodeIds, c \in Calls :
           server'[m] = "down" /\ c.node = m => call[c] # "running"
      /\ ServerPhases'
  <2> USE <1>1 DEF TypeInv, TypeOK
  <2>1. CASE FinalizeClient(n)
    BY <2>1 DEF FinalizeClient, ServerPhases, CallsMade
  <2>2. CASE FinalizeServer(n)
    <3>1. server[n] # "none"
      <4>1. call[StopCall(n)] \in {"replied", "ok"}
        BY <2>2 DEF FinalizeServer, ServerPhases
      <4> QED BY <4>1, CallFacts DEF CallsMade
    <3>2. pc[n] # "exited"
      BY <2>2 DEF FinalizeServer, Works, Dead
    <3> QED BY <2>2, <3>1, <3>2 DEF FinalizeServer, ServerPhases, CallsMade
  <2>3. CASE CloseServer(n)
    BY <2>3 DEF CloseServer, ServerPhases, CallsMade
  <2>4. CASE RunDaemon(n)
    BY <2>4 DEF RunDaemon, ServerPhases, CallsMade
  <2>5. CASE Crash(n)
    BY <2>5 DEF Crash, Dead, ServerPhases, CallsMade
  <2> QED BY <2>1, <2>2, <2>3, <2>4, <2>5
<1>3. CallsMade'
  BY <1>1, <1>2, CallFacts DEF CallsMade
<1>4. ClientPhases' /\ PingOrder' /\ Waited'
  <2>1. \A c \in Calls : Outstanding(c)' => Outstanding(c)
    BY <1>1 DEF Outstanding
  <2> QED BY <1>1, <1>2, <2>1, CallFacts DEF ClientPhases, PingOrder, Waited
<1>5. StopOrder'
  <2>1. \A m \in NodeIds :
          Outstanding(StopCall(m)) => Outstanding(StopCall(m))'
    BY <1>1 DEF Outstanding
  <2> QED BY <1>1, <1>2, <2>1 DEF StopOrder
<1>6. MarkerShowsServer' /\ ExitZeroSound'
  BY <1>1, <1>2, CrashedStays DEF MarkerShowsServer, ExitZeroSound
<1>7. OnePort'
  <2>1. \A m \in NodeIds :
          /\ Dead(m) => Dead(m)'
          /\ server'[m] \in {"up", "closing"} => server[m] \in {"up", "closing"}
    <3>1. CASE FinalizeServer(n)
      <4>1. /\ stop[n] = "clientDown" /\ ~Dead(n) /\ UNCHANGED pc
            /\ server' = [server EXCEPT ![n] = "closing"]
        BY <3>1 DEF FinalizeServer, Works
      <4>2. server[n] = "up"
        <5>1. call[StopCall(n)] \in {"replied", "ok"}
          BY <4>1 DEF ServerPhases
        <5>2. server[n] # "none"
          BY <5>1, CallFacts DEF CallsMade
        <5> QED BY <4>1, <5>2 DEF ServerPhases, TypeInv, TypeOK
      <4> QED BY <4>1, <4>2 DEF Dead, TypeInv, TypeOK
    <3>2. CASE FinalizeClient(n) \/ CloseServer(n) \/ RunDaemon(n) \/ Crash(n)
      BY <3>2 DEF FinalizeClient, CloseServer, RunDaemon, Crash, Dead,
         TypeInv, TypeOK
    <3> QED BY <3>1, <3>2
  <2> QED BY <2>1, PortKept DEF ServerBound
<1> QED BY <1>2, <1>3, <1>4, <1>5, <1>6, <1>7 DEF Kept

\* A call that is made: its status, and no other, changes.
LEMMA CallMade ==
  ASSUME TypeOK, NEW c \in Calls, NEW s \in PingStatus,
         call' = [call EXCEPT ![c] = s]
  PROVE  /\ call'[c] = s
         /\ \A d \in Calls : d # c => call'[d] = call[d]
  BY DEF TypeOK

\* AsyncCall puts its response at the end of the vector ...
LEMMA AppendOutstanding ==
  ASSUME responses \in Seq(Calls), NEW d \in Calls,
         responses' = Append(responses, d)
  PROVE  \A c : Outstanding(c)' <=> Outstanding(c) \/ c = d
<1> TAKE c
<1>1. Len(responses') = Len(responses) + 1 /\ Len(responses) \in Nat
  OBVIOUS
<1>2. ASSUME Outstanding(c)
      PROVE  Outstanding(c)'
  <2>1. PICK i \in 1 .. Len(responses) : responses[i] = c
    BY <1>2 DEF Outstanding
  <2>2. responses'[i] = c /\ i \in 1 .. Len(responses')
    BY <1>1, <2>1
  <2> QED BY <2>2 DEF Outstanding
<1>3. ASSUME c = d
      PROVE  Outstanding(c)'
  <2>1. responses'[Len(responses')] = c /\ Len(responses') \in 1 .. Len(responses')
    BY <1>1, <1>3
  <2> QED BY <2>1 DEF Outstanding
<1>4. ASSUME Outstanding(c)', c # d
      PROVE  Outstanding(c)
  <2>1. PICK i \in 1 .. Len(responses') : responses'[i] = c
    BY <1>4 DEF Outstanding
  <2>2. i \in 1 .. Len(responses) /\ responses[i] = c
    BY <1>1, <1>4, <2>1
  <2> QED BY <2>2 DEF Outstanding
<1> QED BY <1>2, <1>3, <1>4

\* ... and the loop of waits takes the first.
LEMMA TailOutstanding ==
  ASSUME responses \in Seq(Calls), responses # <<>>,
         responses' = Tail(responses)
  PROVE  \A c : /\ Outstanding(c) => Outstanding(c)' \/ c = Head(responses)
                /\ Outstanding(c)' => Outstanding(c)
<1> TAKE c
<1>1. /\ Len(responses') = Len(responses) - 1 /\ Len(responses) \in Nat \ {0}
      /\ Head(responses) = responses[1]
      /\ \A i \in 1 .. Len(responses') : responses'[i] = responses[i + 1]
  OBVIOUS
<1>2. ASSUME Outstanding(c), c # Head(responses)
      PROVE  Outstanding(c)'
  <2>1. PICK i \in 1 .. Len(responses) : responses[i] = c
    BY <1>2 DEF Outstanding
  <2>2. i - 1 \in 1 .. Len(responses') /\ responses'[i - 1] = c
    BY <1>1, <1>2, <2>1
  <2> QED BY <2>2 DEF Outstanding
<1>3. ASSUME Outstanding(c)'
      PROVE  Outstanding(c)
  <2>1. PICK i \in 1 .. Len(responses') : responses'[i] = c
    BY <1>3 DEF Outstanding
  <2>2. i + 1 \in 1 .. Len(responses) /\ responses[i + 1] = c
    BY <1>1, <2>1
  <2> QED BY <2>2 DEF Outstanding
<1> QED BY <1>2, <1>3

\* What the loop of PingAll and the frame of the client keep.
LEMMA PingLoopKeeps ==
  ASSUME PingInv, TypeInv',
         ClientInit \/ PingIssue \/ PingReturn \/ PingFails \/ PingDone
  PROVE  Kept'
<1> USE ProcFacts DEF PingInv
<1>1. /\ UNCHANGED <<server, rpcs, stop, responses, marker>>
      /\ \A n \in NodeIds : pc'[n] = pc[n]
      /\ \A n \in NodeIds : call'[StopCall(n)] = call[StopCall(n)]
      /\ \A m \in NodeIds : StopCall(m)' = StopCall(m) /\ Ping(m)' = Ping(m)
      /\ Calls' = Calls /\ Pings' = Pings
      /\ pc[Caller] \in {"start", "issue", "await"}
      /\ pc'[Caller] \in {"aborted", "issue", "await", "stopSend"}
      /\ pc'[Caller] = "stopSend" => at'.node = 1
  <2>1. /\ UNCHANGED <<server, rpcs, stop, responses, marker>>
        /\ \A n \in NodeIds : pc'[n] = pc[n]
        /\ pc[Caller] \in {"start", "issue", "await"}
        /\ pc'[Caller] \in {"aborted", "issue", "await", "stopSend"}
        /\ pc'[Caller] = "stopSend" => at'.node = 1
    BY DEF ClientInit, PingIssue, PingReturn, PingFails, PingDone, Goto,
       TypeInv, TypeOK
  <2>2. \A n \in NodeIds : call'[StopCall(n)] = call[StopCall(n)]
    <3>1. CASE PingIssue
      <4>1. at.node \in NodeIds
        BY <3>1 DEF PingIssue, More, NodeIds, TypeInv, TypeOK
      <4>2. Ping(at.node) \in Calls /\ {"queued", "held"} \subseteq PingStatus
        BY <4>1, CallFacts DEF Status, PingStatus
      <4>3. \/ call' = [call EXCEPT ![Ping(at.node)] = "queued"]
            \/ call' = [call EXCEPT ![Ping(at.node)] = "held"]
        BY <3>1 DEF PingIssue, Sends, SendsToTouch, Cur
      <4>4. \A d \in Calls : d # Ping(at.node) => call'[d] = call[d]
        BY <4>2, <4>3, CallMade DEF TypeInv
      <4> QED BY <4>1, <4>4, CallFacts
    <3>2. CASE UNCHANGED call
      BY <3>2
    <3> QED BY <3>1, <3>2 DEF ClientInit, PingReturn, PingFails, PingDone
  <2>3. /\ \A m \in NodeIds : StopCall(m)' = StopCall(m) /\ Ping(m)' = Ping(m)
        /\ Calls' = Calls /\ Pings' = Pings
    BY DEF StopCall, Ping, Calls, Pings
  <2> QED BY <2>1, <2>2, <2>3
<1>2. ServerPhases'
  BY <1>1 DEF ServerPhases
<1>3. StopOrder'
  <2>1. \A n \in NodeIds : call[StopCall(n)] = "idle"
    BY <1>1 DEF StopOrder
  <2>2. ASSUME pc'[Caller] = "stopSend", NEW n \in NodeIds
        PROVE  ~(n < at'.node)
    BY <1>1, <2>2
  <2> QED BY <1>1, <2>1, <2>2 DEF StopOrder
<1>4. MarkerShowsServer' /\ ExitZeroSound' /\ OnePort' /\ Waited'
  <2>1. \A c \in Calls : Outstanding(c)' => Outstanding(c)
    BY <1>1 DEF Outstanding
  <2>2. OnePort'
    <3>1. UNCHANGED touch
      BY DEF ClientInit, PingIssue, PingReturn, PingFails, PingDone
    <3> QED BY <1>1, <3>1, PortKept DEF ServerBound, Dead
  <2> QED BY <1>1, <2>1, <2>2, CallFacts
          DEF MarkerShowsServer, ExitZeroSound, Waited
<1>5. CASE PingIssue
  <2> DEFINE n == at.node
  <2>1. /\ n \in NodeIds /\ at' = at
        /\ pc[Caller] = "issue" /\ pc'[Caller] = "await"
        /\ client[Caller] = "up" /\ client' = client
        /\ \/ call' = [call EXCEPT ![Ping(n)] = "queued"] /\ Reachable(n)
           \/ call' = [call EXCEPT ![Ping(n)] = "held"]
    <3>1. n \in NodeIds
      BY <1>5 DEF PingIssue, More, NodeIds, TypeInv, TypeOK
    <3> QED BY <1>5, <3>1, CallFacts DEF PingIssue, TypeInv, TypeOK, Sends,
               SendsToTouch, Cur, Goto
  <2> HIDE DEF n
  <2>2. /\ \/ call'[Ping(n)] = "queued" /\ Reachable(n)
           \/ call'[Ping(n)] = "held"
        /\ \A d \in Calls : d # Ping(n) => call'[d] = call[d]
    <3>1. Ping(n) \in Calls /\ {"queued", "held"} \subseteq PingStatus
      BY <2>1, CallFacts DEF Status, PingStatus
    <3> QED BY <2>1, <3>1, CallMade DEF TypeInv
  <2>3. call'[Ping(n)] = "queued" => server[n] # "none"
    BY <2>2 DEF Reachable
  <2>4. CallsMade'
    <3>1. ASSUME NEW d \in Calls
          PROVE  /\ call'[d] # "idle" => d \in Pings \/ d = StopCall(d.node)
                 /\ call'[d] \notin {"pulled", "nomatch"}
                 /\ call'[d] \notin {"idle", "failed", "held"} =>
                      server[d.node] # "none"
                 /\ server[d.node] = "down" => call'[d] # "running"
      <4>1. CASE d # Ping(n)
        BY <2>2, <4>1 DEF CallsMade
      <4>2. CASE d = Ping(n)
        BY <2>1, <2>2, <2>3, <4>2, CallFacts
      <4> QED BY <4>1, <4>2
    <3>2. \A d \in Calls : StopCall(d.node)' = StopCall(d.node)
      BY <1>1, CallFacts
    <3> QED BY <1>1, <3>1, <3>2 DEF CallsMade
  <2>5. PingOrder'
    <3>1. \A m \in NodeIds : m # n => call'[Ping(m)] = call[Ping(m)]
      BY <2>1, <2>2, CallFacts
    <3>2. n \in Nat /\ at.node = n
      BY <2>1 DEF n
    <3> QED BY <1>1, <2>1, <3>1, <3>2 DEF PingOrder
  <2>6. ClientPhases'
    BY <2>1 DEF ClientPhases
  <2> QED BY <1>2, <1>3, <1>4, <2>4, <2>5, <2>6 DEF Kept
<1>6. CASE ClientInit \/ PingReturn \/ PingFails \/ PingDone
  <2>1. UNCHANGED call
    BY <1>6 DEF ClientInit, PingReturn, PingFails, PingDone
  <2>2. CallsMade'
    BY <1>1, <2>1, CallFacts DEF CallsMade
  <2>3. ClientPhases'
    BY <1>6 DEF ClientInit, PingReturn, PingFails, PingDone, ClientPhases,
       TypeInv, TypeOK, Goto
  <2>4. PingOrder'
    <3>1. CASE ClientInit
      <4>1. \A n \in NodeIds : call[Ping(n)] = "idle"
        BY <3>1 DEF ClientInit, PingOrder
      <4>2. /\ pc'[Caller] \in {"issue", "aborted"} /\ at' = at
            /\ pc[Caller] = "start"
        BY <3>1 DEF ClientInit, Goto, TypeInv, TypeOK
      <4>3. at.node = 1
        BY <4>2 DEF PingOrder
      <4> QED BY <1>1, <2>1, <4>1, <4>2, <4>3 DEF PingOrder
    <3>2. CASE PingReturn
      <4>1. /\ pc[Caller] = "await" /\ pc'[Caller] = "issue"
            /\ call[Ping(at.node)] = "ok" /\ at'.node = at.node + 1
            /\ at.node \in Nat
        BY <3>2 DEF PingReturn, Goto, TypeInv, TypeOK, Returns, Cur
      <4> QED BY <1>1, <2>1, <4>1 DEF PingOrder
    <3>3. CASE PingFails
      <4>1. pc'[Caller] = "aborted"
        BY <3>3 DEF PingFails, Goto, TypeInv, TypeOK
      <4> QED BY <4>1 DEF PingOrder
    <3>4. CASE PingDone
      <4>1. /\ pc[Caller] = "issue" /\ pc'[Caller] = "stopSend"
            /\ \A n \in NodeIds : n < at.node
        BY <3>4 DEF PingDone, Goto, More, TypeInv, TypeOK
      <4> QED BY <1>1, <2>1, <4>1 DEF PingOrder
    <3> QED BY <1>6, <3>1, <3>2, <3>3, <3>4
  <2> QED BY <1>2, <1>3, <1>4, <2>2, <2>3, <2>4 DEF Kept
<1> QED BY <1>5, <1>6
\* StopAllDaemons and the end of the client.
LEMMA StopKeeps ==
  ASSUME PingInv, StopAllDaemons \/ ClientDestroy
  PROVE  Kept'
<1> USE ProcFacts DEF PingInv
<1>1. /\ UNCHANGED <<server, rpcs, stop, client>>
      /\ \A n \in NodeIds : pc'[n] = pc[n]
      /\ pc[Caller] \in {"stopSend", "stopWait", "destroy"}
      /\ pc'[Caller] \in {"stopSend", "stopWait", "destroy", "exited"}
  BY DEF StopAllDaemons, StopSend, StopSendToTouch, StopSent, StopWait,
     StopThrow, ClientDestroy, Goto, TypeInv, TypeOK
<1>2. /\ \A m \in NodeIds : StopCall(m)' = StopCall(m) /\ Ping(m)' = Ping(m)
      /\ Calls' = Calls /\ Pings' = Pings
  BY DEF StopCall, Ping, Calls, Pings
<1>3. /\ \A n \in NodeIds : call[Ping(n)] = "ok" /\ server[n] # "none"
      /\ client[Caller] = "up"
  <2>1. \A n \in NodeIds : call[Ping(n)] = "ok"
    BY <1>1 DEF PingOrder
  <2> QED BY <1>1, <2>1, CallFacts DEF CallsMade, ClientPhases
<1>4. ClientPhases' /\ OnePort'
  <2>1. UNCHANGED touch
    BY DEF StopAllDaemons, ClientDestroy
  <2>2. OnePort'
    BY <1>1, <2>1, PortKept DEF ServerBound, Dead
  <2> QED BY <1>1, <1>3, <2>2 DEF ClientPhases
<1>5. CASE /\ (~StopsTouch /\ StopSend) \/ StopSendToTouch
           /\ UNCHANGED <<marker, touch>>
  <2> DEFINE n == at.node
             c == StopCall(n)
  <2>1. /\ n \in NodeIds /\ at'.node = n + 1 /\ n \in Nat
        /\ pc[Caller] = "stopSend" /\ pc'[Caller] = "stopSend"
        /\ responses' = Append(responses, c)
        /\ responses \in Seq(Calls)
    <3>1. n <= NumHosts /\ n \in Nat
      BY <1>5 DEF StopSend, StopSendToTouch, More, TypeInv, TypeOK
    <3> QED BY <1>5, <3>1
            DEF StopSend, StopSendToTouch, TypeInv, TypeOK, NodeIds
  <2>2. c \in Calls /\ c.node = n /\ c \notin Pings
    BY <2>1, CallFacts
  <2>3. \E s \in {"queued", "failed", "held"} :
          /\ call' = [call EXCEPT ![c] = s]
          /\ s = "failed" => ~Reachable(n)
          /\ s = "held" => TouchBound(n)
    <3>1. CASE ~StopsTouch /\ StopSend
      BY <2>2, <3>1 DEF StopSend, Sends, FailsLater
    <3>2. CASE StopSendToTouch
      BY <2>2, <3>2 DEF StopSendToTouch, SendsToTouch
    <3> QED BY <1>5, <3>1, <3>2
  <2>4. PICK s \in {"queued", "failed", "held"} :
          /\ call' = [call EXCEPT ![c] = s]
          /\ s = "failed" => ~Reachable(n)
          /\ s = "held" => TouchBound(n)
    BY <2>3
  <2>5. call[c] = "idle" /\ n = at.node
    BY <2>1 DEF StopOrder
  <2> HIDE DEF n, c
  <2>6. call'[c] = s /\ \A d \in Calls : d # c => call'[d] = call[d]
    BY <2>2, <2>4, CallMade DEF TypeInv, Status, PingStatus
  <2>7. \A d : Outstanding(d)' <=> Outstanding(d) \/ d = c
    BY <2>1, <2>2, AppendOutstanding
  <2>8. c = StopCall(n)
    BY DEF c
  <2>9. s \in {"failed", "held"} => pc[n] = "crashed"
    <3>1. s \in {"failed", "held"} => ~Reachable(n)
      BY <2>1, <2>4 DEF OnePort, ServerBound, Reachable
    <3> QED BY <1>3, <2>1, <2>5, <2>8, <3>1, OnlyCrashed
  <2>10. \A m \in NodeIds : /\ m # n => call'[StopCall(m)] = call[StopCall(m)]
                            /\ call'[Ping(m)] = call[Ping(m)]
    BY <2>1, <2>2, <2>6, CallFacts
  <2>11. ServerPhases'
    <3>1. \A m \in NodeIds : call'[StopCall(m)] \in {"replied", "ok"}
                                 <=> call[StopCall(m)] \in {"replied", "ok"}
      BY <2>5, <2>6, <2>8, <2>10
    <3> QED BY <1>1, <1>2, <3>1 DEF ServerPhases
  <2>12. CallsMade'
    <3>1. ASSUME NEW d \in Calls
          PROVE  /\ call'[d] # "idle" => d \in Pings \/ d = StopCall(d.node)
                 /\ call'[d] \notin {"pulled", "nomatch"}
                 /\ call'[d] \notin {"idle", "failed", "held"} =>
                      server[d.node] # "none"
                 /\ server[d.node] = "down" => call'[d] # "running"
      <4>1. CASE d # c
        BY <2>6, <4>1 DEF CallsMade
      <4>2. CASE d = c
        BY <1>3, <2>1, <2>2, <2>6, <2>8, <4>2
      <4> QED BY <4>1, <4>2
    <3>2. \A d \in Calls : StopCall(d.node)' = StopCall(d.node)
      BY <1>2, CallFacts
    <3> QED BY <1>1, <1>2, <3>1, <3>2 DEF CallsMade
  <2>13. PingOrder'
    BY <1>2, <1>3, <2>1, <2>10 DEF PingOrder
  <2>14. StopOrder'
    <3> SUFFICES ASSUME NEW m \in NodeIds
                 PROVE  /\ n + 1 <= m => call'[StopCall(m)] = "idle"
                        /\ call'[StopCall(m)] \in {"failed", "held"} =>
                             pc[m] = "crashed"
                        /\ m < n + 1 => /\ call'[StopCall(m)] # "idle"
                                        /\ \/ call'[StopCall(m)] = "ok"
                                           \/ Outstanding(StopCall(m))'
      BY <1>1, <1>2, <2>1 DEF StopOrder
    <3>1. CASE m = n
      <4>1. call'[StopCall(m)] = s /\ Outstanding(StopCall(m))'
        BY <2>6, <2>7, <2>8, <3>1
      <4>2. ~(n + 1 <= m)
        BY <2>1, <3>1
      <4>3. call'[StopCall(m)] \in {"failed", "held"} => pc[m] = "crashed"
        BY <2>9, <3>1, <4>1
      <4>4. call'[StopCall(m)] # "idle"
        BY <2>4, <4>1
      <4> QED BY <4>1, <4>2, <4>3, <4>4
    <3>2. CASE m # n
      <4>1. /\ call'[StopCall(m)] = call[StopCall(m)]
            /\ Outstanding(StopCall(m)) => Outstanding(StopCall(m))'
        BY <2>7, <2>10, <3>2
      <4>2. /\ n + 1 <= m => at.node <= m
            /\ m < n + 1 => m < at.node
        BY <2>1, <2>5, <3>2
      <4>3. /\ at.node <= m => call[StopCall(m)] = "idle"
            /\ call[StopCall(m)] \in {"failed", "held"} => pc[m] = "crashed"
            /\ m < at.node => /\ call[StopCall(m)] # "idle"
                              /\ \/ call[StopCall(m)] = "ok"
                                 \/ Outstanding(StopCall(m))
        BY <2>1 DEF StopOrder
      <4> QED BY <4>1, <4>2, <4>3
    <3> QED BY <3>1, <3>2
  <2>15. Waited'
    BY <1>2, <2>2, <2>7, <2>8, CallFacts DEF Waited
  <2>16. MarkerShowsServer' /\ ExitZeroSound'
    BY <1>1, <1>5, <2>1 DEF MarkerShowsServer, ExitZeroSound
  <2> QED BY <1>4, <2>11, <2>12, <2>13, <2>14, <2>15, <2>16 DEF Kept
<1>6. CASE /\ \/ StopSent \/ StopWait("destroy")
              \/ ~StopsTouch /\ StopThrow("exited")
           /\ UNCHANGED <<marker, touch>>
  <2>1. UNCHANGED call
    BY <1>6 DEF StopSent, StopWait, StopThrow
  <2>2. ServerPhases' /\ MarkerShowsServer' /\ PingOrder' /\ CallsMade'
    <3>1. PingOrder'
      BY <1>1, <1>2, <1>3, <2>1 DEF PingOrder
    <3>2. CallsMade'
      BY <1>1, <1>2, <2>1, CallFacts DEF CallsMade
    <3> QED BY <1>1, <1>2, <1>6, <2>1, <3>1, <3>2
            DEF ServerPhases, MarkerShowsServer
  <2>3. \A m \in NodeIds :
          call[StopCall(m)] \in {"failed", "held"} => pc[m] = "crashed"
    BY DEF StopOrder
  <2>4. CASE StopSent
    <3>1. /\ pc[Caller] = "stopSend" /\ pc'[Caller] = "stopWait"
          /\ UNCHANGED <<responses, at>>
          /\ \A m \in NodeIds : m < at.node
      BY <2>4 DEF StopSent, TypeInv, TypeOK
    <3>2. \A c \in Calls : Outstanding(c)' <=> Outstanding(c)
      BY <3>1 DEF Outstanding
    <3>3. StopOrder'
      BY <1>1, <1>2, <2>1, <2>3, <3>1, <3>2, CallFacts DEF StopOrder
    <3>4. Waited' /\ ExitZeroSound'
      BY <1>2, <3>1, <3>2, CallFacts DEF Waited, ExitZeroSound
    <3> QED BY <1>4, <2>2, <3>3, <3>4 DEF Kept
  <2>5. CASE StopWait("destroy")
    <3> responses \in Seq(Calls)
      BY DEF TypeInv, TypeOK
    <3>1. CASE responses # <<>>
      <4>1. /\ pc'[Caller] = "stopWait" /\ responses' = Tail(responses)
            /\ call[Head(responses)] = "ok" /\ pc[Caller] = "stopWait"
        BY <2>5, <3>1 DEF StopWait, Returns
      <4>2. \A c : /\ Outstanding(c) => Outstanding(c)' \/ c = Head(responses)
                   /\ Outstanding(c)' => Outstanding(c)
        BY <3>1, <4>1, TailOutstanding
      <4>3. StopOrder'
        BY <1>1, <1>2, <2>1, <2>3, <4>1, <4>2 DEF StopOrder
      <4>4. Waited' /\ ExitZeroSound'
        BY <1>2, <4>1, <4>2, CallFacts DEF Waited, ExitZeroSound
      <4> QED BY <1>4, <2>2, <4>3, <4>4 DEF Kept
    <3>2. CASE responses = <<>>
      <4>1. /\ pc'[Caller] = "destroy" /\ pc[Caller] = "stopWait"
            /\ UNCHANGED responses
        BY <2>5, <3>2 DEF StopWait, TypeInv, TypeOK
      <4>2. \A c \in Calls : ~Outstanding(c) /\ ~Outstanding(c)'
        BY <3>2, <4>1 DEF Outstanding
      <4>3. StopOrder'
        BY <1>1, <1>2, <2>1, <2>3, <4>1, <4>2, CallFacts DEF StopOrder
      <4>4. Waited' /\ ExitZeroSound'
        BY <1>2, <4>1, <4>2 DEF Waited, ExitZeroSound
      <4> QED BY <1>4, <2>2, <4>3, <4>4 DEF Kept
    <3> QED BY <3>1, <3>2
  <2>6. CASE StopThrow("exited")
    <3>1. /\ pc'[Caller] = "exited" /\ UNCHANGED responses
      BY <2>6 DEF StopThrow, TypeInv, TypeOK
    <3>2. \A c \in Calls : Outstanding(c)' <=> Outstanding(c)
      BY <3>1 DEF Outstanding
    <3>3. StopOrder'
      BY <1>1, <1>2, <2>1, <2>3, <3>1 DEF StopOrder
    <3>4. /\ Crashed
          /\ \A k \in NodeIds : call[StopCall(k)] = "idle" => CrashedUpTo(k)
      <4>1. CASE /\ pc[Caller] = "stopSend"
                 /\ at.node <= NumHosts
                 /\ Throws(StopCall(at.node))
        <5>1. at.node \in NodeIds
          BY <4>1 DEF TypeInv, TypeOK, NodeIds
        <5>2. ~Reachable(at.node) /\ call[StopCall(at.node)] = "idle"
          BY <1>3, <4>1, <5>1, CallFacts DEF Throws, StopOrder, TypeInv, TypeOK
        <5>3. pc[at.node] = "crashed"
          BY <1>3, <5>1, <5>2, OnlyCrashed
        <5>4. \A k \in NodeIds : call[StopCall(k)] = "idle" => at.node <= k
          <6> SUFFICES ASSUME NEW k \in NodeIds, k < at.node
                       PROVE  call[StopCall(k)] # "idle"
            <7>1. at.node \in Nat /\ \A k \in NodeIds : k \in Nat
              BY <5>1
            <7> QED BY <7>1
          <6> QED BY <4>1 DEF StopOrder
        <5> QED BY <5>1, <5>3, <5>4, CrashedNode
      <4>2. CASE /\ pc[Caller] = "stopWait"
                 /\ responses # <<>>
                 /\ Raises(Head(responses))
        <5>1. /\ responses \in Seq(Calls)
              /\ Head(responses) = responses[1] /\ 1 \in 1 .. Len(responses)
              /\ Head(responses) \in Calls
          BY <4>2 DEF TypeInv, TypeOK
        <5>2. Outstanding(Head(responses))
          BY <5>1 DEF Outstanding
        <5> DEFINE m == Head(responses).node
        <5>3. m \in NodeIds /\ Head(responses) = StopCall(m)
          BY <5>1, <5>2, CallFacts DEF Waited
        <5>4. call[Head(responses)] = "failed"
          BY <4>2, <5>1 DEF Raises, CallsMade
        <5>5. \A k \in NodeIds : call[StopCall(k)] # "idle"
          BY <4>2 DEF StopOrder
        <5> HIDE DEF m
        <5> QED BY <2>3, <5>3, <5>4, <5>5, CrashedNode
      <4> QED BY <2>6, <4>1, <4>2 DEF StopThrow
    <3>5. Waited' /\ ExitZeroSound'
      <4>1. /\ Crashed'
            /\ \A k \in NodeIds : call[StopCall(k)] = "idle" => CrashedUpTo(k)'
        BY <1>1, <3>4, CrashedStays
      <4> QED BY <1>2, <1>3, <2>1, <3>1, <3>2, <4>1, CallFacts
              DEF Waited, ExitZeroSound
    <3> QED BY <1>4, <2>2, <3>3, <3>5 DEF Kept
  <2> QED BY <1>6, <2>4, <2>5, <2>6
<1>7. CASE ClientDestroy
  <2>1. /\ UNCHANGED <<call, responses>> /\ marker' = marker \ {1}
        /\ pc[Caller] = "destroy" /\ pc'[Caller] = "exited"
    BY <1>7 DEF ClientDestroy, Goto, TypeInv, TypeOK
  <2>2. \A m \in NodeIds : call[StopCall(m)] = "ok"
    BY <2>1 DEF StopOrder
  <2>3. ServerPhases'
    BY <1>1, <1>2, <2>1 DEF ServerPhases
  <2>4. CallsMade'
    BY <1>1, <1>2, <2>1, CallFacts DEF CallsMade
  <2>5. PingOrder' /\ StopOrder'
    BY <1>1, <1>2, <1>3, <2>1, <2>2 DEF PingOrder, StopOrder
  <2>6. Waited'
    <3>1. \A c \in Calls : Outstanding(c)' <=> Outstanding(c)
      BY <2>1 DEF Outstanding
    <3> QED BY <1>2, <3>1, CallFacts DEF Waited
  <2>7. MarkerShowsServer'
    BY <1>1, <2>1, <2>2 DEF MarkerShowsServer, ServerPhases
  <2>8. ExitZeroSound'
    BY <1>2, <1>3, <2>1, <2>2 DEF ExitZeroSound
  <2> QED BY <1>4, <2>3, <2>4, <2>5, <2>6, <2>7, <2>8 DEF Kept
<1> QED BY <1>5, <1>6, <1>7 DEF StopAllDaemons

\* The invariant holds initially and every step keeps it.
LEMMA PingInvInductive ==
  /\ Init => PingInv
  /\ PingInv /\ [Next]_vars => PingInv'
<1>1. ASSUME Init
      PROVE  PingInv
  <2>1. /\ \A c \in Calls : call[c] = "idle"
        /\ \A p \in Procs : /\ pc[p] = "start" /\ server[p] = "none"
                            /\ stop[p] = "none"
        /\ at.node = 1 /\ responses = <<>>
    BY <1>1 DEF Init, RpcInit
  <2>2. TypeInv
    BY <1>1, TypeInvInductive
  <2>3. ServerPhases /\ ClientPhases /\ CallsMade /\ PingOrder /\ StopOrder
    <3>1. /\ pc[Caller] = "start"
          /\ \A n \in NodeIds :
               /\ pc[n] = "start" /\ server[n] = "none" /\ stop[n] = "none"
               /\ call[Ping(n)] = "idle" /\ call[StopCall(n)] = "idle"
      BY <2>1, ProcFacts, CallFacts
    <3>2. ServerPhases /\ ClientPhases
      BY <3>1 DEF ServerPhases, ClientPhases
    <3>3. CallsMade
      BY <2>1, <3>1, CallFacts DEF CallsMade
    <3>4. PingOrder /\ StopOrder
      BY <2>1, <3>1 DEF PingOrder, StopOrder
    <3> QED BY <3>2, <3>3, <3>4
  <2>4. Waited /\ MarkerShowsServer /\ ExitZeroSound /\ OnePort
    <3>1. \A c \in Calls : ~Outstanding(c)
      BY <2>1 DEF Outstanding
    <3>2. pc[Caller] = "start" /\ \A n \in NodeIds : pc[n] = "start"
      BY <2>1, ProcFacts
    <3>3. \A n \in NodeIds : ~ServerBound(n)
      BY <2>1, ProcFacts DEF ServerBound
    <3> QED BY <3>1, <3>2, <3>3
            DEF Waited, MarkerShowsServer, ExitZeroSound, OnePort
  <2> QED BY <2>2, <2>3, <2>4 DEF PingInv
<1>2. ASSUME PingInv, [Next]_vars
      PROVE  PingInv'
  <2>1. TypeInv'
    BY <1>2, TypeInvInductive DEF PingInv
  <2>2. ASSUME MainStep
        PROVE  Kept'
    BY <1>2, <2>1, <2>2, StartKeeps, PingLoopKeeps, StopKeeps DEF MainStep
  <2>3. ASSUME ServiceStep
        PROVE  Kept'
    BY <1>2, <2>3, HandlersKeep, EnginesKeep DEF ServiceStep
  <2>4. ASSUME UnfairStep
        PROVE  Kept'
    BY <1>2, <2>4, HandlersKeep, EnginesKeep DEF UnfairStep
  <2>5. ASSUME UNCHANGED vars
        PROVE  Kept'
    <3>1. UNCHANGED <<pc, server, client, rpcs, stop, call, responses, at,
                      marker>>
      BY <2>5 DEF vars, rpcVars
    <3>2. /\ \A m \in NodeIds : StopCall(m)' = StopCall(m) /\ Ping(m)' = Ping(m)
          /\ Calls' = Calls /\ Pings' = Pings
      BY DEF StopCall, Ping, Calls, Pings
    <3>3. \A c \in Calls : Outstanding(c)' <=> Outstanding(c)
      BY <3>1 DEF Outstanding
    <3>4. ServerPhases' /\ ClientPhases' /\ CallsMade' /\ PingOrder'
      BY <1>2, <3>1, <3>2, CallFacts
         DEF PingInv, ServerPhases, ClientPhases, CallsMade, PingOrder
    <3>5. StopOrder' /\ Waited'
      BY <1>2, <3>1, <3>2, <3>3, CallFacts DEF PingInv, StopOrder, Waited
    <3>6. MarkerShowsServer' /\ ExitZeroSound' /\ OnePort'
      <4>1. OnePort'
        BY <1>2, <2>5, <3>1, PortKept DEF PingInv, vars, ServerBound, Dead
      <4> QED BY <1>2, <3>1, <3>2, <4>1, CallFacts, CrashedStays
              DEF PingInv, MarkerShowsServer, ExitZeroSound
    <3> QED BY <3>4, <3>5, <3>6 DEF Kept
  <2>6. Kept'
    BY <1>2, <2>2, <2>3, <2>4, <2>5 DEF Next
  <2> QED BY <2>1, <2>6 DEF Kept, PingInv
<1> QED BY <1>1, <1>2

\* The marker of a host without a touchserver is there for as long as its
\* server can be found, whatever the client and the other hosts do.
THEOREM MarkersAreRight == Spec => []MarkerShowsServer
<1>1. Spec => []PingInv
  BY PingInvInductive, PTL DEF Spec
<1>2. PingInv => MarkerShowsServer
  BY DEF PingInv
<1> QED BY <1>1, <1>2, PTL

\* The client's exit status 0 is right: every node has answered its ping; a
\* daemon that was not told to stop has crashed or comes after one that has;
\* and if any daemon did not acknowledge its stop message, one has crashed.
THEOREM ExitStatusIsRight == Spec => []ExitZeroSound
<1>1. Spec => []PingInv
  BY PingInvInductive, PTL DEF Spec
<1>2. PingInv => ExitZeroSound
  BY DEF PingInv
<1> QED BY <1>1, <1>2, PTL
-----------------------------------------------------------------------------
(***************************************************************************)
(* NetPing implements DaemonGroup: every step of the servers, touchservers *)
(* and client is a step of the group of daemons, or none.                  *)
(***************************************************************************)

\* The refinement mapping, variable by variable.
Members == [n \in NodeIds |-> Member(n)]
Asked == {c \in Pings : call[c] # "idle"}
Busy == {c \in Pings : call[c] = "running"}
Served == {c \in Pings : call[c] \in {"replied", "ok"}}
SettledPings == {c \in Pings : call[c] \in {"ok", "failed", "nomatch", "held"}}
Told == {n \in NodeIds : call[StopCall(n)] # "idle"}

Vanishing == FatalHosts \cup CrashHosts \cup TouchHosts

callMap == <<Asked, Busy, Served, SettledPings, Told>>

AbstractStep == Group!GroupNext \/ UNCHANGED Group!groupVars

\* Nothing that the group knows of changes.
LEMMA StutterStep ==
  ASSUME UNCHANGED <<Members, callMap>>
  PROVE  AbstractStep
<1>1. UNCHANGED Group!groupVars
  BY DEF Group!groupVars, Group!rigid, Members, Asked, Busy, Served,
     SettledPings, Told, callMap
<1> QED BY <1>1 DEF AbstractStep

\* A daemon joins, leaves when it was told to, or is gone.
LEMMA MemberStep ==
  ASSUME NEW n \in NodeIds, NEW m,
         \/ Members[n] = "out" /\ m = "in"
         \/ Members[n] = "in" /\ n \in Told /\ m = "leaving"
         \/ /\ Members[n] # "gone" /\ m = "gone"
            /\ \/ Members[n] = "leaving" /\ \A c \in Busy : c.node # n
               \/ n \in Vanishing,
         Members' = [Members EXCEPT ![n] = m],
         UNCHANGED callMap
  PROVE  AbstractStep
<1>1. CASE Members[n] = "out" /\ m = "in"
  <2>1. Group!Join(n)
    BY <1>1 DEF Group!Join, Group!rigid, Members, Asked, Busy, Served,
       SettledPings, Told, callMap
  <2> QED BY <2>1 DEF AbstractStep, Group!GroupNext
<1>2. CASE Members[n] = "in" /\ n \in Told /\ m = "leaving"
  <2>1. Group!Leave(n)
    BY <1>2 DEF Group!Leave, Group!rigid, Members, Asked, Busy, Served,
       SettledPings, Told, callMap
  <2> QED BY <2>1 DEF AbstractStep, Group!GroupNext
<1>3. CASE /\ Members[n] # "gone" /\ m = "gone"
           /\ \/ Members[n] = "leaving" /\ \A c \in Busy : c.node # n
              \/ n \in Vanishing
  <2>1. Group!Depart(n)
    BY <1>3 DEF Group!Depart, Group!rigid, Members, Asked, Busy, Served,
       SettledPings, Told, callMap, NodeOfPing, Vanishing
  <2> QED BY <2>1 DEF AbstractStep, Group!GroupNext
<1> QED BY <1>1, <1>2, <1>3

\* A daemon is told to stop: every ping was answered, by every daemon.
LEMMA TellStep ==
  ASSUME NEW n \in NodeIds,
         Asked = Served, NodeIds = {c.node : c \in Served},
         Told' = Told \cup {n},
         UNCHANGED <<Members, Asked, Busy, Served, SettledPings>>
  PROVE  AbstractStep
<1>1. Group!Tell(n)
  BY DEF Group!Tell, Group!rigid, Members, Asked, Busy, Served, SettledPings,
     Told, NodeOfPing
<1> QED BY <1>1 DEF AbstractStep, Group!GroupNext

\* A ping is sent to a daemon that is not there.
LEMMA AskNobodyStep ==
  ASSUME NEW c \in Pings,
         Told = {}, c \notin Asked, Members[c.node] # "in",
         Asked' = Asked \cup {c}, SettledPings' = SettledPings \cup {c},
         UNCHANGED <<Members, Busy, Served, Told>>
  PROVE  AbstractStep
<1>1. Group!AskNobody(c)
  BY DEF Group!AskNobody, Group!rigid, Members, Asked, Busy, Served,
     SettledPings, Told, NodeOfPing
<1> QED BY <1>1 DEF AbstractStep, Group!GroupNext

\* A ping is sent to a daemon that is there, which begins and answers it.
LEMMA CallStep ==
  ASSUME NEW c \in Pings,
         UNCHANGED <<Members, Told>>,
         \/ /\ Told = {} /\ c \notin Asked /\ Members[c.node] = "in"
            /\ Asked' = Asked \cup {c}
            /\ UNCHANGED <<Busy, Served, SettledPings>>
         \/ /\ c \in Asked \ (Busy \cup Served \cup SettledPings)
            /\ Members[c.node] = "in"
            /\ Busy' = Busy \cup {c}
            /\ UNCHANGED <<Asked, Served, SettledPings>>
         \/ /\ c \in Busy /\ Members[c.node] \in {"in", "leaving"}
            /\ Busy' = Busy \ {c} /\ Served' = Served \cup {c}
            /\ UNCHANGED <<Asked, SettledPings>>
  PROVE  AbstractStep
<1>1. Group!Ask(c) \/ Group!Begin(c) \/ Group!Serve(c)
  BY DEF Group!Ask, Group!Begin, Group!Serve, Group!rigid, Members, Asked,
     Busy, Served, SettledPings, Told, NodeOfPing
<1> QED BY <1>1 DEF AbstractStep, Group!GroupNext

\* The client learns the outcome of a ping.
LEMMA SettleStep ==
  ASSUME NEW c \in Pings,
         c \in Asked \ SettledPings,
         c \in Served \/ Members[c.node] \in {"leaving", "gone"},
         SettledPings' = SettledPings \cup {c},
         Busy' = Busy \ {c},
         UNCHANGED <<Members, Asked, Served, Told>>
  PROVE  AbstractStep
<1>1. Group!Settle(c)
  BY DEF Group!Settle, Group!rigid, Members, Asked, Busy, Served,
     SettledPings, Told, NodeOfPing
<1> QED BY <1>1 DEF AbstractStep, Group!GroupNext
-----------------------------------------------------------------------------
\* What a call that moves means for the group.
LEMMA CallMoves ==
  ASSUME TypeOK, NEW c \in Calls, NEW s \in PingStatus \ {"idle"},
         call' = [call EXCEPT ![c] = s]
  PROVE  /\ c \in Pings =>
              /\ Told' = Told
              /\ Asked' = Asked \cup {c}
              /\ Busy' = IF s = "running" THEN Busy \cup {c} ELSE Busy \ {c}
              /\ Served' = IF s \in {"replied", "ok"} THEN Served \cup {c}
                           ELSE Served \ {c}
              /\ SettledPings' = IF s \in {"ok", "failed", "nomatch", "held"}
                                 THEN SettledPings \cup {c}
                                 ELSE SettledPings \ {c}
         /\ c \notin Pings =>
              /\ UNCHANGED <<Asked, Busy, Served, SettledPings>>
              /\ Told' = Told \cup {n \in NodeIds : StopCall(n) = c}
<1>1. call'[c] = s /\ \A d \in Calls : d # c => call'[d] = call[d]
  BY CallMade
<1>2. Pings' = Pings /\ \A n \in NodeIds : StopCall(n)' = StopCall(n)
  BY DEF Pings, Ping, StopCall
<1>3. ASSUME c \in Pings
      PROVE  /\ Told' = Told
             /\ Asked' = Asked \cup {c}
             /\ Busy' = IF s = "running" THEN Busy \cup {c} ELSE Busy \ {c}
             /\ Served' = IF s \in {"replied", "ok"} THEN Served \cup {c}
                          ELSE Served \ {c}
             /\ SettledPings' = IF s \in {"ok", "failed", "nomatch", "held"}
                                THEN SettledPings \cup {c}
                                ELSE SettledPings \ {c}
  <2>1. \A n \in NodeIds : call'[StopCall(n)] = call[StopCall(n)]
    BY <1>1, <1>3, CallFacts
  <2>2. Told' = Told
    BY <1>2, <2>1 DEF Told
  <2>3. \A d \in Pings : call'[d] = IF d = c THEN s ELSE call[d]
    BY <1>1, CallFacts
  <2>4. Asked' = Asked \cup {c}
    BY <1>2, <1>3, <2>3 DEF Asked
  <2>5. Busy' = IF s = "running" THEN Busy \cup {c} ELSE Busy \ {c}
    BY <1>2, <1>3, <2>3 DEF Busy
  <2>6. Served' = IF s \in {"replied", "ok"} THEN Served \cup {c}
                  ELSE Served \ {c}
    BY <1>2, <1>3, <2>3 DEF Served
  <2>7. SettledPings' = IF s \in {"ok", "failed", "nomatch", "held"}
                        THEN SettledPings \cup {c} ELSE SettledPings \ {c}
    BY <1>2, <1>3, <2>3 DEF SettledPings
  <2> QED BY <2>2, <2>4, <2>5, <2>6, <2>7
<1>4. ASSUME c \notin Pings
      PROVE  /\ UNCHANGED <<Asked, Busy, Served, SettledPings>>
             /\ Told' = Told \cup {n \in NodeIds : StopCall(n) = c}
  <2>1. \A d \in Pings : call'[d] = call[d]
    BY <1>1, <1>4, CallFacts
  <2>2. UNCHANGED <<Asked, Busy, Served, SettledPings>>
    BY <1>2, <2>1 DEF Asked, Busy, Served, SettledPings
  <2>3. \A n \in NodeIds :
          call'[StopCall(n)] = IF StopCall(n) = c THEN s
                               ELSE call[StopCall(n)]
    BY <1>1, CallFacts
  <2>4. Told' = Told \cup {n \in NodeIds : StopCall(n) = c}
    BY <1>2, <2>3 DEF Told
  <2> QED BY <2>2, <2>4
<1> QED BY <1>3, <1>4

\* The calls of the group depend on call only, its members on pc and server.
LEMMA MapKept ==
  /\ UNCHANGED call => UNCHANGED callMap
  /\ (\A n \in NodeIds : pc'[n] = pc[n] /\ server'[n] = server[n]) =>
       UNCHANGED Members
<1>1. Pings' = Pings /\ \A n \in NodeIds : StopCall(n)' = StopCall(n)
  BY DEF Pings, Ping, StopCall
<1>2. UNCHANGED call => UNCHANGED callMap
  BY <1>1 DEF callMap, Asked, Busy, Served, SettledPings, Told
<1>3. ASSUME \A n \in NodeIds : pc'[n] = pc[n] /\ server'[n] = server[n]
      PROVE  UNCHANGED Members
  <2>1. \A n \in NodeIds : Member(n)' = Member(n)
    BY <1>3 DEF Member, Dead
  <2> QED BY <2>1 DEF Members
<1> QED BY <1>2, <1>3

\* One server that changes.
LEMMA MemberTurns ==
  ASSUME NEW n \in NodeIds, NEW m,
         \A q \in NodeIds \ {n} : pc'[q] = pc[q] /\ server'[q] = server[q],
         Member(n)' = m
  PROVE  Members' = [Members EXCEPT ![n] = m]
<1>1. \A q \in NodeIds \ {n} : Member(q)' = Member(q)
  BY DEF Member, Dead
<1> QED BY <1>1 DEF Members

\* What a member is.
LEMMA MemberFacts ==
  ASSUME NEW n \in NodeIds
  PROVE  /\ Members[n] = Member(n)
         /\ Dead(n) <=> Member(n) = "gone"
         /\ ~Dead(n) /\ server[n] = "none" => Member(n) = "out"
         /\ ~Dead(n) /\ server[n] = "up" => Member(n) = "in"
         /\ ~Dead(n) /\ server[n] \notin {"none", "up"} =>
              Member(n) = "leaving"
  BY DEF Members, Member
-----------------------------------------------------------------------------
\* The start-up of a server: it joins the group, or is gone.
LEMMA StartRefines ==
  ASSUME PingInv,
         \/ \E n \in NodeIds : ServerDestroy(n) \/ ServerInit(n)
                               \/ ServerMark(n)
         \/ \E n \in TouchHosts : TouchStep(n)
  PROVE  AbstractStep
<1> USE ProcFacts DEF PingInv, TypeInv, TypeOK
<1>1. UNCHANGED callMap
  <2>1. UNCHANGED call
    BY TouchKeeps DEF ServerDestroy, ServerInit, ServerMark, rpcVars
  <2> QED BY <2>1, MapKept
<1>2. ASSUME NEW n \in NodeIds, n \in FatalHosts \/ n \in TouchHosts,
             ~Dead(n), pc' = [pc EXCEPT ![n] = "aborted"], UNCHANGED server
      PROVE  AbstractStep
  <2>1. Member(n)' = "gone"
    BY <1>2 DEF Member, Dead
  <2>2. Members' = [Members EXCEPT ![n] = "gone"]
    BY <1>2, <2>1, MemberTurns
  <2>3. Members[n] # "gone" /\ n \in Vanishing
    BY <1>2, MemberFacts DEF Vanishing
  <2> QED BY <1>1, <2>2, <2>3, MemberStep
<1>3. ASSUME UNCHANGED server,
             \/ UNCHANGED pc
             \/ \E n \in NodeIds, l \in {"init", "daemon"} :
                  ~Dead(n) /\ pc' = [pc EXCEPT ![n] = l]
      PROVE  AbstractStep
  <2>1. \A q \in NodeIds : Dead(q)' = Dead(q) /\ server'[q] = server[q]
    BY <1>3 DEF Dead
  <2>2. \A q \in NodeIds : Member(q)' = Member(q)
    BY <2>1 DEF Member
  <2>3. UNCHANGED Members
    BY <2>2 DEF Members
  <2> QED BY <1>1, <2>3, StutterStep
<1>4. ASSUME NEW n \in NodeIds, ServerDestroy(n)
      PROVE  AbstractStep
  BY <1>2, <1>3, <1>4 DEF ServerDestroy, Goto, Dead
<1>5. ASSUME NEW n \in NodeIds, ServerMark(n)
      PROVE  AbstractStep
  BY <1>3, <1>5 DEF ServerMark, Goto, Dead
<1>6. ASSUME NEW n \in TouchHosts, TouchStep(n)
      PROVE  AbstractStep
  BY <1>3, <1>6, TouchKeeps DEF rpcVars
<1>7. ASSUME NEW n \in NodeIds, ServerInit(n)
      PROVE  AbstractStep
  <2>1. CASE pc' = [pc EXCEPT ![n] = "aborted"] /\ UNCHANGED server
    <3>1. n \in FatalHosts \/ n \in TouchHosts
      BY <1>7, <2>1 DEF ServerInit, Goto, TouchBound
    <3> QED BY <1>2, <1>7, <2>1, <3>1 DEF ServerInit, Dead
  <2>2. CASE /\ pc' = [pc EXCEPT ![n] = "mark"]
             /\ server' = [server EXCEPT ![n] = "up"]
    <3>1. /\ pc[n] = "init" /\ pc' = [pc EXCEPT ![n] = "mark"]
          /\ server' = [server EXCEPT ![n] = "up"]
      BY <1>7, <2>2 DEF ServerInit
    <3>2. Member(n)' = "in"
      BY <3>1 DEF Member, Dead
    <3>3. Members' = [Members EXCEPT ![n] = "in"]
      BY <3>1, <3>2, MemberTurns
    <3>4. Members[n] = "out"
      BY <3>1, MemberFacts DEF Dead, ServerPhases
    <3> QED BY <1>1, <3>3, <3>4, MemberStep
  <2> QED BY <1>7, <2>1, <2>2 DEF ServerInit, Goto
<1> QED BY <1>4, <1>5, <1>6, <1>7

\* The client pings, and only then tells the daemons to stop.
LEMMA ClientRefines ==
  ASSUME PingInv,
         \/ ClientInit \/ PingIssue \/ PingReturn \/ PingFails \/ PingDone
         \/ StopAllDaemons \/ ClientDestroy
  PROVE  AbstractStep
<1> USE ProcFacts DEF PingInv
<1>1. UNCHANGED Members
  <2>1. /\ UNCHANGED server
        /\ UNCHANGED pc \/ \E l : pc' = [pc EXCEPT ![Caller] = l]
    <3>1. CASE ClientInit \/ PingIssue \/ PingReturn \/ PingFails \/ PingDone
               \/ ClientDestroy
      BY <3>1 DEF ClientInit, PingIssue, PingReturn, PingFails, PingDone,
         ClientDestroy, Goto, TypeInv, TypeOK
    <3>2. CASE StopAllDaemons
      BY <3>2 DEF StopAllDaemons, StopSend, StopSendToTouch, StopSent,
         StopWait, StopThrow
    <3> QED BY <3>1, <3>2
  <2>2. \A n \in NodeIds : pc'[n] = pc[n] /\ server'[n] = server[n]
    BY <2>1 DEF TypeInv, TypeOK
  <2> QED BY <2>2, MapKept
<1>2. CASE PingIssue
  <2> DEFINE n == at.node
  <2>1. /\ n \in NodeIds /\ pc[Caller] = "issue"
        /\ \/ call' = [call EXCEPT ![Ping(n)] = "queued"] /\ Reachable(n)
           \/ call' = [call EXCEPT ![Ping(n)] = "held"] /\ TouchBound(n)
    <3>1. n \in NodeIds
      BY <1>2 DEF PingIssue, More, NodeIds, TypeInv, TypeOK
    <3> QED BY <1>2, <3>1, CallFacts DEF PingIssue, Sends, SendsToTouch, Cur
  <2>2. call[Ping(n)] = "idle"
    <3>1. n = at.node
      OBVIOUS
    <3> HIDE DEF n
    <3> QED BY <2>1, <3>1 DEF PingOrder
  <2> HIDE DEF n
  <2>3. \A m \in NodeIds : call[StopCall(m)] = "idle"
    BY <2>1 DEF StopOrder
  <2>4. /\ Reachable(n) => server[n] = "up" /\ ~Dead(n)
        /\ TouchBound(n) => ~(server[n] = "up" /\ ~Dead(n))
    BY <2>1, <2>3 DEF Reachable, ServerPhases, OnePort, ServerBound
  <2>5. Told = {} /\ \A S \in {Asked, Busy, Served, SettledPings} : Ping(n) \notin S
    <3>1. Told = {}
      BY <2>3 DEF Told
    <3>2. Ping(n) \notin Asked /\ Ping(n) \notin Busy
      BY <2>2 DEF Asked, Busy
    <3>3. Ping(n) \notin Served /\ Ping(n) \notin SettledPings
      BY <2>2 DEF Served, SettledPings
    <3> QED BY <3>1, <3>2, <3>3
  <2>6. Ping(n) \in Pings /\ Ping(n) \in Calls /\ Ping(n).node = n
    BY <2>1, CallFacts
  <2>7. PICK s \in {"queued", "held"} :
          /\ call' = [call EXCEPT ![Ping(n)] = s]
          /\ s = "queued" => Reachable(n)
          /\ s = "held" => TouchBound(n)
    BY <2>1
  <2>8. /\ Told' = Told /\ Asked' = Asked \cup {Ping(n)}
        /\ Busy' = Busy \ {Ping(n)} /\ Served' = Served \ {Ping(n)}
        /\ SettledPings' = IF s = "held" THEN SettledPings \cup {Ping(n)}
                                         ELSE SettledPings \ {Ping(n)}
    <3>1. TypeOK /\ s \in PingStatus \ {"idle"}
      BY DEF TypeInv, Status, PingStatus
    <3> QED BY <2>6, <2>7, <3>1, CallMoves
  <2>9. UNCHANGED <<Busy, Served>>
    BY <2>5, <2>8
  <2>10. CASE s = "queued"
    <3>1. Members[Ping(n).node] = "in"
      BY <2>1, <2>4, <2>6, <2>7, <2>10, MemberFacts
    <3>2. UNCHANGED SettledPings
      BY <2>5, <2>8, <2>10
    <3> QED BY <1>1, <2>5, <2>6, <2>8, <2>9, <3>1, <3>2, CallStep
  <2>11. CASE s = "held"
    <3>1. ~(server[n] = "up" /\ ~Dead(n))
      BY <2>4, <2>7, <2>11
    <3>2. Members[Ping(n).node] # "in"
      BY <2>1, <2>6, <3>1, MemberFacts DEF Member
    <3>3. SettledPings' = SettledPings \cup {Ping(n)}
      BY <2>8, <2>11
    <3> QED BY <1>1, <2>5, <2>6, <2>8, <2>9, <3>2, <3>3, AskNobodyStep
  <2> QED BY <2>10, <2>11
<1>3. CASE StopSend \/ StopSendToTouch
  <2> DEFINE n == at.node
  <2>1. /\ n \in NodeIds /\ pc[Caller] = "stopSend"
        /\ \E s \in {"queued", "failed", "held"} :
             call' = [call EXCEPT ![StopCall(n)] = s]
    <3>1. n \in NodeIds
      BY <1>3 DEF StopSend, StopSendToTouch, More, NodeIds, TypeInv, TypeOK
    <3>2. CASE StopSend
      BY <3>1, <3>2 DEF StopSend, Sends, FailsLater
    <3>3. CASE StopSendToTouch
      BY <3>1, <3>3 DEF StopSendToTouch, SendsToTouch
    <3> QED BY <1>3, <3>2, <3>3
  <2> HIDE DEF n
  <2>2. \A m \in NodeIds : call[Ping(m)] = "ok"
    BY <2>1 DEF PingOrder
  <2>3. \A c \in Pings : c.node \in NodeIds /\ call[c] = "ok"
    <3>1. \A c \in Pings : c.node \in NodeIds /\ c = Ping(c.node)
      BY CallFacts
    <3> QED BY <2>2, <3>1
  <2>4. Asked = Served
    BY <2>3 DEF Asked, Served
  <2>5. NodeIds = {c.node : c \in Served}
    <3>1. \A m \in NodeIds : Ping(m) \in Served /\ Ping(m).node = m
      <4>1. \A m \in NodeIds : Ping(m) \in Pings /\ Ping(m).node = m
        BY CallFacts
      <4> QED BY <2>2, <4>1 DEF Served
    <3>2. \A c \in Served : c.node \in NodeIds
      BY <2>3 DEF Served
    <3> QED BY <3>1, <3>2
  <2>6. /\ UNCHANGED <<Asked, Busy, Served, SettledPings>>
        /\ Told' = Told \cup {m \in NodeIds : StopCall(m) = StopCall(n)}
    <3>1. StopCall(n) \in Calls /\ StopCall(n) \notin Pings
      BY <2>1, CallFacts
    <3>2. TypeOK /\ {"queued", "failed", "held"} \subseteq PingStatus \ {"idle"}
      BY DEF TypeInv, Status, PingStatus
    <3> QED BY <2>1, <3>1, <3>2, CallMoves
  <2>7. {m \in NodeIds : StopCall(m) = StopCall(n)} = {n}
    <3>1. \A m \in NodeIds : StopCall(m).node = m
      BY CallFacts
    <3> QED BY <2>1, <3>1
  <2> QED BY <1>1, <2>1, <2>4, <2>5, <2>6, <2>7, TellStep
<1>4. CASE \/ ClientInit \/ PingReturn \/ PingFails \/ PingDone
           \/ ClientDestroy
           \/ StopSent \/ StopWait("destroy") \/ StopThrow("exited")
  <2>1. UNCHANGED call
    BY <1>4 DEF ClientInit, PingReturn, PingFails, PingDone, ClientDestroy,
       StopSent, StopWait, StopThrow
  <2> QED BY <1>1, <2>1, MapKept, StutterStep
<1> QED BY <1>2, <1>3, <1>4 DEF StopAllDaemons

\* The servers begin and answer pings, and the client learns the outcome.
LEMMA HandlersRefine ==
  ASSUME PingInv, NEW c \in Calls,
         \/ Dispatch(c) \/ RpcPing(c) \/ RpcStopDaemon(c) \/ Receive(c)
         \/ Disconnect(c) \/ TouchDisconnect(c)
  PROVE  AbstractStep
<1> USE ProcFacts DEF PingInv, TypeInv
<1> DEFINE n == c.node
           Moves(s) ==
             /\ call' = [call EXCEPT ![c] = s]
             /\ s = "running" =>
                  /\ call[c] = "queued" /\ ~Dead(n) /\ server[n] = "up"
             /\ s = "replied" => call[c] = "running" /\ ~Dead(n)
             /\ s = "ok" => call[c] = "replied"
             /\ s = "failed" =>
                  \/ call[c] = "held"
                  \/ call[c] \in {"queued", "running"} /\ ~Reachable(n)
<1>1. n \in NodeIds /\ UNCHANGED <<pc, server>>
  BY CallFacts DEF Dispatch, RpcPing, RpcStopDaemon, Receive, Disconnect,
     TouchDisconnect
<1>2. UNCHANGED Members
  BY <1>1, MapKept
<1>3. \E s \in {"running", "replied", "ok", "failed"} : Moves(s)
  <2>1. /\ call[c] # "pulled"
        /\ call[c] # "idle" => c \in Pings \/ c = StopCall(n)
    BY DEF CallsMade
  <2>2. CASE Dispatch(c)
    <3>1. c.rpc \in {"RpcPing", "RpcStopDaemon"}
      <4>1. c = Ping(n) \/ c = StopCall(n)
        BY <2>1, <2>2, CallFacts DEF Dispatch
      <4> QED BY <4>1 DEF Ping, StopCall
    <3>2. rpcs[n] = {"RpcStopDaemon", "RpcPing"}
      BY <1>1, <2>2 DEF Dispatch, ServerPhases
    <3>3. Moves("running")
      <4>1. c.rpc \in rpcs[n]
        BY <3>1, <3>2
      <4>2. call' = [call EXCEPT ![c] = "running"]
        BY <2>2, <4>1 DEF Dispatch
      <4>3. call[c] = "queued" /\ ~Dead(n) /\ server[n] = "up"
        BY <2>2 DEF Dispatch, Progresses, Dead
      <4> QED BY <4>2, <4>3
    <3> QED BY <3>3
  <2>3. CASE RpcPing(c) \/ RpcStopDaemon(c)
    <3>1. Moves("replied")
      BY <2>3 DEF RpcPing, RpcStopDaemon, Works
    <3> QED BY <3>1
  <2>4. CASE Receive(c)
    <3>1. Moves("ok")
      BY <2>4 DEF Receive
    <3> QED BY <3>1
  <2>5. CASE Disconnect(c) \/ TouchDisconnect(c)
    <3>1. Moves("failed")
      BY <2>1, <2>5 DEF Disconnect, TouchDisconnect
    <3> QED BY <3>1
  <2> QED BY <2>2, <2>3, <2>4, <2>5
<1>4. PICK s \in {"running", "replied", "ok", "failed"} : Moves(s)
  BY <1>3
<1>5. call' = [call EXCEPT ![c] = s] /\ call[c] # "idle"
      /\ s \in PingStatus \ {"idle"}
  BY <1>4 DEF Status, PingStatus
<1>6. CASE c \notin Pings
  <2>1. /\ UNCHANGED <<Asked, Busy, Served, SettledPings>>
        /\ Told' = Told \cup {m \in NodeIds : StopCall(m) = c}
    BY <1>5, <1>6, CallMoves
  <2>2. {m \in NodeIds : StopCall(m) = c} \subseteq Told
    BY <1>5 DEF Told
  <2>3. Told' = Told
    BY <2>1, <2>2
  <2> QED BY <1>2, <2>1, <2>3, StutterStep DEF callMap
<1>7. CASE c \in Pings
  <2>1. /\ Told' = Told
        /\ Asked' = Asked \cup {c}
        /\ Busy' = IF s = "running" THEN Busy \cup {c} ELSE Busy \ {c}
        /\ Served' = IF s \in {"replied", "ok"} THEN Served \cup {c}
                     ELSE Served \ {c}
        /\ SettledPings' = IF s \in {"ok", "failed", "nomatch", "held"}
                           THEN SettledPings \cup {c}
                           ELSE SettledPings \ {c}
    BY <1>5, <1>7, CallMoves
  <2>2. c \in Asked /\ Asked' = Asked
    BY <1>5, <1>7, <2>1 DEF Asked
  <2>3. CASE s = "running"
    <3>1. c \notin Busy /\ c \notin Served /\ c \notin SettledPings
      BY <1>4, <2>3 DEF Busy, Served, SettledPings
    <3>2. Members[n] = "in"
      BY <1>1, <1>4, <2>3, MemberFacts
    <3>3. Busy' = Busy \cup {c} /\ Served' = Served \ {c}
          /\ SettledPings' = SettledPings \ {c}
      BY <2>1, <2>3
    <3>4. UNCHANGED <<Asked, Served, SettledPings>>
      BY <2>2, <3>1, <3>3
    <3> QED BY <1>2, <1>7, <2>1, <2>2, <3>1, <3>2, <3>3, <3>4, CallStep
  <2>4. CASE s = "replied"
    <3>1. c \in Busy /\ c \notin SettledPings
      BY <1>4, <1>7, <2>4 DEF Busy, SettledPings
    <3>2. server[n] # "none" /\ ~Dead(n)
      BY <1>4, <2>4 DEF CallsMade
    <3>3. Members[n] \in {"in", "leaving"}
      BY <1>1, <3>2, MemberFacts
    <3>4. Busy' = Busy \ {c} /\ Served' = Served \cup {c}
          /\ SettledPings' = SettledPings \ {c}
      BY <2>1, <2>4
    <3>5. UNCHANGED <<Asked, SettledPings>>
      BY <2>2, <3>1, <3>4
    <3> QED BY <1>2, <1>7, <2>1, <3>1, <3>3, <3>4, <3>5, CallStep
  <2>5. CASE s = "ok"
    <3>1. c \in Served /\ c \notin SettledPings
      BY <1>4, <1>7, <2>5 DEF Served, SettledPings
    <3>2. Busy' = Busy \ {c} /\ Served' = Served \cup {c}
          /\ SettledPings' = SettledPings \cup {c}
      BY <2>1, <2>5
    <3>3. UNCHANGED <<Asked, Served>>
      BY <2>2, <3>1, <3>2
    <3> QED BY <1>2, <1>7, <2>1, <2>2, <3>1, <3>2, <3>3, SettleStep
  <2>6. CASE s = "failed" /\ call[c] = "held"
    <3>1. c \notin Busy /\ c \notin Served /\ c \in SettledPings
      BY <1>7, <2>6 DEF Busy, Served, SettledPings
    <3>2. Busy' = Busy \ {c} /\ Served' = Served \ {c}
          /\ SettledPings' = SettledPings \cup {c}
      BY <2>1, <2>6
    <3>3. UNCHANGED callMap
      BY <2>1, <2>2, <3>1, <3>2 DEF callMap
    <3> QED BY <1>2, <3>3, StutterStep
  <2>7. CASE s = "failed" /\ call[c] # "held"
    <3>1. c \notin Served /\ c \notin SettledPings
      BY <1>4, <2>7 DEF Served, SettledPings
    <3>2. server[n] # "none" /\ ~Reachable(n)
      BY <1>4, <2>7 DEF CallsMade
    <3>3. Members[n] \in {"leaving", "gone"}
      BY <1>1, <3>2, MemberFacts DEF Reachable
    <3>4. Busy' = Busy \ {c} /\ Served' = Served \ {c}
          /\ SettledPings' = SettledPings \cup {c}
      BY <2>1, <2>7
    <3>5. UNCHANGED <<Asked, Served>>
      BY <2>2, <3>1, <3>4
    <3> QED BY <1>2, <1>7, <2>1, <2>2, <3>1, <3>3, <3>4, <3>5, SettleStep
  <2> QED BY <1>4, <2>3, <2>4, <2>5, <2>6, <2>7
<1> QED BY <1>6, <1>7

\* A daemon that was told to stop takes its engines down and departs.
LEMMA EnginesRefine ==
  ASSUME PingInv, NEW n \in NodeIds,
         \/ FinalizeClient(n) \/ FinalizeServer(n) \/ CloseServer(n)
         \/ RunDaemon(n) \/ Crash(n)
  PROVE  AbstractStep
<1> USE ProcFacts DEF PingInv, TypeInv, TypeOK
<1>1. UNCHANGED callMap
  BY MapKept DEF FinalizeClient, FinalizeServer, CloseServer, RunDaemon, Crash
<1>2. CASE FinalizeClient(n)
  <2>1. UNCHANGED Members
    BY <1>2, MapKept DEF FinalizeClient
  <2> QED BY <1>1, <2>1, StutterStep
<1>3. CASE FinalizeServer(n)
  <2>1. /\ stop[n] = "clientDown" /\ ~Dead(n) /\ UNCHANGED pc
        /\ server' = [server EXCEPT ![n] = "closing"]
    BY <1>3 DEF FinalizeServer, Works
  <2>2. Member(n)' = "leaving"
    BY <2>1 DEF Member, Dead
  <2>3. Members' = [Members EXCEPT ![n] = "leaving"]
    BY <2>1, <2>2, MemberTurns
  <2>4. call[StopCall(n)] \in {"replied", "ok"}
    BY <2>1 DEF ServerPhases
  <2>5. server[n] # "none"
    BY <2>4, CallFacts DEF CallsMade
  <2>6. n \in Told
    BY <2>4 DEF Told
  <2>7. CASE server[n] = "up"
    <3>1. Members[n] = "in"
      BY <2>1, <2>7, MemberFacts
    <3> QED BY <1>1, <2>3, <2>6, <3>1, MemberStep
  <2>8. CASE server[n] # "up"
    <3>1. Members[n] = "leaving"
      BY <2>1, <2>5, <2>8, MemberFacts
    <3>2. UNCHANGED Members
      BY <2>3, <3>1 DEF Members
    <3> QED BY <1>1, <3>2, StutterStep
  <2> QED BY <2>7, <2>8
<1>4. CASE CloseServer(n)
  <2>1. /\ server[n] = "closing" /\ UNCHANGED pc
        /\ server' = [server EXCEPT ![n] = "down"]
    BY <1>4 DEF CloseServer
  <2>2. \A q \in NodeIds : Member(q)' = Member(q)
    BY <2>1 DEF Member, Dead
  <2>3. UNCHANGED Members
    BY <2>2 DEF Members
  <2> QED BY <1>1, <2>3, StutterStep
<1>5. CASE RunDaemon(n)
  <2>1. /\ ~Dead(n) /\ server[n] = "down" /\ UNCHANGED server
        /\ pc' = [pc EXCEPT ![n] = "exited"]
    BY <1>5 DEF RunDaemon, Dead
  <2>2. Member(n)' = "gone"
    BY <2>1 DEF Member, Dead
  <2>3. Members' = [Members EXCEPT ![n] = "gone"]
    BY <2>1, <2>2, MemberTurns
  <2>4. Members[n] = "leaving" /\ Members[n] # "gone"
    BY <2>1, MemberFacts
  <2>5. \A c \in Busy : c.node # n
    BY <2>1, CallFacts DEF CallsMade, Busy
  <2> QED BY <1>1, <2>3, <2>4, <2>5, MemberStep
<1>6. CASE Crash(n)
  <2>1. /\ n \in CrashHosts /\ ~Dead(n) /\ UNCHANGED server
        /\ pc' = [pc EXCEPT ![n] = "crashed"]
    BY <1>6 DEF Crash
  <2>2. Member(n)' = "gone"
    BY <2>1 DEF Member, Dead
  <2>3. Members' = [Members EXCEPT ![n] = "gone"]
    BY <2>1, <2>2, MemberTurns
  <2>4. Members[n] # "gone" /\ n \in Vanishing
    BY <2>1, MemberFacts DEF Vanishing
  <2> QED BY <1>1, <2>3, <2>4, MemberStep
<1> QED BY <1>2, <1>3, <1>4, <1>5, <1>6

\* The initial states are initial states of the group.
LEMMA GroupInitially == Init => Group!GroupInit
<1> SUFFICES ASSUME Init
             PROVE  Group!GroupInit
  OBVIOUS
<1>1. \A n \in NodeIds : pc[n] = "start" /\ server[n] = "none"
  BY ProcFacts DEF Init, RpcInit
<1>2. /\ \A c \in Pings : call[c] = "idle"
      /\ \A n \in NodeIds : call[StopCall(n)] = "idle"
  BY CallFacts DEF Init, RpcInit
<1>3. \A n \in NodeIds : Member(n) = "out"
  BY <1>1 DEF Member, Dead
<1>4. Members = [n \in NodeIds |-> "out"]
  BY <1>3 DEF Members
<1>5. /\ Asked = {} /\ Busy = {} /\ Served = {} /\ SettledPings = {}
      /\ Told = {}
  BY <1>2 DEF Asked, Busy, Served, SettledPings, Told
<1>6. Vanishing \subseteq NodeIds
  BY RpcAssumption, PingAssumption DEF Vanishing, NodeIds
<1> QED BY <1>4, <1>5, <1>6
        DEF Group!GroupInit, Members, Asked, Busy, Served, SettledPings, Told,
            Vanishing

\* Whatever the faults and the number of hosts, the servers that chi_net_ping
\* tests are a DaemonGroup with a thorough caller: none is told to stop before
\* every one of them has answered, and none that is alive leaves untold.
THEOREM PingIsDaemonGroup == Spec => ImplementsDaemonGroup
<1>1. Spec => []PingInv
  BY PingInvInductive, PTL DEF Spec
<1>2. PingInv /\ [Next]_vars => [Group!GroupNext]_(Group!groupVars)
  <2> SUFFICES ASSUME PingInv, [Next]_vars
               PROVE  AbstractStep
    BY DEF AbstractStep
  <2>1. CASE UNCHANGED vars
    BY <2>1, MapKept, StutterStep DEF vars, rpcVars
  <2> QED BY <2>1, StartRefines, ClientRefines, HandlersRefine, EnginesRefine
          DEF Next, MainStep, ServiceStep, UnfairStep
<1> QED BY <1>1, <1>2, GroupInitially, PTL
        DEF Spec, ImplementsDaemonGroup, Group!GroupSpec
=============================================================================
