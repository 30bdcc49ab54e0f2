-------------------------- MODULE NetBench_proofs --------------------------
(***************************************************************************)
(* Theorems about NetBench for any number of hosts, repetitions, worker    *)
(* threads and bytes, and any fault hosts: the life of the daemons, what   *)
(* the loops of the tests and of StopAllDaemons have done when they end,   *)
(* and that NetBench implements DaemonGroup.                               *)
(***************************************************************************)
EXTENDS NetBench, FiniteSetTheorems, TLAPS

\* The iteration a blocked or returning call belongs to is inside the loops.
InLoop == pc[Caller] \in {"await", "return"} => More

TypeInv == TypeOK /\ InLoop

\* Node 1 is one of the nodes: the processes of the benchmark are its hosts.
LEMMA ProcFacts == Procs = NodeIds /\ Caller \in Procs /\ Caller \in NodeIds
  BY RpcAssumption, BenchAssumption DEF Procs, NodeIds

\* A stop message is a call, and no test call.
LEMMA StopCallFacts ==
  \A n \in NodeIds : /\ StopCall(n) \in Calls
                     /\ StopCall(n).rpc = "RpcStopDaemon"
                     /\ StopCall(n).node = n
                     /\ StopCall(n).rep = 0
  BY RpcAssumption DEF StopCall, Calls, RpcNames

\* The current call of an iteration is one of the test's calls.
LEMMA CurFacts ==
  ASSUME TypeOK, More
  PROVE  /\ Cur \in TestCalls
         /\ Cur \in Calls
         /\ Cur.rpc = (IF IsIo THEN "RpcTaskSubmit" ELSE "RpcPing")
         /\ at.node \in NodeIds
  BY RpcAssumption DEF TypeOK, More, Cur, TestCalls, Calls, RpcNames, NodeIds

\* The loop variables stay in bounds when an iteration ends.
LEMMA AdvanceType ==
  ASSUME TypeOK, More, Advance
  PROVE  at' \in [node : 1 .. NumHosts + 1, rep : 0 .. Rep]
<1> USE RpcAssumption DEF TypeOK
<1>1. at.node \in 1 .. NumHosts /\ at.rep \in 0 .. Rep
  BY DEF More
<1>2. CASE at.rep + 1 < R
  <2>1. at' = [at EXCEPT !.rep = at.rep + 1]
    BY <1>2 DEF Advance
  <2>2. at.rep + 1 \in 0 .. Rep
    BY <1>1, <1>2 DEF R
  <2> QED BY <2>1, <2>2
<1>3. CASE ~(at.rep + 1 < R)
  <2>1. at' = [node |-> at.node + 1, rep |-> 0]
    BY <1>3 DEF Advance
  <2> QED BY <2>1, <1>1
<1> QED BY <1>2, <1>3

\* StopAllDaemons starts with loop variables of its own.
LEMMA EndTestType ==
  ASSUME TypeOK, EndTest
  PROVE  /\ at' \in [node : 1 .. NumHosts + 1, rep : 0 .. Rep]
         /\ responses' = <<>>
         /\ responses' \in Seq(Calls)
         /\ pc' = [pc EXCEPT ![Caller] = "stopSend"]
<1>1. 1 \in 1 .. NumHosts + 1 /\ 0 \in 0 .. Rep
  BY RpcAssumption
<1>2. at' = [node |-> 1, rep |-> 0]
  BY DEF EndTest
<1>3. at' \in [node : 1 .. NumHosts + 1, rep : 0 .. Rep]
  BY <1>1, <1>2
<1> QED BY <1>3 DEF EndTest, Goto

\* The end of a test keeps the types.
LEMMA EndTestKeeps ==
  ASSUME TypeInv, EndTest,
         UNCHANGED <<server, client, rpcs, stop, call, bulks, test, count>>
  PROVE  TypeInv'
<1>1. TypeOK
  BY DEF TypeInv
<1>2. /\ at' \in [node : 1 .. NumHosts + 1, rep : 0 .. Rep]
      /\ responses' \in Seq(Calls)
      /\ pc' = [pc EXCEPT ![Caller] = "stopSend"]
  BY <1>1, EndTestType
<1>3. pc' \in [Procs -> MainLabels] /\ pc'[Caller] = "stopSend"
  BY <1>1, <1>2, ProcFacts DEF TypeOK, MainLabels
<1>4. TypeOK'
  BY <1>1, <1>2, <1>3 DEF TypeOK
<1> QED BY <1>3, <1>4 DEF TypeInv, InLoop

\* Type correctness of NetBench holds initially and is preserved by every
\* step of main, of the servers and of the environment.
LEMMA TypeInvInductive ==
  /\ Init => TypeInv
  /\ TypeInv /\ [Next]_vars => TypeInv'
<1> USE RpcAssumption, BenchAssumption, ProcFacts
<1>1. Init => TypeInv
  BY DEF Init, RpcInit, TypeInv, TypeOK, InLoop, MainLabels, Status
<1>2. ASSUME TypeInv, [Next]_vars
      PROVE  TypeInv'
  <2> USE <1>2 DEF TypeInv, TypeOK, MainLabels, Status
  <2>1. ASSUME NEW p \in Procs, ServerInit(p)
        PROVE  TypeInv'
    BY <2>1 DEF ServerInit, Goto, InLoop, More, R, IsPing, RpcNames
  <2>2. ASSUME NEW p \in Procs, TestRunner(p)
        PROVE  TypeInv'
    BY <2>2 DEF TestRunner, Goto, InLoop, More, R, IsPing, RpcNames
  <2>3. CASE SyncIssue
    <3>1. Cur \in Calls
      BY <2>3, CurFacts DEF SyncIssue
    <3> QED BY <2>3, <3>1 DEF SyncIssue, Goto, InLoop, More, R, IsPing,
            Sends, Exposed
  <2>4. CASE SyncReturn
    <3>1. More
      BY <2>4 DEF SyncReturn, InLoop
    <3>2. at' \in [node : 1 .. NumHosts + 1, rep : 0 .. Rep]
      BY <3>1, <2>4, AdvanceType DEF SyncReturn
    <3> QED BY <2>4, <3>2 DEF SyncReturn, Goto, InLoop, rpcVars
  <2>5. CASE AsyncIssue
    <3>1. Cur \in Calls
      BY <2>5, CurFacts DEF AsyncIssue
    <3> QED BY <2>5, <3>1 DEF AsyncIssue, Goto, InLoop, More, R, IsPing,
            Sends, FailsLater, Exposed
  <2>6. CASE AsyncReturn
    <3>1. More
      BY <2>6 DEF AsyncReturn, InLoop
    <3>2. at' \in [node : 1 .. NumHosts + 1, rep : 0 .. Rep]
      BY <3>1, <2>6, AdvanceType DEF AsyncReturn
    <3>3. Cur \in Calls
      BY <3>1, CurFacts
    <3> QED BY <2>6, <3>2, <3>3 DEF AsyncReturn, Goto, InLoop
  <2>7. CASE CallFails
    <3>1. More
      BY <2>7 DEF CallFails, InLoop
    <3>2. Advance => at' \in [node : 1 .. NumHosts + 1, rep : 0 .. Rep]
      BY <3>1, AdvanceType
    <3> QED BY <2>7, <3>2 DEF CallFails, Goto, InLoop
  <2>8. CASE Issued
    <3>1. CASE IsAsync
      BY <3>1, <2>8 DEF Issued, Goto, InLoop
    <3>2. CASE ~IsAsync
      <4>1. EndTest /\ UNCHANGED <<server, client, rpcs, stop, call, bulks,
                                   test, count>>
        BY <3>2, <2>8 DEF Issued
      <4> QED BY <4>1, EndTestKeeps
    <3> QED BY <3>1, <3>2
  <2>9. CASE Collect
    BY <2>9 DEF Collect, InLoop, More, R, IsPing
  <2>10. CASE Collected
    <3>1. EndTest /\ UNCHANGED <<server, client, rpcs, stop, call, bulks,
                                 test, count>>
      BY <2>10 DEF Collected
    <3> QED BY <3>1, EndTestKeeps
  <2>11. CASE CollectFails
    <3>1. CASE IsPing
      <4>1. EndTest /\ UNCHANGED <<server, client, rpcs, stop, call, bulks,
                                   test, count>>
        BY <3>1, <2>11 DEF CollectFails
      <4> QED BY <4>1, EndTestKeeps
    <3>2. CASE ~IsPing
      BY <3>2, <2>11 DEF CollectFails, Goto, InLoop
    <3> QED BY <3>1, <3>2
  <2>12. CASE StopAllDaemons
    <3>1. CASE StopSend
      <4>1. at.node \in NodeIds
        BY <3>1 DEF StopSend, NodeIds
      <4>2. StopCall(at.node) \in Calls
        BY <4>1, StopCallFacts
      <4>3. at' \in [node : 1 .. NumHosts + 1, rep : 0 .. Rep]
        <5>1. at' = [at EXCEPT !.node = at.node + 1]
          BY <3>1 DEF StopSend
        <5>2. at.node + 1 \in 1 .. NumHosts + 1
          BY <4>1 DEF NodeIds
        <5> QED BY <5>1, <5>2
      <4>4. responses' \in Seq(Calls)
        BY <3>1, <4>2 DEF StopSend
      <4>5. call' \in [Calls -> Status]
        BY <3>1, <4>2 DEF StopSend, Sends, FailsLater
      <4> QED BY <3>1, <2>12, <4>3, <4>4, <4>5 DEF StopSend, StopAllDaemons,
              InLoop
    <3>2. CASE StopSent
      BY <3>2, <2>12 DEF StopSent, StopAllDaemons, InLoop
    <3>3. CASE StopWait("exited")
      <4>a. responses # <<>> => Tail(responses) \in Seq(Calls)
        OBVIOUS
      <4>1. responses' \in Seq(Calls)
        BY <3>3, <4>a DEF StopWait
      <4>2. pc' \in [Procs -> MainLabels]
        BY <3>3 DEF StopWait
      <4>3. pc'[Caller] \notin {"await", "return"}
        BY <3>3 DEF StopWait
      <4> QED BY <3>3, <2>12, <4>1, <4>2, <4>3
              DEF StopWait, StopAllDaemons, InLoop
    <3>4. CASE StopThrow("aborted")
      BY <3>4, <2>12 DEF StopThrow, StopAllDaemons, InLoop
    <3> QED BY <2>12, <3>1, <3>2, <3>3, <3>4 DEF StopAllDaemons
  <2>13. ASSUME ServiceStep
         PROVE  TypeInv'
    <3> USE <2>13 DEF ServiceStep, InLoop, More, R, IsPing
    <3>1. ASSUME NEW c \in Calls,
                 \/ Dispatch(c) \/ RpcPing(c) \/ RpcTaskSubmit(c)
                 \/ Receive(c)
          PROVE  TypeInv'
      BY <3>1 DEF Dispatch, RpcPing, RpcTaskSubmit, Receive
    <3>2. ASSUME NEW c \in Calls, IoCallServerWrite(c)
          PROVE  TypeInv'
      BY <3>2 DEF IoCallServerWrite
    <3>3. ASSUME NEW c \in Calls, RpcStopDaemon(c)
          PROVE  TypeInv'
      BY <3>3 DEF RpcStopDaemon
    <3>4. ASSUME NEW p \in NodeIds,
                 \/ FinalizeClient(p) \/ FinalizeServer(p)
                 \/ CloseServer(p) \/ RunDaemon(p)
          PROVE  TypeInv'
      <4>1. UNCHANGED <<rpcs, call, bulks, responses, at, test, count>>
        BY <3>4 DEF FinalizeClient, FinalizeServer, CloseServer, RunDaemon
      <4>2. pc' = pc \/ pc' = [pc EXCEPT ![p] = "exited"]
        BY <3>4 DEF FinalizeClient, FinalizeServer, CloseServer, RunDaemon
      <4>3. /\ server' \in [Procs -> {"none", "up", "closing", "down"}]
            /\ client' \in [Procs -> {"none", "up", "down"}]
            /\ stop' \in [Procs -> {"none", "replied", "clientDown", "returned"}]
        BY <3>4 DEF FinalizeClient, FinalizeServer, CloseServer, RunDaemon
      <4> QED BY <4>1, <4>2, <4>3
    <3> QED BY <3>1, <3>2, <3>3, <3>4 DEF RpcStep
  <2>14. ASSUME UnfairStep
         PROVE  TypeInv'
    <3> USE <2>14 DEF UnfairStep, InLoop, More, R, IsPing
    <3>1. ASSUME NEW c \in Calls, Disconnect(c)
          PROVE  TypeInv'
      BY <3>1 DEF Disconnect
    <3>2. ASSUME NEW p \in NodeIds, Crash(p)
          PROVE  TypeInv'
      BY <3>2 DEF Crash
    <3>3. CASE StopCut("aborted")
      BY <3>3 DEF StopCut
    <3> QED BY <3>1, <3>2, <3>3
  <2>15. CASE UNCHANGED vars
    BY <2>15 DEF vars, rpcVars, InLoop, More, R, IsPing
  <2> QED BY <2>1, <2>2, <2>3, <2>4, <2>5, <2>6, <2>7, <2>8, <2>9, <2>10,
             <2>11, <2>12, <2>13, <2>14, <2>15 DEF Next, MainStep
<1> QED BY <1>1, <1>2

\* Type correctness of the benchmark, for any number of hosts.
THEOREM TypeCorrect == Spec => []TypeOK
<1>1. Spec => []TypeInv
  BY TypeInvInductive, PTL DEF Spec
<1>2. TypeInv => TypeOK
  BY DEF TypeInv
<1> QED BY <1>1, <1>2, PTL
-----------------------------------------------------------------------------
(***************************************************************************)
(* NoUnknownRpc: a server that makes progress has registered every RPC.    *)
(***************************************************************************)
Registered ==
  \A p \in Procs : /\ pc[p] = "sleep" => "RpcStopDaemon" \in rpcs[p]
                   /\ Progresses(p) => rpcs[p] = RpcNames

RegInv == TypeInv /\ Registered /\ NoUnknownRpc

\* Registration precedes progress, and progress precedes dispatch.
LEMMA RegInvInductive ==
  /\ Init => RegInv
  /\ RegInv /\ [Next]_vars => RegInv'
<1> USE RpcAssumption, BenchAssumption, ProcFacts
<1>1. Init => RegInv
  BY TypeInvInductive
     DEF Init, RpcInit, RegInv, Registered, NoUnknownRpc, Progresses
<1>2. ASSUME RegInv, [Next]_vars
      PROVE  RegInv'
  <2> USE <1>2 DEF RegInv, TypeInv
  <2>0. TypeInv'
    BY TypeInvInductive
  <2> DEFINE Goal == Registered' /\ NoUnknownRpc'
  <2> SUFFICES Goal
    BY <2>0
  <2> USE DEF TypeOK, Registered, NoUnknownRpc, Progresses
  <2>1. ASSUME NEW p \in Procs, ServerInit(p)
        PROVE  Goal
    BY <2>1 DEF ServerInit, Goto
  <2>2. ASSUME NEW p \in Procs, TestRunner(p)
        PROVE  Goal
    <3>1. rpcs[p] \cup {"RpcPing", "RpcTaskSubmit"} = RpcNames
      BY <2>2 DEF TestRunner, RpcNames
    <3>2. rpcs' = [rpcs EXCEPT ![p] = RpcNames]
      BY <2>2, <3>1 DEF TestRunner
    <3> QED BY <2>2, <3>2 DEF TestRunner, Goto
  <2>3. CASE SyncIssue
    BY <2>3, CurFacts DEF SyncIssue, Goto, Sends
  <2>4. CASE SyncReturn
    BY <2>4 DEF SyncReturn, Goto
  <2>5. CASE AsyncIssue
    BY <2>5, CurFacts DEF AsyncIssue, Goto, Sends, FailsLater
  <2>6. CASE AsyncReturn
    BY <2>6 DEF AsyncReturn, Goto
  <2>7. CASE CallFails
    BY <2>7 DEF CallFails, Goto
  <2>8. CASE Issued \/ Collect \/ Collected \/ CollectFails
    BY <2>8 DEF Issued, Collect, Collected, CollectFails, EndTest, Goto
  <2>9. CASE StopAllDaemons
    <3>1. CASE StopSend
      <4>1. StopCall(at.node) \in Calls
        BY <3>1, StopCallFacts DEF StopSend, NodeIds
      <4> QED BY <3>1, <4>1 DEF StopSend, Sends, FailsLater
    <3>2. CASE StopSent \/ StopWait("exited") \/ StopThrow("aborted")
      BY <3>2 DEF StopSent, StopWait, StopThrow
    <3> QED BY <2>9, <3>1, <3>2 DEF StopAllDaemons
  <2>10. CASE ServiceStep
    <3>1. ASSUME NEW c \in Calls, Dispatch(c)
          PROVE  Goal
      <4>1. c.node \in Procs /\ c.rpc \in RpcNames
        BY DEF Calls
      <4> QED BY <3>1, <4>1 DEF Dispatch
    <3>2. ASSUME NEW c \in Calls,
                 \/ RpcPing(c) \/ RpcTaskSubmit(c) \/ RpcStopDaemon(c)
                 \/ Receive(c) \/ IoCallServerWrite(c)
          PROVE  Goal
      BY <3>2 DEF RpcPing, RpcTaskSubmit, RpcStopDaemon, Receive,
         IoCallServerWrite
    <3>3. ASSUME NEW p \in NodeIds,
                 \/ FinalizeClient(p) \/ FinalizeServer(p)
                 \/ CloseServer(p) \/ RunDaemon(p)
          PROVE  Goal
      BY <3>3 DEF FinalizeClient, FinalizeServer, CloseServer, RunDaemon
    <3> QED BY <2>10, <3>1, <3>2, <3>3 DEF ServiceStep, RpcStep
  <2>11. CASE UnfairStep
    BY <2>11 DEF UnfairStep, Disconnect, Crash, StopCut
  <2>12. CASE UNCHANGED vars
    BY <2>12 DEF vars, rpcVars
  <2> QED BY <2>1, <2>2, <2>3, <2>4, <2>5, <2>6, <2>7, <2>8, <2>9, <2>10,
             <2>11, <2>12 DEF Next, MainStep
<1> QED BY <1>1, <1>2

\* No request ever meets a server that does not know its RPC.
THEOREM UnknownRpcImpossible == Spec => []NoUnknownRpc
<1>1. Spec => []RegInv
  BY RegInvInductive, PTL DEF Spec
<1>2. RegInv => NoUnknownRpc
  BY DEF RegInv
<1> QED BY <1>1, <1>2, PTL
-----------------------------------------------------------------------------
(***************************************************************************)
(* DaemonOutlivesTest: a server goes down only when it was told to, and    *)
(* when it is told to no test call is under way.                           *)
(***************************************************************************)
Settled(c) == call[c] \in {"idle", "ok", "failed"}

Outstanding(c) == \E i \in 1 .. Len(responses) : responses[i] = c

\* Where StopAllDaemons is sent, and what a handler has done once it finalizes.
StopOrder ==
  /\ \A n \in NodeIds :
       /\ server[n] \in {"closing", "down"} => stop[n] # "none"
       /\ stop[n] # "none" => call[StopCall(n)] \in {"replied", "ok"}
       /\ pc[Caller] \notin {"stopSend", "stopWait", "exited", "aborted",
                            "crashed"}
            => call[StopCall(n)] = "idle"
       /\ (pc[Caller] = "stopSend" /\ at.node <= n)
            => call[StopCall(n)] = "idle"
  /\ \A c \in Calls :
       (c.rpc = "RpcStopDaemon" /\ c.rep # 0) => call[c] = "idle"

\* The caller's thread knows of every test call that is under way.
Tracked ==
  /\ test # "ping_async" =>
       \A c \in TestCalls :
         \/ Settled(c)
         \/ pc[Caller] \in {"aborted", "crashed"}
         \/ pc[Caller] \in {"await", "return"} /\ c = Cur
         \/ pc[Caller] \in {"issue", "return", "collect"} /\ Outstanding(c)
  /\ ~IsAsync /\ pc[Caller] \in {"start", "sleep", "issue", "await"} =>
       responses = <<>>
  /\ pc[Caller] \in {"return", "collect"} => IsAsync

Drained ==
  (test # "ping_async" /\ \E n \in NodeIds : call[StopCall(n)] # "idle") =>
    \A c \in TestCalls : Settled(c)

StopInv == RegInv /\ StopOrder /\ Tracked /\ Drained

\* An answered or failed call leaves the invariants of the bookkeeping alone:
\* a step of the servers or of the transport only touches calls under way.
LEMMA ServiceStopInv ==
  ASSUME StopInv,
         NEW c \in Calls,
         call[c] \in {"queued", "running", "pulled", "replied"},
         NEW s \in {"running", "pulled", "replied", "ok", "failed"},
         call' = [call EXCEPT ![c] = s],
         call[c] = "replied" => s = "ok",
         UNCHANGED <<pc, server, stop, responses, at, test>>
  PROVE  StopOrder' /\ Tracked' /\ Drained'
<1> USE RpcAssumption, BenchAssumption, ProcFacts, StopCallFacts
        DEF StopInv, RegInv, TypeInv, TypeOK
<1>1. StopOrder'
  BY DEF StopOrder
<1>2. Cur' = Cur
  BY DEF Cur, IsIo
<1>3. Tracked'
  BY <1>2 DEF Tracked, Settled, Outstanding, TestCalls, IsAsync
<1>4. Drained'
  <2>1. \A n \in NodeIds : call'[StopCall(n)] # "idle" => call[StopCall(n)] # "idle"
    OBVIOUS
  <2> QED BY <2>1 DEF Drained, Settled, TestCalls
<1> QED BY <1>1, <1>3, <1>4
\* The test ends with every response collected, and is followed by the stop
\* messages; a server finalizes only after answering its own.
LEMMA StopInvInductive ==
  /\ Init => StopInv
  /\ StopInv /\ [Next]_vars => StopInv'
<1> USE RpcAssumption, BenchAssumption, ProcFacts, StopCallFacts
<1>1. Init => StopInv
  BY RegInvInductive
     DEF Init, RpcInit, StopInv, StopOrder, Tracked, Drained, Settled, TestCalls
<1>2. ASSUME StopInv, [Next]_vars
      PROVE  StopInv'
  <2> DEFINE Goal == StopOrder' /\ Tracked' /\ Drained'
  <2> SUFFICES Goal
    BY <1>2, RegInvInductive DEF StopInv
  <2> USE <1>2 DEF StopInv, RegInv, TypeInv, TypeOK
  <2>1. ASSUME NEW p \in Procs, ServerInit(p) \/ TestRunner(p)
        PROVE  Goal
    <3>1. StopOrder'
      BY <2>1 DEF ServerInit, TestRunner, Goto, StopOrder
    <3>2. Tracked'
      BY <2>1 DEF ServerInit, TestRunner, Goto, Tracked, Settled, Outstanding,
         Cur, IsIo, IsAsync
    <3>3. Drained'
      BY <2>1 DEF ServerInit, TestRunner, Drained, Settled
    <3> QED BY <3>1, <3>2, <3>3
  <2>2. CASE SyncIssue
    <3>1. /\ Cur \in TestCalls /\ Cur \in Calls /\ Cur.rpc # "RpcStopDaemon"
          /\ call' = [call EXCEPT ![Cur] = "queued"]
          /\ pc' = [pc EXCEPT ![Caller] = "await"]
          /\ UNCHANGED <<server, stop, responses, at, test>>
      BY <2>2, CurFacts DEF SyncIssue, Sends, Goto
    <3>2. Cur' = Cur
      BY <3>1 DEF Cur, IsIo
    <3>3. StopOrder'
      BY <2>2, <3>1 DEF SyncIssue, StopOrder
    <3>4. Tracked'
      BY <2>2, <3>1, <3>2
         DEF SyncIssue, Tracked, Settled, Outstanding, IsAsync, TestCalls
    <3>5. Drained'
      BY <2>2, <3>1, <3>3 DEF SyncIssue, StopOrder, Drained
    <3> QED BY <3>3, <3>4, <3>5
  <2>3. CASE SyncReturn
    <3>1. /\ call[Cur] = "ok"
          /\ pc' = [pc EXCEPT ![Caller] = "issue"]
          /\ UNCHANGED <<server, stop, responses, call, test>>
      BY <2>3 DEF SyncReturn, Returns, Goto
    <3>2. StopOrder'
      BY <2>3, <3>1 DEF SyncReturn, StopOrder
    <3>3. Tracked'
      BY <2>3, <3>1
         DEF SyncReturn, Tracked, Settled, Outstanding, IsAsync, TestCalls
    <3>4. Drained'
      BY <3>1 DEF Drained, Settled
    <3> QED BY <3>2, <3>3, <3>4
  <2>4. CASE AsyncIssue
    <3>1. /\ Cur \in TestCalls /\ Cur \in Calls /\ Cur.rpc # "RpcStopDaemon"
          /\ \/ call' = [call EXCEPT ![Cur] = "queued"]
             \/ call' = [call EXCEPT ![Cur] = "failed"]
          /\ pc' = [pc EXCEPT ![Caller] = "return"]
          /\ UNCHANGED <<server, stop, responses, at, test>>
      BY <2>4, CurFacts DEF AsyncIssue, Sends, FailsLater, Goto
    <3>2. Cur' = Cur
      BY <3>1 DEF Cur, IsIo
    <3>3. StopOrder'
      BY <2>4, <3>1 DEF AsyncIssue, StopOrder
    <3>4. Tracked'
      BY <2>4, <3>1, <3>2
         DEF AsyncIssue, Tracked, Settled, Outstanding, IsAsync, TestCalls
    <3>5. Drained'
      BY <2>4, <3>1, <3>3 DEF AsyncIssue, StopOrder, Drained
    <3> QED BY <3>3, <3>4, <3>5
  <2>5. CASE AsyncReturn
    <3>1. /\ More
          /\ Cur \in Calls
          /\ pc[Caller] = "return"
          /\ responses' = Append(responses, Cur)
          /\ pc' = [pc EXCEPT ![Caller] = "issue"]
          /\ UNCHANGED <<server, stop, call, test>>
      BY <2>5, CurFacts DEF AsyncReturn, Goto, InLoop
    <3>2. StopOrder'
      BY <3>1 DEF StopOrder
    <3>3. \A c : Outstanding(c) \/ c = Cur => Outstanding(c)'
      <4> TAKE c
      <4>1. Len(responses') = Len(responses) + 1 /\ Len(responses) \in Nat
        BY <3>1
      <4>2. CASE Outstanding(c)
        <5>1. PICK i \in 1 .. Len(responses) : responses[i] = c
          BY <4>2 DEF Outstanding
        <5>2. responses'[i] = c /\ i \in 1 .. Len(responses')
          BY <5>1, <4>1, <3>1
        <5> QED BY <5>2 DEF Outstanding
      <4>3. CASE c = Cur
        <5>1. responses'[Len(responses')] = c
          BY <4>1, <4>3, <3>1
        <5>2. Len(responses') \in 1 .. Len(responses')
          BY <4>1
        <5> QED BY <5>1, <5>2 DEF Outstanding
      <4> QED BY <4>2, <4>3
    <3>4. IsAsync
      BY <3>1 DEF Tracked, InLoop
    <3>5. Tracked'
      BY <3>1, <3>3, <3>4 DEF Tracked, Settled, IsAsync, TestCalls
    <3>6. Drained'
      BY <3>1 DEF Drained, Settled
    <3> QED BY <3>2, <3>5, <3>6
  <2>6. CASE CallFails
    <3>1. /\ pc[Caller] \in {"issue", "await"}
          /\ pc[Caller] = "await" => call[Cur] = "failed"
          /\ \/ pc' = [pc EXCEPT ![Caller] = "issue"]
             \/ pc' = [pc EXCEPT ![Caller] = "aborted"]
          /\ UNCHANGED <<server, stop, responses, call, test>>
      BY <2>6, CurFacts DEF CallFails, Raises, Goto, InLoop, NoUnknownRpc
    <3>2. StopOrder'
      BY <3>1 DEF StopOrder
    <3>3. Tracked'
      BY <3>1 DEF Tracked, Settled, Outstanding, IsAsync, TestCalls
    <3>4. Drained'
      BY <3>1 DEF Drained, Settled
    <3> QED BY <3>2, <3>3, <3>4
  <2>7. CASE Issued
    <3>1. /\ pc[Caller] = "issue"
          /\ UNCHANGED <<server, stop, call, test>>
      BY <2>7 DEF Issued
    <3>2. Drained'
      BY <3>1 DEF Drained, Settled
    <3>3. CASE IsAsync
      <4>1. pc' = [pc EXCEPT ![Caller] = "collect"] /\ UNCHANGED responses
        BY <2>7, <3>3 DEF Issued, Goto
      <4>2. StopOrder'
        BY <3>1, <4>1 DEF StopOrder
      <4>3. Tracked'
        BY <3>1, <3>3, <4>1
           DEF Tracked, Settled, Outstanding, IsAsync, TestCalls
      <4> QED BY <3>2, <4>2, <4>3
    <3>4. CASE ~IsAsync
      <4>1. pc' = [pc EXCEPT ![Caller] = "stopSend"]
        BY <2>7, <3>4, EndTestType DEF Issued
      <4>2. StopOrder'
        BY <3>1, <4>1 DEF StopOrder
      <4>3. responses = <<>>
        BY <3>1, <3>4 DEF Tracked
      <4>4. \A c \in TestCalls : ~Outstanding(c)
        BY <4>3 DEF Outstanding
      <4>5. Tracked'
        BY <3>1, <3>4, <4>1, <4>4 DEF Tracked, Settled, IsAsync, TestCalls
      <4> QED BY <3>2, <4>2, <4>5
    <3> QED BY <3>3, <3>4
  <2>8. CASE Collect
    <3>1. /\ pc[Caller] = "collect"
          /\ responses # <<>>
          /\ call[Head(responses)] = "ok"
          /\ responses' = Tail(responses)
          /\ UNCHANGED <<pc, server, stop, call, at, test>>
      BY <2>8 DEF Collect, Returns
    <3>2. StopOrder'
      BY <3>1 DEF StopOrder
    <3>3. \A c : Outstanding(c) /\ call[c] # "ok" => Outstanding(c)'
      <4> SUFFICES ASSUME NEW c, Outstanding(c), call[c] # "ok"
                   PROVE  Outstanding(c)'
        OBVIOUS
      <4>1. PICK i \in 1 .. Len(responses) : responses[i] = c
        BY DEF Outstanding
      <4>2. i # 1
        BY <3>1, <4>1
      <4>3. i - 1 \in 1 .. Len(responses') /\ responses'[i - 1] = c
        BY <3>1, <4>1, <4>2
      <4> QED BY <4>3 DEF Outstanding
    <3>4. Tracked'
      BY <3>1, <3>3 DEF Tracked, Settled, IsAsync, TestCalls
    <3>5. Drained'
      BY <3>1 DEF Drained, Settled
    <3> QED BY <3>2, <3>4, <3>5
  <2>9. CASE Collected
    <3>1. /\ pc[Caller] = "collect"
          /\ responses = <<>>
          /\ pc' = [pc EXCEPT ![Caller] = "stopSend"]
          /\ UNCHANGED <<server, stop, call, test>>
      BY <2>9, EndTestType DEF Collected
    <3>2. StopOrder'
      BY <3>1 DEF StopOrder
    <3>3. \A c \in TestCalls : ~Outstanding(c)
      BY <3>1 DEF Outstanding
    <3>4. Tracked'
      BY <3>1, <3>3 DEF Tracked, Settled, IsAsync, TestCalls
    <3>5. Drained'
      BY <3>1 DEF Drained, Settled
    <3> QED BY <3>2, <3>4, <3>5
  <2>10. CASE CollectFails
    <3>1. /\ pc[Caller] = "collect"
          /\ UNCHANGED <<server, stop, call, test>>
      BY <2>10 DEF CollectFails
    <3>2. Drained'
      BY <3>1 DEF Drained, Settled
    <3>3. CASE IsPing
      <4>1. pc' = [pc EXCEPT ![Caller] = "stopSend"]
        BY <2>10, <3>3, EndTestType DEF CollectFails
      <4>2. test = "ping_async"
        BY <3>1, <3>3 DEF Tracked, IsAsync, IsPing
      <4>3. StopOrder'
        BY <3>1, <4>1 DEF StopOrder
      <4>4. Tracked'
        BY <3>1, <4>1, <4>2 DEF Tracked, IsAsync
      <4> QED BY <3>2, <4>3, <4>4
    <3>4. CASE ~IsPing
      <4>1. pc' = [pc EXCEPT ![Caller] = "aborted"]
        BY <2>10, <3>4 DEF CollectFails, Goto
      <4>2. StopOrder'
        BY <3>1, <4>1 DEF StopOrder
      <4>3. Tracked'
        BY <3>1, <4>1 DEF Tracked, IsAsync
      <4> QED BY <3>2, <4>2, <4>3
    <3> QED BY <3>3, <3>4
  <2>11. CASE StopAllDaemons
    <3>1. CASE StopSend
      <4> DEFINE n == at.node
      <4>1. /\ n \in NodeIds
            /\ pc[Caller] = "stopSend"
            /\ \/ call' = [call EXCEPT ![StopCall(n)] = "queued"]
               \/ call' = [call EXCEPT ![StopCall(n)] = "failed"]
            /\ at' = [at EXCEPT !.node = n + 1]
            /\ UNCHANGED <<pc, server, stop, test>>
        BY <3>1, <2>11
           DEF StopSend, StopAllDaemons, Sends, FailsLater, NodeIds
      <4>2. \A m \in NodeIds : m # n => StopCall(m) # StopCall(n)
        BY DEF StopCall
      <4>3. call[StopCall(n)] = "idle"
        BY <4>1 DEF StopOrder, NodeIds
      <4>4. at'.node = n + 1
        BY <4>1
      <4>5. StopOrder'
        BY <4>1, <4>2, <4>3, <4>4 DEF StopOrder, NodeIds
      <4>6. \A c \in TestCalls : call'[c] = call[c]
        BY <4>1 DEF TestCalls
      <4>7. test # "ping_async" => \A c \in TestCalls : Settled(c)
        BY <4>1 DEF Tracked
      <4>8. Tracked'
        BY <4>1, <4>6, <4>7 DEF Tracked, Settled, IsAsync
      <4>9. Drained'
        BY <4>1, <4>6, <4>7 DEF Drained, Settled
      <4> QED BY <4>5, <4>8, <4>9
    <3>2. CASE StopSent \/ StopWait("exited") \/ StopThrow("aborted")
      <4>1. /\ pc[Caller] \in {"stopSend", "stopWait"}
            /\ \/ pc' = pc /\ pc[Caller] = "stopWait"
               \/ pc' = [pc EXCEPT ![Caller] = "stopWait"]
               \/ pc' = [pc EXCEPT ![Caller] = "exited"]
               \/ pc' = [pc EXCEPT ![Caller] = "aborted"]
            /\ UNCHANGED <<server, stop, call, at, test>>
        BY <3>2, <2>11 DEF StopSent, StopWait, StopThrow, StopAllDaemons
      <4>2. StopOrder'
        BY <4>1 DEF StopOrder
      <4>3. Tracked'
        BY <4>1 DEF Tracked, Settled, IsAsync
      <4>4. Drained'
        BY <4>1 DEF Drained, Settled
      <4> QED BY <4>2, <4>3, <4>4
    <3> QED BY <2>11, <3>1, <3>2 DEF StopAllDaemons
  <2>12. CASE ServiceStep
    <3>1. ASSUME NEW c \in Calls, Dispatch(c)
          PROVE  Goal
      <4>1. call' = [call EXCEPT ![c] = "running"]
        <5>1. c.node \in Procs /\ c.rpc \in RpcNames
          BY DEF Calls
        <5>2. c.rpc \in rpcs[c.node]
          BY <3>1, <5>1 DEF Dispatch, Registered
        <5> QED BY <3>1, <5>2 DEF Dispatch
      <4> QED BY <3>1, <2>12, <4>1, ServiceStopInv DEF Dispatch, ServiceStep
    <3>2. ASSUME NEW c \in Calls, RpcPing(c) \/ RpcTaskSubmit(c)
          PROVE  Goal
      <4>1. /\ call[c] \in {"running", "pulled"}
            /\ call' = [call EXCEPT ![c] = "replied"]
            /\ UNCHANGED <<pc, server, stop, responses, at, test>>
        BY <3>2, <2>12 DEF RpcPing, RpcTaskSubmit, ServiceStep
      <4> QED BY <4>1, ServiceStopInv
    <3>3. ASSUME NEW c \in Calls, Receive(c)
          PROVE  Goal
      BY <3>3, <2>12, ServiceStopInv DEF Receive, ServiceStep
    <3>4. ASSUME NEW c \in Calls, IoCallServerWrite(c)
          PROVE  Goal
      <4>1. CASE call' = [call EXCEPT ![c] = "pulled"] /\ UNCHANGED pc
        BY <3>4, <2>12, <4>1, ServiceStopInv DEF IoCallServerWrite, ServiceStep
      <4>2. CASE pc' = [pc EXCEPT ![c.node] = "aborted"] /\ UNCHANGED call
        <5>1. UNCHANGED <<server, stop, call, responses, at, test>>
          BY <3>4, <2>12, <4>2 DEF IoCallServerWrite, ServiceStep
        <5>2. StopOrder'
          BY <4>2, <5>1 DEF StopOrder
        <5>3. Tracked'
          BY <4>2, <5>1 DEF Tracked, Settled, Outstanding, Cur, IsIo, IsAsync
        <5>4. Drained'
          BY <5>1 DEF Drained, Settled
        <5> QED BY <5>2, <5>3, <5>4
      <4> QED BY <3>4, <4>1, <4>2 DEF IoCallServerWrite
    <3>5. ASSUME NEW c \in Calls, RpcStopDaemon(c)
          PROVE  Goal
      <4>1. /\ c.rpc = "RpcStopDaemon"
            /\ call[c] = "running"
            /\ call' = [call EXCEPT ![c] = "replied"]
            /\ stop' = [stop EXCEPT ![c.node] = "replied"]
            /\ UNCHANGED <<pc, server, responses, at, test>>
        BY <3>5, <2>12 DEF RpcStopDaemon, ServiceStep
      <4>2. c.node \in NodeIds /\ c = StopCall(c.node)
        BY <4>1 DEF StopOrder, Calls, StopCall
      <4>3. StopOrder'
        BY <4>1, <4>2 DEF StopOrder
      <4>4. c \notin TestCalls
        BY <4>1 DEF TestCalls
      <4>5. Tracked'
        BY <4>1, <4>4
           DEF Tracked, Settled, Outstanding, Cur, IsIo, IsAsync, TestCalls
      <4>6. Drained'
        BY <4>1, <4>2, <4>4 DEF Drained, Settled, TestCalls
      <4> QED BY <4>3, <4>5, <4>6
    <3>6. ASSUME NEW p \in NodeIds,
                 \/ FinalizeClient(p) \/ FinalizeServer(p) \/ CloseServer(p)
          PROVE  Goal
      <4>1. /\ UNCHANGED <<pc, call, responses, at, test>>
            /\ \/ /\ stop[p] # "none"
                  /\ \E s \in {"clientDown", "returned"} :
                       stop' = [stop EXCEPT ![p] = s]
                  /\ \/ UNCHANGED server
                     \/ server' = [server EXCEPT ![p] = "closing"]
               \/ /\ UNCHANGED stop
                  /\ server[p] = "closing"
                  /\ server' = [server EXCEPT ![p] = "down"]
        BY <3>6, <2>12 DEF FinalizeClient, FinalizeServer, CloseServer,
           ServiceStep
      <4>2. StopOrder'
        BY <4>1 DEF StopOrder
      <4>3. Tracked'
        BY <4>1 DEF Tracked, Settled, Outstanding, Cur, IsIo, IsAsync
      <4>4. Drained'
        BY <4>1 DEF Drained, Settled
      <4> QED BY <4>2, <4>3, <4>4
    <3>7. ASSUME NEW p \in NodeIds, RunDaemon(p)
          PROVE  Goal
      <4>1. /\ pc[p] = "daemon"
            /\ pc' = [pc EXCEPT ![p] = "exited"]
            /\ UNCHANGED <<server, stop, call, responses, at, test>>
        BY <3>7, <2>12 DEF RunDaemon, ServiceStep
      <4>2. StopOrder'
        BY <4>1 DEF StopOrder
      <4>3. Tracked'
        BY <4>1 DEF Tracked, Settled, Outstanding, Cur, IsIo, IsAsync
      <4>4. Drained'
        BY <4>1 DEF Drained, Settled
      <4> QED BY <4>2, <4>3, <4>4
    <3> QED BY <2>12, <3>1, <3>2, <3>3, <3>4, <3>5, <3>6, <3>7
            DEF ServiceStep, RpcStep
  <2>13. CASE UnfairStep
    <3>1. ASSUME NEW c \in Calls, Disconnect(c)
          PROVE  Goal
      BY <3>1, <2>13, ServiceStopInv DEF Disconnect, UnfairStep
    <3>2. ASSUME NEW p \in NodeIds, Crash(p) \/ StopCut("aborted")
          PROVE  Goal
      <4>1. /\ \E q \in NodeIds, l \in {"aborted", "crashed"} :
                 pc' = [pc EXCEPT ![q] = l]
            /\ UNCHANGED <<server, stop, call, responses, at, test>>
        BY <3>2, <2>13 DEF Crash, StopCut, UnfairStep
      <4>2. StopOrder'
        BY <4>1 DEF StopOrder
      <4>3. Tracked'
        BY <4>1 DEF Tracked, Settled, Outstanding, Cur, IsIo, IsAsync
      <4>4. Drained'
        BY <4>1 DEF Drained, Settled
      <4> QED BY <4>2, <4>3, <4>4
    <3> QED BY <2>13, <3>1, <3>2 DEF UnfairStep
  <2>14. CASE UNCHANGED vars
    <3>1. UNCHANGED <<pc, server, stop, call, responses, at, test>>
      BY <2>14 DEF vars, rpcVars
    <3> QED BY <3>1 DEF StopOrder, Tracked, Drained, Settled, Outstanding,
            Cur, IsIo, IsAsync
  <2> QED BY <2>1, <2>2, <2>3, <2>4, <2>5, <2>6, <2>7, <2>8, <2>9, <2>10,
             <2>11, <2>12, <2>13, <2>14 DEF Next, MainStep
<1> QED BY <1>1, <1>2

\* No daemon shuts down before it was asked to and said so, nor, unless the
\* caller is the impatient ping_async, with a test call under way.
THEOREM DaemonsOutliveTest == Spec => []DaemonOutlivesTest
<1>1. Spec => []StopInv
  BY StopInvInductive, PTL DEF Spec
<1>2. StopInv => DaemonOutlivesTest
  BY StopCallFacts
     DEF StopInv, StopOrder, Drained, Settled, DaemonOutlivesTest
<1> QED BY <1>1, <1>2, PTL
-----------------------------------------------------------------------------
(***************************************************************************)
(* IoKeepsDaemons: a synchronous I/O call keeps its memory exposed until   *)
(* it is answered.                                                         *)
(***************************************************************************)
SyncExposed ==
  (test # "io_async" /\ ~Dead(Caller) /\ IoSize > 0) =>
    \A c \in Calls :
      (c.rpc = "RpcTaskSubmit" /\ call[c] \in {"queued", "running"}) =>
        pc[Caller] = "await" /\ c = Cur /\ c \in bulks

\* Nothing is up, and no request arrives, before ServerInit.
StartsDown ==
  \A p \in Procs :
    pc[p] = "start" =>
      /\ server[p] = "none"
      /\ stop[p] = "none"
      /\ \A c \in Calls : c.node = p => call[c] \in {"idle", "failed"}

IoInv == TypeInv /\ StartsDown /\ SyncExposed /\ IoKeepsDaemons

\* IoCall's bulk handle outlives the server's pull in every synchronous call.
LEMMA IoInvInductive ==
  /\ Init => IoInv
  /\ IoInv /\ [Next]_vars => IoInv'
<1> USE RpcAssumption, BenchAssumption, ProcFacts
<1>1. Init => IoInv
  BY TypeInvInductive
     DEF Init, RpcInit, IoInv, StartsDown, SyncExposed, IoKeepsDaemons
<1>2. ASSUME IoInv, [Next]_vars
      PROVE  IoInv'
  <2> DEFINE Goal == SyncExposed' /\ IoKeepsDaemons'
  <2>a. StartsDown'
    <3> USE <1>2 DEF IoInv, TypeInv, TypeOK, StartsDown, Goto
    <3>1. CASE \/ \E p \in Procs : ServerInit(p) \/ TestRunner(p)
               \/ SyncReturn \/ AsyncReturn \/ CallFails
               \/ Issued \/ Collect \/ Collected \/ CollectFails
      BY <3>1 DEF ServerInit, TestRunner, SyncReturn, AsyncReturn, CallFails,
         Issued, Collect, Collected, CollectFails, EndTest
    <3>2. CASE SyncIssue \/ AsyncIssue \/ StopAllDaemons
      <4>1. /\ UNCHANGED <<server, stop>>
            /\ \A p \in Procs : pc'[p] = "start" => pc[p] = "start"
        BY <3>2 DEF SyncIssue, AsyncIssue, StopAllDaemons, StopSend, StopSent,
           StopWait, StopThrow
      <4>2. \A c \in Calls :
              \/ call'[c] = call[c]
              \/ call'[c] = "failed"
              \/ server[c.node] # "none"
        <5>1. ASSUME NEW d \in Calls, Sends(d) \/ FailsLater(d)
              PROVE  \A c \in Calls : \/ call'[c] = call[c]
                                      \/ call'[c] = "failed"
                                      \/ server[c.node] # "none"
          BY <5>1 DEF Sends, FailsLater, Reachable
        <5>2. CASE SyncIssue \/ AsyncIssue
          <6>1. Cur \in Calls
            BY <5>2, CurFacts DEF SyncIssue, AsyncIssue
          <6> QED BY <5>1, <5>2, <6>1 DEF SyncIssue, AsyncIssue
        <5>3. CASE StopAllDaemons
          <6>1. at.node \in 1 .. NumHosts => StopCall(at.node) \in Calls
            BY StopCallFacts DEF NodeIds
          <6> QED BY <5>1, <5>3, <6>1
                  DEF StopAllDaemons, StopSend, StopSent, StopWait, StopThrow
        <5> QED BY <3>2, <5>2, <5>3
      <4>3. ASSUME NEW p \in Procs, pc'[p] = "start"
            PROVE  /\ server'[p] = "none"
                   /\ stop'[p] = "none"
                   /\ \A c \in Calls :
                        c.node = p => call'[c] \in {"idle", "failed"}
        <5>1. /\ server[p] = "none"
              /\ stop[p] = "none"
              /\ \A c \in Calls : c.node = p => call[c] \in {"idle", "failed"}
          BY <4>1, <4>3
        <5> QED BY <4>1, <4>2, <5>1
      <4> QED BY <4>3
    <3>3. CASE ServiceStep
      <4>1. ASSUME NEW c \in Calls,
                   \/ Dispatch(c) \/ RpcPing(c) \/ RpcTaskSubmit(c)
                   \/ RpcStopDaemon(c) \/ Receive(c)
            PROVE  StartsDown'
        <5>1. /\ c.node \in Procs
              /\ call[c] \notin {"idle", "failed"}
              /\ \E s \in Status : call' = [call EXCEPT ![c] = s]
              /\ UNCHANGED <<pc, server>>
              /\ \/ UNCHANGED stop
                 \/ stop' = [stop EXCEPT ![c.node] = "replied"]
          BY <4>1 DEF Dispatch, RpcPing, RpcTaskSubmit, RpcStopDaemon,
             Receive, Status, Calls
        <5> QED BY <5>1
      <4>2. ASSUME NEW c \in Calls, IoCallServerWrite(c)
            PROVE  StartsDown'
        <5>1. /\ call[c] = "running"
              /\ UNCHANGED <<server, stop>>
              /\ \/ UNCHANGED pc /\ call' = [call EXCEPT ![c] = "pulled"]
                 \/ UNCHANGED call /\ pc' = [pc EXCEPT ![c.node] = "aborted"]
          BY <4>2 DEF IoCallServerWrite
        <5> QED BY <5>1
      <4>3. ASSUME NEW p \in NodeIds,
                   \/ FinalizeClient(p) \/ FinalizeServer(p)
                   \/ CloseServer(p) \/ RunDaemon(p)
            PROVE  StartsDown'
        BY <4>3 DEF FinalizeClient, FinalizeServer, CloseServer, RunDaemon,
           Progresses
      <4> QED BY <3>3, <4>1, <4>2, <4>3 DEF ServiceStep, RpcStep
    <3>4. CASE UnfairStep
      BY <3>4 DEF UnfairStep, Disconnect, Crash, StopCut
    <3>5. CASE UNCHANGED vars
      BY <3>5 DEF vars, rpcVars
    <3> QED BY <3>1, <3>2, <3>3, <3>4, <3>5 DEF Next, MainStep
  <2> SUFFICES Goal
    BY <1>2, <2>a, TypeInvInductive DEF IoInv
  <2> USE <1>2 DEF IoInv, TypeInv, TypeOK, StartsDown, SyncExposed,
                 IoKeepsDaemons, Dead
  <2>1. ASSUME NEW p \in Procs, ServerInit(p) \/ TestRunner(p)
        PROVE  Goal
    <3>1. /\ pc[p] \in {"start", "sleep"}
          /\ \/ UNCHANGED server
             \/ server' = [server EXCEPT ![p] = "up"]
          /\ \/ /\ pc[p] = "start"
                /\ UNCHANGED server
                /\ pc' = [pc EXCEPT ![p] = "aborted"]
             \/ \E l \in {"sleep", "daemon", "issue", "stopSend"} :
                  pc' = [pc EXCEPT ![p] = l]
          /\ UNCHANGED <<call, bulks, at, test>>
      BY <2>1 DEF ServerInit, TestRunner, Goto
    <3>2. SyncExposed'
      BY <3>1 DEF Cur, IsIo
    <3>3. IoKeepsDaemons'
      BY <3>1
    <3> QED BY <3>2, <3>3
  <2>2. CASE SyncIssue
    <3>1. /\ pc[Caller] = "issue"
          /\ pc' = [pc EXCEPT ![Caller] = "await"]
          /\ call' = [call EXCEPT ![Cur] = "queued"]
          /\ bulks' = bulks \cup Exposed(Cur)
          /\ UNCHANGED <<server, at, test>>
      BY <2>2 DEF SyncIssue, Sends, Goto
    <3>2. Cur' = Cur
      BY <3>1 DEF Cur, IsIo
    <3>3. (Cur.rpc = "RpcTaskSubmit" /\ IoSize > 0) => Cur \in bulks'
      BY <2>2, <3>1, CurFacts DEF SyncIssue, Exposed
    <3>4. SyncExposed'
      BY <3>1, <3>2, <3>3
    <3> QED BY <3>1, <3>4
  <2>3. CASE SyncReturn
    <3>1. /\ pc[Caller] = "await"
          /\ call[Cur] = "ok"
          /\ pc' = [pc EXCEPT ![Caller] = "issue"]
          /\ UNCHANGED <<server, call, test>>
      BY <2>3 DEF SyncReturn, Returns, Goto
    <3>2. SyncExposed'
      BY <3>1
    <3>3. IoKeepsDaemons'
      BY <3>1
    <3> QED BY <3>2, <3>3
  <2>4. CASE AsyncIssue
    <3>1. /\ pc[Caller] = "issue"
          /\ Cur \in Calls
          /\ test # "io_async" => Cur.rpc = "RpcPing"
          /\ pc' = [pc EXCEPT ![Caller] = "return"]
          /\ \/ call' = [call EXCEPT ![Cur] = "queued"]
             \/ call' = [call EXCEPT ![Cur] = "failed"]
          /\ UNCHANGED <<server, at, test>>
      BY <2>4, CurFacts
         DEF AsyncIssue, Sends, FailsLater, Goto, IsAsync, IsIo
    <3> QED BY <3>1
  <2>5. CASE AsyncReturn \/ Issued \/ Collect \/ Collected \/ CollectFails
    <3>1. /\ pc[Caller] \in {"return", "issue", "collect"}
          /\ \/ pc' = pc
             \/ \E l \in {"issue", "collect", "stopSend", "aborted"} :
                  pc' = [pc EXCEPT ![Caller] = l]
          /\ UNCHANGED <<server, call, test>>
      BY <2>5 DEF AsyncReturn, Issued, Collect, Collected, CollectFails,
         EndTest, Goto
    <3> QED BY <3>1
  <2>6. CASE CallFails
    <3>1. /\ \/ pc[Caller] = "issue"
             \/ pc[Caller] = "await" /\ call[Cur] \in {"failed", "nomatch"}
          /\ \E l \in {"issue", "aborted"} : pc' = [pc EXCEPT ![Caller] = l]
          /\ UNCHANGED <<server, call, test>>
      BY <2>6 DEF CallFails, Raises, Goto
    <3>2. SyncExposed'
      BY <3>1
    <3>3. IoKeepsDaemons'
      BY <3>1
    <3> QED BY <3>2, <3>3
  <2>7. CASE StopAllDaemons
    <3>1. CASE StopSend
      <4>1. /\ pc[Caller] = "stopSend"
            /\ \/ call' = [call EXCEPT ![StopCall(at.node)] = "queued"]
               \/ call' = [call EXCEPT ![StopCall(at.node)] = "failed"]
            /\ UNCHANGED <<server, pc, test>>
        BY <3>1, <2>7 DEF StopSend, StopAllDaemons, Sends, FailsLater
      <4>2. StopCall(at.node).rpc = "RpcStopDaemon"
        BY DEF StopCall
      <4> QED BY <4>1, <4>2
    <3>2. CASE StopSent \/ StopWait("exited") \/ StopThrow("aborted")
      <4>1. /\ pc[Caller] \in {"stopSend", "stopWait"}
            /\ \/ pc' = pc
               \/ \E l \in {"stopWait", "exited", "aborted"} :
                    pc' = [pc EXCEPT ![Caller] = l]
            /\ UNCHANGED <<server, call, test>>
        BY <3>2, <2>7 DEF StopSent, StopWait, StopThrow, StopAllDaemons
      <4> QED BY <4>1
    <3> QED BY <2>7, <3>1, <3>2 DEF StopAllDaemons
  <2>8. CASE ServiceStep
    <3>1. ASSUME NEW c \in Calls,
                 \/ Dispatch(c) \/ RpcPing(c) \/ RpcTaskSubmit(c)
                 \/ RpcStopDaemon(c) \/ Receive(c)
          PROVE  Goal
      <4>1. /\ call[c] \in {"queued", "running", "pulled", "replied"}
            /\ \E s \in {"running", "nomatch", "replied", "ok"} :
                 /\ call' = [call EXCEPT ![c] = s]
                 /\ s = "running" => call[c] = "queued"
            /\ UNCHANGED <<server, pc, bulks, at, test>>
        BY <3>1, <2>8 DEF Dispatch, RpcPing, RpcTaskSubmit, RpcStopDaemon,
           Receive, ServiceStep
      <4> QED BY <4>1 DEF Cur, IsIo
    <3>2. ASSUME NEW c \in Calls, IoCallServerWrite(c)
          PROVE  Goal
      <4>1. CASE call' = [call EXCEPT ![c] = "pulled"] /\ UNCHANGED pc
        <5>1. UNCHANGED <<server, bulks, at, test>>
          BY <3>2, <2>8 DEF IoCallServerWrite, ServiceStep
        <5> QED BY <4>1, <5>1 DEF Cur, IsIo
      <4>2. CASE /\ IoSize > 0
                 /\ c \notin bulks \/ Dead(Caller)
                 /\ pc' = [pc EXCEPT ![c.node] = "aborted"]
                 /\ UNCHANGED call
        <5>1. /\ c.rpc = "RpcTaskSubmit"
              /\ call[c] = "running"
              /\ UNCHANGED <<server, bulks, at, test>>
          BY <3>2, <2>8 DEF IoCallServerWrite, ServiceStep
        <5>2. test = "io_async" \/ Dead(Caller)
          BY <4>2, <5>1
        <5>3. Dead(Caller) => Dead(Caller)'
          BY <4>2
        <5> QED BY <5>1, <5>2, <5>3
      <4> QED BY <3>2, <4>1, <4>2 DEF IoCallServerWrite
    <3>3. ASSUME NEW p \in NodeIds,
                 \/ FinalizeClient(p) \/ FinalizeServer(p)
                 \/ CloseServer(p) \/ RunDaemon(p)
          PROVE  Goal
      <4>1. /\ UNCHANGED <<bulks, call, at, test>>
            /\ \/ UNCHANGED <<pc, server>>
               \/ /\ ~Dead(p)
                  /\ \E s \in {"closing", "down"} :
                       server' = [server EXCEPT ![p] = s]
                  /\ UNCHANGED pc
               \/ /\ pc[p] = "daemon"
                  /\ pc' = [pc EXCEPT ![p] = "exited"]
                  /\ UNCHANGED server
        BY <3>3, <2>8 DEF FinalizeClient, FinalizeServer, CloseServer,
           RunDaemon, ServiceStep, Works, Progresses
      <4>2. IoKeepsDaemons'
        BY <4>1
      <4>3. SyncExposed'
        BY <4>1 DEF Cur, IsIo
      <4> QED BY <4>2, <4>3
    <3> QED BY <2>8, <3>1, <3>2, <3>3 DEF ServiceStep, RpcStep
  <2>9. CASE UnfairStep
    <3>1. ASSUME NEW c \in Calls, Disconnect(c)
          PROVE  Goal
      BY <3>1, <2>9 DEF Disconnect, UnfairStep, Cur, IsIo
    <3>2. ASSUME NEW p \in NodeIds, Crash(p)
          PROVE  Goal
      BY <3>2, <2>9 DEF Crash, UnfairStep, Cur, IsIo
    <3>3. CASE StopCut("aborted")
      BY <3>3, <2>9 DEF StopCut, UnfairStep
    <3> QED BY <2>9, <3>1, <3>2, <3>3 DEF UnfairStep
  <2>10. CASE UNCHANGED vars
    BY <2>10 DEF vars, rpcVars, Cur, IsIo
  <2> QED BY <2>1, <2>2, <2>3, <2>4, <2>5, <2>6, <2>7, <2>8, <2>9, <2>10
          DEF Next, MainStep
<1> QED BY <1>1, <1>2

\* No test but io_async can end a daemon in HELOG(kFatal).
THEOREM IoNeverKillsDaemons == Spec => []IoKeepsDaemons
<1>1. Spec => []IoInv
  BY IoInvInductive, PTL DEF Spec
<1>2. IoInv => IoKeepsDaemons
  BY DEF IoInv
<1> QED BY <1>1, <1>2, PTL
-----------------------------------------------------------------------------
(***************************************************************************)
(* The loops.  The calls of a test are made in the order of its two loops, *)
(* each once; the calls before the current iteration are answered or kept  *)
(* in the vector of responses, and so are the stop messages.               *)
(***************************************************************************)

UnderWay == {"queued", "running", "pulled", "replied"}

\* The current iteration has not passed c yet.
Ahead(c) == c.node > at.node \/ (c.node = at.node /\ c.rep >= at.rep)

\* Calls are made in the order of the loops, and by one test only.
LoopOrder ==
  /\ pc[Caller] # "daemon"
  /\ at.rep = 0 \/ at.rep < R
  /\ pc[Caller] \in {"start", "sleep"} => at.node = 1 /\ at.rep = 0
  /\ pc[Caller] = "collect" => ~More
  /\ pc[Caller] \in {"start", "sleep", "issue"} =>
       \A c \in TestCalls : Ahead(c) => call[c] = "idle"
  /\ pc[Caller] \in {"await", "return"} =>
       \A c \in TestCalls : Ahead(c) /\ c # Cur => call[c] = "idle"
  /\ \A c \in TestCalls : c.rpc # Cur.rpc \/ c.rep >= R => call[c] = "idle"

LoopInv == TypeInv /\ LoopOrder

\* The calls of a test whose exceptions nobody catches: passed means answered,
\* or waiting to be collected.
Answered ==
  ~IsPing /\ test \in KnownTests /\ pc[Caller] \notin {"aborted", "crashed"} =>
    \A c \in TestCalls :
      (/\ c.rpc = Cur.rpc
       /\ c.rep < R
       /\ ~Ahead(c) \/ pc[Caller] \in {"stopSend", "stopWait", "exited"}) =>
        \/ call[c] = "ok"
        \/ pc[Caller] \in {"issue", "return", "collect"} /\ Outstanding(c)

\* The stop messages: sent means acknowledged, or waiting to be collected.
StopAnswered ==
  \A n \in NodeIds :
    /\ pc[Caller] = "stopSend" /\ n < at.node =>
         call[StopCall(n)] = "ok" \/ Outstanding(StopCall(n))
    /\ pc[Caller] = "stopWait" =>
         call[StopCall(n)] = "ok" \/ Outstanding(StopCall(n))
    /\ pc[Caller] = "exited" => call[StopCall(n)] = "ok"

\* PingAll's call to its own process is the oldest of the asynchronous ones,
\* so that even the impatient test does not leave it behind.
OwnCall == [rpc |-> "RpcPing", node |-> Caller, rep |-> 0]

OwnCallFirst ==
  test = "ping_async" =>
    /\ \/ Settled(OwnCall)
       \/ pc[Caller] \in {"aborted", "crashed"}
       \/ pc[Caller] = "return" /\ OwnCall = Cur
       \/ /\ pc[Caller] \in {"issue", "return", "collect"}
          /\ responses # <<>>
          /\ responses[1] = OwnCall
    /\ pc[Caller] \in {"start", "sleep", "issue", "return"} /\ at.node = 1 =>
         responses = <<>>

AnswerInv == StopInv /\ LoopInv /\ Answered /\ StopAnswered /\ OwnCallFirst

\* The calls PingAll has counted: answered, and not still to be waited for.
Counted ==
  {c \in TestCalls : /\ call[c] = "ok"
                     /\ ~Outstanding(c)
                     /\ ~(pc[Caller] \in {"await", "return"} /\ c = Cur)}

CountKept ==
  IsPing =>
    /\ count <= Cardinality(Counted)
    /\ test = "ping" /\ pc[Caller] \notin {"stopWait", "exited", "aborted",
                                           "crashed"} =>
         count = Cardinality(Counted)

\* The vector of responses holds calls of the loops that are over, each once.
ResponsesPassed ==
  /\ pc[Caller] \in {"issue", "return", "collect"} =>
       \A i \in 1 .. Len(responses) :
         /\ responses[i] \in TestCalls
         /\ pc[Caller] # "collect" => ~Ahead(responses[i])
         /\ \A j \in 1 .. Len(responses) :
              i # j => responses[i] # responses[j]
  /\ pc[Caller] \in {"start", "sleep", "await"} => responses = <<>>
  /\ pc[Caller] = "stopSend" =>
       \A i \in 1 .. Len(responses) : responses[i] \notin TestCalls

CountInv == StopInv /\ LoopInv /\ ResponsesPassed /\ CountKept
-----------------------------------------------------------------------------
\* A step that is not one of the caller's main thread: it only moves calls
\* that are under way, and takes the main thread no further.
Background ==
  /\ UNCHANGED <<responses, at, test, count>>
  /\ pc'[Caller] = pc[Caller] \/ pc'[Caller] \in {"aborted", "crashed"}
  /\ \A c \in Calls :
       call'[c] # call[c] => call[c] \in UnderWay /\ call'[c] # "idle"
  /\ \A c \in Calls :
       call'[c] = "ok" /\ call[c] # "ok" => call[c] = "replied" /\ ~Dead(Caller)

\* The servers, the transport and the faults are in the background.
LEMMA BackgroundSteps ==
  ASSUME TypeInv, LoopOrder,
         \/ ServiceStep
         \/ UnfairStep
         \/ \E p \in Procs \ {Caller} : ServerInit(p) \/ TestRunner(p)
         \/ UNCHANGED vars
  PROVE  Background
<1> USE RpcAssumption, BenchAssumption, ProcFacts
        DEF TypeInv, TypeOK, UnderWay, Background, LoopOrder
<1>1. CASE ServiceStep
  <2>1. UNCHANGED <<test, count>>
    BY <1>1 DEF ServiceStep
  <2>2. ASSUME NEW c \in Calls,
               \/ Dispatch(c) \/ RpcPing(c) \/ RpcTaskSubmit(c)
               \/ RpcStopDaemon(c)
        PROVE  Background
    BY <2>1, <2>2 DEF Dispatch, RpcPing, RpcTaskSubmit, RpcStopDaemon
  <2>3. ASSUME NEW c \in Calls, IoCallServerWrite(c)
        PROVE  Background
    BY <2>1, <2>3 DEF IoCallServerWrite
  <2>4. ASSUME NEW c \in Calls, Receive(c)
        PROVE  Background
    BY <2>1, <2>4 DEF Receive
  <2>5. ASSUME NEW p \in NodeIds,
               \/ FinalizeClient(p) \/ FinalizeServer(p)
               \/ CloseServer(p) \/ RunDaemon(p)
        PROVE  Background
    BY <2>1, <2>5 DEF FinalizeClient, FinalizeServer, CloseServer, RunDaemon
  <2> QED BY <1>1, <2>2, <2>3, <2>4, <2>5 DEF ServiceStep, RpcStep
<1>2. CASE UnfairStep
  <2>1. UNCHANGED <<test, count>>
    BY <1>2 DEF UnfairStep
  <2>2. ASSUME NEW c \in Calls, Disconnect(c)
        PROVE  Background
    BY <2>1, <2>2 DEF Disconnect
  <2>3. ASSUME NEW p \in NodeIds, Crash(p)
        PROVE  Background
    BY <2>1, <2>3 DEF Crash
  <2>4. CASE StopCut("aborted")
    BY <2>1, <2>4 DEF StopCut
  <2> QED BY <1>2, <2>2, <2>3, <2>4 DEF UnfairStep
<1>3. ASSUME NEW p \in Procs \ {Caller}, ServerInit(p) \/ TestRunner(p)
      PROVE  Background
  BY <1>3 DEF ServerInit, TestRunner, Goto
<1>4. CASE UNCHANGED vars
  BY <1>4 DEF vars, rpcVars
<1> QED BY <1>1, <1>2, <1>3, <1>4

\* The caller's main thread on its way to the test.
CallerStarts ==
  /\ pc[Caller] \in {"start", "sleep"}
  /\ \/ pc'[Caller] \in {"sleep", "aborted"}
     \/ pc'[Caller] = "issue" /\ test \in KnownTests
     \/ pc'[Caller] = "stopSend" /\ test \notin KnownTests
  /\ UNCHANGED <<call, responses, at, test, count>>

\* Every step is one of the caller's main thread or in the background.
LEMMA StepCases ==
  ASSUME TypeInv, LoopOrder, [Next]_vars
  PROVE  \/ Background
         \/ CallerStarts
         \/ SyncIssue \/ SyncReturn
         \/ AsyncIssue \/ AsyncReturn
         \/ CallFails
         \/ Issued
         \/ Collect \/ Collected \/ CollectFails
         \/ StopAllDaemons
<1>1. ASSUME NEW p \in Procs, p # Caller, ServerInit(p) \/ TestRunner(p)
      PROVE  Background
  BY <1>1, BackgroundSteps
<1>2. CASE ServerInit(Caller) \/ TestRunner(Caller)
  BY <1>2, ProcFacts
     DEF ServerInit, TestRunner, Goto, CallerStarts, TypeInv, TypeOK
<1>3. CASE ServiceStep \/ UnfairStep \/ UNCHANGED vars
  BY <1>3, BackgroundSteps
<1> QED BY <1>1, <1>2, <1>3 DEF Next, MainStep

\* The loop variables after an iteration: exactly the current calls have
\* been passed.
LEMMA AdvanceOrder ==
  ASSUME TypeInv, LoopOrder, More, Advance, UNCHANGED test
  PROVE  /\ at'.rep = 0 \/ at'.rep < R'
         /\ at'.node # 1 \/ at.node = 1
         /\ \A c \in TestCalls :
              c.rpc = Cur.rpc /\ c.rep < R =>
                (Ahead(c)' <=> Ahead(c) /\ c # Cur)
         /\ \A c \in TestCalls : Ahead(c)' => Ahead(c) /\ c # Cur
         /\ at.node <= at'.node
<1> USE RpcAssumption DEF TypeInv, TypeOK, LoopOrder
<1>1. /\ at.node \in 1 .. NumHosts /\ at.rep \in 0 .. Rep /\ R \in Nat
      /\ at.rep < R /\ R' = R
  BY DEF More, R, IsPing
<1>2. \A c \in TestCalls : /\ c.node \in 1 .. NumHosts /\ c.rep \in 0 .. Rep
                           /\ c = [rpc |-> c.rpc, node |-> c.node, rep |-> c.rep]
  BY DEF TestCalls, Calls, NodeIds
<1>3. \A c \in TestCalls :
        c.rpc = Cur.rpc => (c = Cur <=> c.node = at.node /\ c.rep = at.rep)
  BY <1>2 DEF Cur
<1>4. CASE at.rep + 1 < R
  <2>1. at'.node = at.node /\ at'.rep = at.rep + 1
    BY <1>1, <1>4 DEF Advance
  <2>2. at'.rep < R' /\ at.node <= at'.node /\ (at'.node # 1 \/ at.node = 1)
    BY <1>1, <1>4, <2>1
  <2>3. ASSUME NEW c
        PROVE  Ahead(c)' <=> c.node > at.node
                             \/ (c.node = at.node /\ c.rep >= at.rep + 1)
    BY <2>1 DEF Ahead
  <2>4. ASSUME NEW c \in TestCalls
        PROVE  /\ Ahead(c)' => Ahead(c) /\ c # Cur
               /\ c.rpc = Cur.rpc /\ Ahead(c) /\ c # Cur => Ahead(c)'
    <3>1. /\ c.node \in Nat /\ c.rep \in Nat
          /\ Cur.node = at.node /\ Cur.rep = at.rep
      BY <1>2 DEF Cur
    <3>2. Ahead(c) <=> c.node > at.node \/ (c.node = at.node /\ c.rep >= at.rep)
      BY DEF Ahead
    <3>3. c.rpc = Cur.rpc => (c = Cur <=> c.node = at.node /\ c.rep = at.rep)
      BY <1>3
    <3>4. Ahead(c)' => Ahead(c) /\ c # Cur
      BY <1>1, <2>3, <3>1, <3>2
    <3> QED BY <1>1, <2>3, <3>1, <3>2, <3>3, <3>4
  <2> QED BY <2>2, <2>4
<1>5. CASE ~(at.rep + 1 < R)
  <2>1. at'.node = at.node + 1 /\ at'.rep = 0
    BY <1>1, <1>5 DEF Advance
  <2>2. \A c \in TestCalls : c.rep < R => c.rep <= at.rep
    BY <1>1, <1>2, <1>5
  <2>3. ASSUME NEW c
        PROVE  Ahead(c)' <=> c.node > at.node + 1
                             \/ (c.node = at.node + 1 /\ c.rep >= 0)
    BY <2>1 DEF Ahead
  <2>4. ASSUME NEW c \in TestCalls
        PROVE  Ahead(c)' <=> c.node > at.node
    <3>1. c.node \in Nat /\ c.rep \in Nat
      BY <1>2
    <3>2. c.node > at.node + 1 \/ (c.node = at.node + 1 /\ c.rep >= 0)
            <=> c.node > at.node
      BY <1>1, <3>1
    <3> QED BY <2>3, <3>2
  <2>5. at'.rep = 0 /\ at'.node # 1 /\ at.node <= at'.node
    BY <1>1, <2>1
  <2>6. \A c \in TestCalls : c.node > at.node => Ahead(c) /\ c # Cur
    <3>1. Cur.node = at.node
      BY DEF Cur
    <3> QED BY <1>1, <1>2, <3>1 DEF Ahead
  <2>7. \A c \in TestCalls :
          c.rpc = Cur.rpc /\ c.rep < R /\ Ahead(c) /\ c # Cur
            => c.node > at.node
    BY <1>1, <1>2, <1>3, <2>2 DEF Ahead
  <2> QED BY <2>4, <2>5, <2>6, <2>7
<1> QED BY <1>4, <1>5
-----------------------------------------------------------------------------
(***************************************************************************)
(* NoReissue: a loop never makes a call that was made before.              *)
(***************************************************************************)

\* The order of the loops holds initially and is preserved by every step.
LEMMA LoopInvInductive ==
  /\ Init => LoopInv
  /\ LoopInv /\ [Next]_vars => LoopInv'
<1> USE RpcAssumption, BenchAssumption, ProcFacts
<1>1. Init => LoopInv
  BY TypeInvInductive
     DEF Init, RpcInit, LoopInv, LoopOrder, Ahead, TestCalls
<1>2. ASSUME LoopInv, [Next]_vars
      PROVE  LoopInv'
  <2> SUFFICES LoopOrder'
    BY <1>2, TypeInvInductive DEF LoopInv
  <2> USE <1>2 DEF LoopInv
  <2>a. TypeInv' /\ TypeOK /\ TypeOK'
    BY TypeInvInductive DEF TypeInv
  <2>1. CASE Background
    <3>1. Cur' = Cur /\ R' = R /\ More' = More /\ \A c : Ahead(c)' = Ahead(c)
      BY <2>1 DEF Background, Cur, IsIo, R, IsPing, More, Ahead
    <3>2. \A c \in TestCalls : call[c] = "idle" => call'[c] = "idle"
      BY <2>1 DEF Background, UnderWay, TestCalls
    <3> QED BY <2>1, <3>1, <3>2 DEF Background, LoopOrder
  <2>2. CASE CallerStarts
    BY <2>2 DEF CallerStarts, LoopOrder, Cur, IsIo, R, IsPing, More, Ahead
  <2>3. CASE SyncIssue \/ AsyncIssue
    <3>1. /\ pc[Caller] = "issue" /\ pc'[Caller] \in {"await", "return"}
          /\ More /\ Cur \in TestCalls
          /\ \E s \in {"queued", "failed"} : call' = [call EXCEPT ![Cur] = s]
          /\ UNCHANGED <<at, test>>
      BY <2>3, <2>a, CurFacts
         DEF SyncIssue, AsyncIssue, Sends, FailsLater, Goto, TypeOK
    <3>2. Cur' = Cur /\ R' = R /\ More' = More /\ \A c : Ahead(c)' = Ahead(c)
      BY <3>1 DEF Cur, IsIo, R, IsPing, More, Ahead
    <3>3. \A c \in TestCalls : c # Cur => call'[c] = call[c]
      BY <3>1, <2>a DEF TypeOK, TestCalls
    <3>4. Cur.rep < R
      BY <3>1, <2>a DEF LoopOrder, More, Cur
    <3>5. \A c \in TestCalls : c.rpc # Cur.rpc \/ c.rep >= R => c # Cur
      BY <3>4, RpcAssumption DEF TestCalls, Calls, R
    <3> QED BY <3>1, <3>2, <3>3, <3>5 DEF LoopOrder
  <2>4. CASE SyncReturn \/ AsyncReturn \/ (CallFails /\ IsPing)
    <3>1. /\ pc[Caller] \in {"issue", "await", "return"}
          /\ pc'[Caller] = "issue"
          /\ More /\ Advance
          /\ UNCHANGED <<call, test>>
      BY <2>4, <2>a DEF SyncReturn, AsyncReturn, CallFails, Goto, TypeInv,
         InLoop, TypeOK
    <3>2. Cur'.rpc = Cur.rpc /\ R' = R
      BY <3>1 DEF Cur, IsIo, R, IsPing
    <3>3. \A c \in TestCalls : Ahead(c)' => Ahead(c) /\ c # Cur
      BY <3>1, AdvanceOrder
    <3>4. at'.rep = 0 \/ at'.rep < R'
      BY <3>1, AdvanceOrder
    <3> QED BY <3>1, <3>2, <3>3, <3>4 DEF LoopOrder
  <2>5. CASE \/ CallFails /\ ~IsPing
             \/ Issued /\ IsAsync
             \/ Collect
             \/ CollectFails /\ ~IsPing
    <3>1. /\ \/ pc'[Caller] = "aborted"
             \/ pc[Caller] \in {"issue", "collect"} /\ ~More
                /\ pc'[Caller] = "collect"
          /\ UNCHANGED <<call, at, test>>
      BY <2>5, <2>a DEF CallFails, Issued, Collect, CollectFails, Goto, TypeOK,
         LoopOrder
    <3> QED BY <3>1 DEF LoopOrder, Cur, IsIo, R, IsPing, More
  <2>6. CASE \/ Issued /\ ~IsAsync
             \/ Collected
             \/ CollectFails /\ IsPing
    <3>1. /\ pc'[Caller] = "stopSend"
          /\ at'.rep = 0
          /\ UNCHANGED <<call, test>>
      BY <2>6, <2>a DEF Issued, Collected, CollectFails, EndTest, Goto, TypeOK
    <3> QED BY <3>1 DEF LoopOrder, Cur, IsIo, R, IsPing
  <2>7. CASE StopAllDaemons
    <3>1. /\ pc'[Caller] \in {"stopSend", "stopWait", "exited", "aborted"}
          /\ UNCHANGED test
          /\ at'.rep = at.rep
      BY <2>7, <2>a DEF StopAllDaemons, StopSend, StopSent, StopWait,
         StopThrow, TypeOK
    <3>2. \A c \in TestCalls : call'[c] = call[c]
      <4>1. CASE StopSend
        <5>1. \E s : call' = [call EXCEPT ![StopCall(at.node)] = s]
          BY <4>1 DEF StopSend, Sends, FailsLater
        <5>2. StopCall(at.node).rpc = "RpcStopDaemon"
          BY DEF StopCall
        <5> QED BY <5>1, <5>2, <2>a DEF TestCalls, TypeOK
      <4> QED BY <2>7, <4>1 DEF StopAllDaemons, StopSent, StopWait, StopThrow
    <3> QED BY <3>1, <3>2 DEF LoopOrder, Cur, IsIo, R, IsPing
  <2> QED BY <2>1, <2>2, <2>3, <2>4, <2>5, <2>6, <2>7, StepCases

<1> QED BY <1>1, <1>2

\* No step changes the outcome of a call that has one.
LEMMA OutcomeKept ==
  ASSUME StopInv, LoopInv, [Next]_vars,
         NEW c \in Calls, call[c] \in {"ok", "failed", "nomatch"}
  PROVE  call'[c] = call[c]
<1> USE RpcAssumption, BenchAssumption, ProcFacts, StopCallFacts
        DEF StopInv, RegInv, TypeInv, TypeOK, LoopInv
<1>1. CASE Background
  BY <1>1 DEF Background, UnderWay
<1>2. CASE SyncIssue \/ AsyncIssue
  <2>1. /\ pc[Caller] = "issue"
        /\ Cur \in TestCalls
        /\ \E s : call' = [call EXCEPT ![Cur] = s]
    BY <1>2, CurFacts DEF SyncIssue, AsyncIssue, Sends, FailsLater
  <2>2. Ahead(Cur)
    BY DEF Ahead, Cur
  <2>3. call[Cur] = "idle"
    BY <2>1, <2>2 DEF LoopOrder
  <2> QED BY <2>1, <2>3
<1>3. CASE StopSend
  <2>1. /\ pc[Caller] = "stopSend"
        /\ at.node \in NodeIds
        /\ \/ call' = [call EXCEPT ![StopCall(at.node)] = "queued"]
           \/ call' = [call EXCEPT ![StopCall(at.node)] = "failed"]
    BY <1>3 DEF StopSend, Sends, FailsLater, NodeIds
  <2>2. call[StopCall(at.node)] = "idle"
    BY <2>1 DEF StopOrder
  <2> QED BY <2>1, <2>2
<1>4. CASE \/ CallerStarts \/ SyncReturn \/ AsyncReturn \/ CallFails \/ Issued
           \/ Collect \/ Collected \/ CollectFails
           \/ StopAllDaemons /\ ~StopSend
  BY <1>4 DEF CallerStarts, SyncReturn, AsyncReturn, CallFails, Issued, Collect,
     Collected, CollectFails, StopAllDaemons, StopSent, StopWait, StopThrow
<1> QED BY <1>1, <1>2, <1>3, <1>4, StepCases

\* The outcome of a call is final, whatever the loops, the servers and the
\* faults do: nothing is sent twice.
THEOREM CallsAreNotReissued == Spec => NoReissue
<1>1. Spec => [](StopInv /\ LoopInv)
  BY StopInvInductive, LoopInvInductive, PTL DEF Spec
<1>2. StopInv /\ LoopInv /\ [Next]_vars =>
        [\A c \in Calls :
           call[c] \in {"ok", "failed", "nomatch"} => call'[c] = call[c]]_vars
  BY OutcomeKept
<1> QED BY <1>1, <1>2, PTL DEF Spec, NoReissue
-----------------------------------------------------------------------------
(***************************************************************************)
(* ReportSound and ExitClean: what has been answered when a loop of waits  *)
(* ends.                                                                   *)
(***************************************************************************)

\* A response is outstanding from the moment it is pushed ...
LEMMA AppendOutstanding ==
  ASSUME responses \in Seq(Calls), NEW d \in Calls,
         responses' = Append(responses, d)
  PROVE  \A c : Outstanding(c)' <=> Outstanding(c) \/ c = d
<1> TAKE c
<1>1. Len(responses') = Len(responses) + 1 /\ Len(responses) \in Nat
  OBVIOUS
<1>2. ASSUME Outstanding(c)
      PROVE  Outstanding(c)'
  <2>1. PICK i \in 1 .. Len(responses) : responses[i] = c
    BY <1>2 DEF Outstanding
  <2>2. responses'[i] = c /\ i \in 1 .. Len(responses')
    BY <1>1, <2>1
  <2> QED BY <2>2 DEF Outstanding
<1>3. ASSUME c = d
      PROVE  Outstanding(c)'
  <2>1. responses'[Len(responses')] = c /\ Len(responses') \in 1 .. Len(responses')
    BY <1>1, <1>3
  <2> QED BY <2>1 DEF Outstanding
<1>4. ASSUME Outstanding(c)', c # d
      PROVE  Outstanding(c)
  <2>1. PICK i \in 1 .. Len(responses') : responses'[i] = c
    BY <1>4 DEF Outstanding
  <2>2. i \in 1 .. Len(responses) /\ responses[i] = c
    BY <1>1, <1>4, <2>1
  <2> QED BY <2>2 DEF Outstanding
<1> QED BY <1>2, <1>3, <1>4

\* ... until it is the oldest one and its wait returns.
LEMMA TailOutstanding ==
  ASSUME responses \in Seq(Calls), responses # <<>>,
         responses' = Tail(responses)
  PROVE  \A c : /\ Outstanding(c) => Outstanding(c)' \/ c = Head(responses)
                /\ Outstanding(c)' => Outstanding(c)
<1> TAKE c
<1>1. /\ Len(responses') = Len(responses) - 1 /\ Len(responses) \in Nat \ {0}
      /\ Head(responses) = responses[1]
      /\ \A i \in 1 .. Len(responses') : responses'[i] = responses[i + 1]
  OBVIOUS
<1>2. ASSUME Outstanding(c), c # Head(responses)
      PROVE  Outstanding(c)'
  <2>1. PICK i \in 1 .. Len(responses) : responses[i] = c
    BY <1>2 DEF Outstanding
  <2>2. i - 1 \in 1 .. Len(responses') /\ responses'[i - 1] = c
    BY <1>1, <1>2, <2>1
  <2> QED BY <2>2 DEF Outstanding
<1>3. ASSUME Outstanding(c)'
      PROVE  Outstanding(c)
  <2>1. PICK i \in 1 .. Len(responses') : responses'[i] = c
    BY <1>3 DEF Outstanding
  <2>2. i + 1 \in 1 .. Len(responses) /\ responses[i + 1] = c
    BY <1>1, <2>1
  <2> QED BY <2>2 DEF Outstanding
<1> QED BY <1>2, <1>3

\* When a test's loop has no iteration left, every call of it is passed.
LEMMA LoopOver ==
  ASSUME TypeInv, ~More, NEW c \in TestCalls, c.rep < R
  PROVE  ~Ahead(c)
<1>1. R \in Nat /\ c.rep \in Nat /\ c.node \in 1 .. NumHosts
  BY RpcAssumption DEF R, TestCalls, Calls, NodeIds
<1>2. at.node = NumHosts + 1
  BY <1>1, RpcAssumption DEF More, TypeInv, TypeOK
<1> QED BY <1>1, <1>2, RpcAssumption DEF Ahead

\* Every step keeps the answers of the test's calls.
LEMMA AnsweredStep ==
  ASSUME StopInv, LoopInv, Answered, [Next]_vars
  PROVE  Answered'
<1> USE RpcAssumption, BenchAssumption, ProcFacts
<1>a. TypeOK /\ TypeInv /\ Tracked
  BY DEF StopInv, RegInv, TypeInv
<1>b. /\ \A c \in TestCalls : c \in Calls
      /\ \A c \in TestCalls : call[c] = "ok" => call'[c] = "ok"
  BY OutcomeKept DEF TestCalls
<1>c. ~IsAsync /\ pc[Caller] \in {"issue", "await"} =>
        \A c : ~Outstanding(c)
  BY <1>a DEF Tracked, Outstanding
<1>1. CASE Background \/ CallerStarts
  <2>1. /\ UNCHANGED <<responses, at, test>>
        /\ \/ pc'[Caller] = pc[Caller]
           \/ pc'[Caller] \in {"aborted", "crashed"}
           \/ CallerStarts
    BY <1>1 DEF Background, CallerStarts
  <2>2. /\ Cur' = Cur /\ R' = R /\ IsPing' = IsPing
        /\ \A c : Ahead(c)' = Ahead(c) /\ Outstanding(c)' = Outstanding(c)
    BY <2>1 DEF Cur, IsIo, R, IsPing, Ahead, Outstanding
  <2>3. CASE CallerStarts
    <3>1. at.node = 1 /\ at.rep = 0
      BY <2>3 DEF CallerStarts, LoopInv, LoopOrder
    <3>2. \A c \in TestCalls : Ahead(c)
      BY <3>1 DEF Ahead, TestCalls, Calls, NodeIds
    <3> QED BY <2>1, <2>2, <2>3, <3>2 DEF CallerStarts, Answered
  <2> QED BY <2>1, <2>2, <2>3, <1>b DEF Answered
<1>2. CASE SyncIssue \/ AsyncIssue
  <2>1. /\ pc[Caller] = "issue"
        /\ pc'[Caller] = IF IsAsync THEN "return" ELSE "await"
        /\ UNCHANGED <<responses, at, test>>
    BY <1>2, <1>a DEF SyncIssue, AsyncIssue, Goto, TypeOK
  <2>2. /\ Cur' = Cur /\ R' = R /\ IsPing' = IsPing
        /\ \A c : Ahead(c)' = Ahead(c) /\ Outstanding(c)' = Outstanding(c)
    BY <2>1 DEF Cur, IsIo, R, IsPing, Ahead, Outstanding
  <2> QED BY <2>1, <2>2, <1>b, <1>c DEF Answered
<1>3. CASE SyncReturn \/ AsyncReturn
  <2>1. /\ pc[Caller] \in {"await", "return"}
        /\ pc'[Caller] = "issue"
        /\ More /\ Advance /\ UNCHANGED test
        /\ pc[Caller] = "await" => call[Cur] = "ok" /\ UNCHANGED responses
        /\ pc[Caller] = "return" => responses' = Append(responses, Cur)
    BY <1>3, <1>a DEF SyncReturn, AsyncReturn, Goto, Returns, TypeInv, InLoop,
       TypeOK
  <2>2. Cur'.rpc = Cur.rpc /\ R' = R /\ IsPing' = IsPing /\ Cur \in TestCalls
    BY <2>1, <1>a, CurFacts DEF Cur, IsIo, R, IsPing
  <2>3. \A c \in TestCalls :
          c.rpc = Cur.rpc /\ c.rep < R => (Ahead(c)' <=> Ahead(c) /\ c # Cur)
    BY <2>1, AdvanceOrder DEF LoopInv
  <2>4. \A c \in TestCalls : Outstanding(c) => Outstanding(c)'
    <3>1. CASE pc[Caller] = "await"
      BY <3>1, <2>1 DEF Outstanding
    <3>2. CASE pc[Caller] = "return"
      BY <3>2, <2>1, <2>2, <1>a, <1>b, AppendOutstanding DEF TypeOK
    <3> QED BY <2>1, <3>1, <3>2
  <2>5. \A c \in TestCalls : c = Cur => call'[c] = "ok" \/ Outstanding(c)'
    BY <2>1, <2>2, <1>a, <1>b, AppendOutstanding DEF TypeOK
  <2>6. ASSUME ~IsPing, test \in KnownTests, NEW c \in TestCalls,
               c.rpc = Cur.rpc, c.rep < R, ~Ahead(c)'
        PROVE  call'[c] = "ok" \/ Outstanding(c)'
    <3>1. CASE c = Cur
      BY <3>1, <2>5
    <3>2. CASE c # Cur
      BY <3>2, <2>1, <2>3, <2>4, <2>6, <1>b DEF Answered
    <3> QED BY <3>1, <3>2
  <2> QED BY <2>1, <2>2, <2>6 DEF Answered
<1>4. CASE CallFails \/ CollectFails
  <2>1. IsPing' = IsPing /\ (IsPing \/ pc'[Caller] = "aborted")
    BY <1>4, <1>a DEF CallFails, CollectFails, Goto, IsPing, TypeOK
  <2> QED BY <2>1 DEF Answered
<1>5. CASE Issued /\ IsAsync
  <2>1. /\ pc[Caller] = "issue" /\ pc'[Caller] = "collect"
        /\ UNCHANGED <<responses, at, test>>
    BY <1>5, <1>a DEF Issued, Goto, TypeOK
  <2>2. /\ Cur' = Cur /\ R' = R /\ IsPing' = IsPing
        /\ \A c : Ahead(c)' = Ahead(c) /\ Outstanding(c)' = Outstanding(c)
    BY <2>1 DEF Cur, IsIo, R, IsPing, Ahead, Outstanding
  <2> QED BY <2>1, <2>2, <1>b DEF Answered
<1>6. CASE (Issued /\ ~IsAsync) \/ Collected
  <2>a. ~More
    BY <1>6 DEF Issued, Collected, LoopInv, LoopOrder
  <2>1. /\ pc[Caller] \in {"issue", "collect"}
        /\ pc'[Caller] = "stopSend"
        /\ UNCHANGED test
    BY <1>6, <1>a DEF Issued, Collected, EndTest, Goto, TypeOK
  <2>2. Cur'.rpc = Cur.rpc /\ R' = R /\ IsPing' = IsPing
    BY <2>1 DEF Cur, IsIo, R, IsPing
  <2>3. \A c : ~Outstanding(c)
    <3>1. CASE Collected
      BY <3>1 DEF Collected, Outstanding
    <3>2. CASE Issued /\ ~IsAsync
      BY <3>2, <1>c DEF Issued
    <3> QED BY <1>6, <3>1, <3>2
  <2> QED BY <2>a, <2>1, <2>2, <2>3, <1>a, <1>b, LoopOver DEF Answered
<1>7. CASE Collect
  <2>1. /\ pc[Caller] = "collect" /\ UNCHANGED <<pc, at, test>>
        /\ responses # <<>> /\ call[Head(responses)] = "ok"
        /\ responses' = Tail(responses)
    BY <1>7 DEF Collect, Returns
  <2>2. /\ Cur' = Cur /\ R' = R /\ IsPing' = IsPing
        /\ \A c : Ahead(c)' = Ahead(c)
    BY <2>1 DEF Cur, IsIo, R, IsPing, Ahead
  <2>3. \A c : Outstanding(c) => Outstanding(c)' \/ call[c] = "ok"
    BY <2>1, <1>a, TailOutstanding DEF TypeOK
  <2> QED BY <2>1, <2>2, <2>3, <1>b DEF Answered
<1>8. CASE StopAllDaemons
  <2>1. /\ pc[Caller] \in {"stopSend", "stopWait"}
        /\ pc'[Caller] \in {"stopSend", "stopWait", "exited", "aborted"}
        /\ UNCHANGED test
    BY <1>8, <1>a DEF StopAllDaemons, StopSend, StopSent, StopWait, StopThrow,
       TypeOK
  <2>2. Cur'.rpc = Cur.rpc /\ R' = R /\ IsPing' = IsPing
    BY <2>1 DEF Cur, IsIo, R, IsPing
  <2> QED BY <2>1, <2>2, <1>b DEF Answered
<1> QED BY <1>1, <1>2, <1>3, <1>4, <1>5, <1>6, <1>7, <1>8, StepCases
        DEF LoopInv

\* Every step keeps the acknowledgements of the stop messages.
LEMMA StopAnsweredStep ==
  ASSUME StopInv, LoopInv, StopAnswered, [Next]_vars
  PROVE  StopAnswered'
<1> USE RpcAssumption, BenchAssumption, ProcFacts, StopCallFacts
<1>a. TypeOK
  BY DEF StopInv, RegInv, TypeInv
<1>b. \A n \in NodeIds :
        call[StopCall(n)] = "ok" => call'[StopCall(n)] = "ok"
  BY OutcomeKept
<1>1. CASE Background
  <2>1. /\ UNCHANGED <<responses, at>>
        /\ \/ pc'[Caller] = pc[Caller]
           \/ pc'[Caller] \in {"aborted", "crashed"}
        /\ \A c : Outstanding(c)' = Outstanding(c)
    BY <1>1 DEF Background, Outstanding
  <2> QED BY <2>1, <1>b DEF StopAnswered
<1>2. CASE \/ CallerStarts \/ SyncIssue \/ SyncReturn \/ AsyncIssue
           \/ AsyncReturn \/ CallFails \/ Issued
           \/ Collect \/ Collected \/ CollectFails
  <2>1. /\ pc'[Caller] \notin {"stopWait", "exited"}
        /\ pc'[Caller] = "stopSend" => at'.node = 1
    BY <1>2, <1>a
       DEF CallerStarts, SyncIssue, SyncReturn, AsyncIssue, AsyncReturn,
           CallFails, Issued, Collect, Collected, CollectFails, EndTest, Goto,
           TypeOK, LoopInv, LoopOrder
  <2> QED BY <2>1 DEF StopAnswered, NodeIds
<1>3. CASE StopSend
  <2>1. /\ pc[Caller] = "stopSend" /\ UNCHANGED pc
        /\ at.node \in NodeIds /\ at'.node = at.node + 1
        /\ responses' = Append(responses, StopCall(at.node))
    BY <1>3, <1>a DEF StopSend, NodeIds, TypeOK
  <2>2. \A c : Outstanding(c)' <=> Outstanding(c) \/ c = StopCall(at.node)
    BY <2>1, <1>a, AppendOutstanding DEF TypeOK
  <2>3. \A n \in NodeIds : n < at'.node => n < at.node \/ n = at.node
    BY <2>1 DEF NodeIds
  <2>4. \A n \in NodeIds : StopCall(n)' = StopCall(n)
    BY DEF StopCall
  <2> QED BY <2>1, <2>2, <2>3, <2>4, <1>b DEF StopAnswered
<1>4. CASE StopSent
  <2>1. /\ pc[Caller] = "stopSend" /\ at.node > NumHosts
        /\ pc'[Caller] = "stopWait"
        /\ UNCHANGED responses
    BY <1>4, <1>a DEF StopSent, TypeOK
  <2>2. \A n \in NodeIds : n < at.node
    BY <2>1, <1>a DEF NodeIds, TypeOK
  <2>3. \A c : Outstanding(c)' = Outstanding(c)
    BY <2>1 DEF Outstanding
  <2> QED BY <2>1, <2>2, <2>3, <1>b DEF StopAnswered
<1>5. CASE StopWait("exited")
  <2>1. CASE responses # <<>>
    <3>1. /\ pc[Caller] = "stopWait" /\ UNCHANGED pc
          /\ call[Head(responses)] = "ok"
          /\ responses' = Tail(responses)
      BY <1>5, <2>1 DEF StopWait, Returns
    <3>2. \A c : Outstanding(c) => Outstanding(c)' \/ call[c] = "ok"
      BY <2>1, <3>1, <1>a, TailOutstanding DEF TypeOK
    <3> QED BY <3>1, <3>2, <1>b DEF StopAnswered
  <2>2. CASE responses = <<>>
    <3>1. /\ pc[Caller] = "stopWait" /\ pc'[Caller] = "exited"
      BY <1>5, <1>a, <2>2 DEF StopWait, TypeOK
    <3>2. \A c : ~Outstanding(c)
      BY <2>2 DEF Outstanding
    <3> QED BY <3>1, <3>2, <1>b DEF StopAnswered
  <2> QED BY <2>1, <2>2
<1>6. CASE StopThrow("aborted")
  BY <1>6, <1>a DEF StopThrow, StopAnswered, TypeOK
<1> QED BY <1>1, <1>2, <1>3, <1>4, <1>5, <1>6, StepCases
        DEF LoopInv, StopAllDaemons

\* Every step keeps PingAll's own call the oldest.
LEMMA OwnCallStep ==
  ASSUME StopInv, LoopInv, OwnCallFirst, [Next]_vars
  PROVE  OwnCallFirst'
<1> USE RpcAssumption, BenchAssumption, ProcFacts
<1>a. TypeOK /\ TypeInv /\ NoUnknownRpc
  BY DEF StopInv, RegInv, TypeInv
<1>b. test' = test
  BY DEF Next, MainStep, ServerInit, TestRunner, SyncIssue, SyncReturn,
     AsyncIssue, AsyncReturn, CallFails, Issued, Collect, Collected,
     CollectFails, StopAllDaemons, ServiceStep, UnfairStep, vars
<1> SUFFICES ASSUME test = "ping_async"
             PROVE  OwnCallFirst'
  BY <1>b DEF OwnCallFirst
<1>c. IsPing /\ IsAsync /\ R = 1 /\ ~IsIo
  BY DEF IsPing, IsAsync, R, IsIo
<1>d. OwnCall \in Calls /\ OwnCall \in TestCalls
  BY DEF OwnCall, Calls, TestCalls, RpcNames
<1>e. Cur' = [rpc |-> "RpcPing", node |-> at'.node, rep |-> at'.rep]
  BY <1>b, <1>c DEF Cur, IsIo
<1>f. OwnCall' = OwnCall
  BY DEF OwnCall
<1>g. Settled(OwnCall) /\ call[OwnCall] # "idle" => Settled(OwnCall)'
  BY <1>d, <1>f, OutcomeKept DEF Settled
<1>1. CASE Background \/ CallerStarts
  <2>1. call[OwnCall] = "idle" => call'[OwnCall] = "idle"
    BY <1>1, <1>d DEF Background, CallerStarts, UnderWay
  <2>2. Settled(OwnCall) => Settled(OwnCall)'
    BY <2>1, <1>f, <1>g DEF Settled
  <2>3. UNCHANGED <<responses, at>> /\ Cur' = Cur
    BY <1>1, <1>b DEF Background, CallerStarts, Cur, IsIo
  <2> QED BY <1>1, <1>f, <2>2, <2>3 DEF Background, CallerStarts, OwnCallFirst
<1>2. CASE AsyncIssue
  <2>1. /\ pc[Caller] = "issue" /\ pc'[Caller] = "return"
        /\ UNCHANGED <<responses, at>>
        /\ \E s : call' = [call EXCEPT ![Cur] = s]
    BY <1>2, <1>a DEF AsyncIssue, Goto, TypeOK, Sends, FailsLater
  <2>2. Cur' = Cur
    BY <2>1, <1>b DEF Cur, IsIo
  <2>3. OwnCall # Cur => call'[OwnCall] = call[OwnCall]
    BY <2>1, <1>d, <1>a DEF TypeOK
  <2> QED BY <2>1, <2>2, <2>3, <1>f DEF OwnCallFirst, Settled
<1>3. CASE AsyncReturn \/ SyncReturn \/ CallFails
  <2>1. /\ pc[Caller] \in {"issue", "await", "return"}
        /\ pc'[Caller] = "issue"
        /\ More /\ Advance /\ UNCHANGED call
        /\ \/ responses' = responses /\ pc[Caller] # "return"
           \/ responses' = Append(responses, Cur) /\ pc[Caller] = "return"
    BY <1>3, <1>a, <1>c DEF AsyncReturn, SyncReturn, CallFails, Goto, TypeInv,
       InLoop, TypeOK
  <2>2. at'.node = at.node + 1
    BY <2>1, <1>a, <1>c DEF Advance, TypeOK
  <2>3. at'.node # 1
    BY <2>2, <1>a DEF TypeOK
  <2>4. CASE pc[Caller] # "return"
    BY <2>1, <2>3, <2>4, <1>f DEF OwnCallFirst, Settled
  <2>5. CASE pc[Caller] = "return"
    <3>1. Cur \in Calls /\ responses \in Seq(Calls)
      BY <2>1, <1>a, CurFacts DEF TypeOK
    <3>2. CASE OwnCall = Cur
      <4>1. at.node = 1
        BY <3>2 DEF OwnCall, Cur
      <4>2. responses = <<>>
        BY <4>1, <2>5 DEF OwnCallFirst
      <4>3. responses' # <<>> /\ responses'[1] = OwnCall
        <5>1. responses' = Append(<<>>, OwnCall)
          BY <3>2, <4>2, <2>1, <2>5
        <5>2. Len(responses') = 1 /\ responses'[1] = OwnCall
          BY <5>1, <1>d
        <5> QED BY <5>2
      <4> QED BY <2>1, <2>3, <4>3, <1>f DEF OwnCallFirst
    <3>3. CASE OwnCall # Cur
      <4>1. Settled(OwnCall) \/ (responses # <<>> /\ responses[1] = OwnCall)
        BY <3>3, <2>5 DEF OwnCallFirst
      <4>2. responses # <<>> /\ responses[1] = OwnCall =>
              responses' # <<>> /\ responses'[1] = OwnCall
        BY <3>1, <2>1, <2>5
      <4>3. Settled(OwnCall) => Settled(OwnCall)'
        BY <2>1, <1>f DEF Settled
      <4> QED BY <2>1, <2>3, <4>1, <4>2, <4>3, <1>f DEF OwnCallFirst
    <3> QED BY <3>2, <3>3
  <2> QED BY <2>4, <2>5
<1>4. CASE Issued
  <2>1. /\ pc[Caller] = "issue" /\ pc'[Caller] = "collect"
        /\ UNCHANGED <<call, responses>>
    BY <1>4, <1>a, <1>c DEF Issued, Goto, TypeOK
  <2> QED BY <2>1, <1>f DEF OwnCallFirst, Settled
<1>5. CASE Collect \/ Collected \/ CollectFails
  <2>1. /\ pc[Caller] = "collect"
        /\ UNCHANGED call
        /\ responses # <<>> => call[responses[1]] \in {"ok", "failed", "nomatch"}
        /\ pc'[Caller] \in {"collect", "stopSend"}
    BY <1>5, <1>a, <1>c DEF Collect, Collected, CollectFails, Returns, Raises,
       EndTest, Goto, TypeOK
  <2>2. Settled(OwnCall)
    BY <2>1, <1>a, <1>d DEF OwnCallFirst, Settled, NoUnknownRpc
  <2> QED BY <2>1, <2>2, <1>f DEF OwnCallFirst, Settled
<1>6. CASE StopAllDaemons
  <2>1. /\ pc[Caller] \in {"stopSend", "stopWait"}
        /\ pc'[Caller] \in {"stopSend", "stopWait", "exited", "aborted"}
    BY <1>6, <1>a DEF StopAllDaemons, StopSend, StopSent, StopWait, StopThrow,
       TypeOK
  <2>2. call'[OwnCall] = call[OwnCall]
    <3>1. CASE StopSend
      <4>1. \/ call' = [call EXCEPT ![StopCall(at.node)] = "queued"]
            \/ call' = [call EXCEPT ![StopCall(at.node)] = "failed"]
        BY <3>1 DEF StopSend, Sends, FailsLater
      <4>2. OwnCall # StopCall(at.node)
        BY DEF OwnCall, StopCall
      <4> QED BY <4>1, <4>2, <1>a, <1>d DEF TypeOK
    <3> QED BY <1>6, <3>1 DEF StopAllDaemons, StopSent, StopWait, StopThrow
  <2>3. Settled(OwnCall)
    BY <2>1 DEF OwnCallFirst
  <2> QED BY <2>1, <2>2, <2>3, <1>f DEF OwnCallFirst, Settled
<1> QED BY <1>1, <1>2, <1>3, <1>4, <1>5, <1>6, <1>c, StepCases
        DEF LoopInv, SyncIssue

\* What the loops have done holds initially and is preserved by every step.
LEMMA AnswerInvInductive ==
  /\ Init => AnswerInv
  /\ AnswerInv /\ [Next]_vars => AnswerInv'
<1> USE RpcAssumption, BenchAssumption, ProcFacts
<1>1. Init => AnswerInv
  <2> SUFFICES ASSUME Init PROVE AnswerInv
    OBVIOUS
  <2>1. StopInv /\ LoopInv
    BY StopInvInductive, LoopInvInductive
  <2>2. /\ pc[Caller] = "start" /\ at.node = 1 /\ at.rep = 0
        /\ responses = <<>>
        /\ \A c \in Calls : call[c] = "idle"
    BY DEF Init, RpcInit
  <2>3. Answered
    BY <2>2 DEF Answered, Ahead, TestCalls, Calls, NodeIds
  <2>4. OwnCall \in Calls
    BY DEF OwnCall, Calls, RpcNames
  <2> QED BY <2>1, <2>2, <2>3, <2>4
          DEF AnswerInv, StopAnswered, OwnCallFirst, Settled
<1>2. AnswerInv /\ [Next]_vars => AnswerInv'
  BY StopInvInductive, LoopInvInductive, AnsweredStep, StopAnsweredStep,
     OwnCallStep DEF AnswerInv
<1> QED BY <1>1, <1>2

\* The calls a test with rpc makes: Rep to every node.
CallsOf(rpc) == {[rpc |-> rpc, node |-> n, rep |-> i] :
                   n \in NodeIds, i \in 0 .. Rep - 1}

\* A test makes NumHosts * Rep different calls.
LEMMA CallsOfATest ==
  ASSUME NEW rpc
  PROVE  Cardinality(CallsOf(rpc)) = NumHosts * Rep
<1> DEFINE pairs == NodeIds \X (0 .. Rep - 1)
           f == [p \in pairs |-> [rpc |-> rpc, node |-> p[1], rep |-> p[2]]]
<1>1. /\ IsFiniteSet(NodeIds) /\ Cardinality(NodeIds) = NumHosts
      /\ IsFiniteSet(0 .. Rep - 1) /\ Cardinality(0 .. Rep - 1) = Rep
  <2>1. IsFiniteSet(1 .. NumHosts) /\ Cardinality(1 .. NumHosts) = NumHosts
    BY RpcAssumption, FS_Interval
  <2>2. IsFiniteSet(0 .. Rep - 1) /\ Cardinality(0 .. Rep - 1) = Rep
    BY RpcAssumption, FS_Interval
  <2> QED BY <2>1, <2>2 DEF NodeIds
<1>2. IsFiniteSet(pairs) /\ Cardinality(pairs) = NumHosts * Rep
  BY <1>1, FS_Product
<1>3. f \in [pairs -> CallsOf(rpc)]
  BY DEF CallsOf
<1>4. \A p, q \in pairs : f[p] = f[q] => p = q
  OBVIOUS
<1>5. \A m \in CallsOf(rpc) : \E p \in pairs : f[p] = m
  <2> TAKE m \in CallsOf(rpc)
  <2>1. PICK n \in NodeIds, i \in 0 .. Rep - 1 :
          m = [rpc |-> rpc, node |-> n, rep |-> i]
    BY DEF CallsOf
  <2>2. <<n, i>> \in pairs /\ f[<<n, i>>] = m
    BY <2>1
  <2> QED BY <2>2
<1> HIDE DEF f, pairs
<1>6. f \in Bijection(pairs, CallsOf(rpc))
  BY <1>3, <1>4, <1>5 DEF Bijection, Injection, Surjection, IsInjective
<1>7. ExistsBijection(pairs, CallsOf(rpc))
  BY <1>6 DEF ExistsBijection
<1> QED BY <1>2, <1>7, FS_Bijection

\* The operations IoCalls and MetadataCalls divide by the run time were made:
\* when the test is over NumHosts * Rep calls have been answered.  It says
\* nothing of the two tests of PingAll.
THEOREM ReportsAreSound == Spec => []ReportSound
<1>1. Spec => []AnswerInv
  BY AnswerInvInductive, PTL DEF Spec
<1>2. AnswerInv => ReportSound
  <2> SUFFICES ASSUME AnswerInv, ~IsPing, test \in KnownTests,
                      pc[Caller] \in {"stopSend", "stopWait", "exited"}
               PROVE  Cardinality({c \in TestCalls : call[c] = "ok"})
                        = NumHosts * Rep
    BY DEF ReportSound
  <2> DEFINE made == CallsOf(Cur.rpc)
  <2> USE RpcAssumption DEF AnswerInv, LoopInv
  <2>1. R = Rep /\ Cur.rpc \in {"RpcPing", "RpcTaskSubmit"}
    BY DEF R, Cur
  <2>2. \A c \in TestCalls : c.rpc = Cur.rpc /\ c.rep < R => call[c] = "ok"
    BY DEF Answered
  <2>3. \A c \in TestCalls : call[c] = "ok" => c.rpc = Cur.rpc /\ c.rep < R
    <3> TAKE c \in TestCalls
    <3>1. c.rep \in Nat /\ R \in Nat
      BY <2>1 DEF TestCalls, Calls
    <3> QED BY <3>1 DEF LoopOrder
  <2>4. \A c : c \in made <=> c \in TestCalls /\ c.rpc = Cur.rpc /\ c.rep < R
    <3> HIDE DEF AnswerInv, LoopInv
    <3>1. ASSUME NEW c, c \in made
          PROVE  c \in TestCalls /\ c.rpc = Cur.rpc /\ c.rep < R
      BY <3>1, <2>1 DEF CallsOf, TestCalls, Calls, RpcNames
    <3>2. ASSUME NEW c \in TestCalls, c.rpc = Cur.rpc, c.rep < R
          PROVE  c \in made
      <4>1. /\ c = [rpc |-> c.rpc, node |-> c.node, rep |-> c.rep]
            /\ c.node \in NodeIds /\ c.rep \in 0 .. Rep
        BY DEF TestCalls, Calls
      <4>2. c.rep \in 0 .. Rep - 1
        BY <4>1, <3>2, <2>1
      <4> QED BY <4>1, <4>2, <3>2 DEF CallsOf
    <3> QED BY <3>1, <3>2
  <2>5. {c \in TestCalls : call[c] = "ok"} = made
    BY <2>2, <2>3, <2>4
  <2> QED BY <2>5, CallsOfATest
<1> QED BY <1>1, <1>2, PTL

\* When node 1's main returns, every daemon has acknowledged its stop message
\* and no handler of a test call is under way on node 1.  Calls to other nodes
\* may be: those ping_async has given up on.
THEOREM ExitIsClean == Spec => []ExitClean
<1>1. Spec => []AnswerInv
  BY AnswerInvInductive, PTL DEF Spec
<1>2. AnswerInv => ExitClean
  <2> SUFFICES ASSUME AnswerInv, pc[Caller] = "exited"
               PROVE  /\ \A n \in NodeIds : call[StopCall(n)] = "ok"
                      /\ \A c \in TestCalls :
                           c.node = Caller => call[c] \notin {"running", "pulled"}
    BY DEF ExitClean
  <2> USE DEF AnswerInv
  <2>1. \A n \in NodeIds : call[StopCall(n)] = "ok"
    BY DEF StopAnswered
  <2>2. ASSUME NEW c \in TestCalls, c.node = Caller
        PROVE  call[c] \notin {"running", "pulled"}
    <3>1. CASE test # "ping_async"
      <4>1. Settled(c)
        BY <2>1, <3>1, ProcFacts DEF StopInv, Drained
      <4> QED BY <4>1 DEF Settled
    <3>2. CASE test = "ping_async"
      <4>1. R = 1 /\ Cur.rpc = "RpcPing"
        BY <3>2 DEF R, IsPing, IsIo, Cur
      <4>2. CASE c.rpc # "RpcPing" \/ c.rep >= 1
        BY <4>1, <4>2 DEF LoopInv, LoopOrder
      <4>3. CASE c.rpc = "RpcPing" /\ ~(c.rep >= 1)
        <5>1. c = OwnCall
          BY <2>2, <4>3, RpcAssumption DEF TestCalls, Calls, OwnCall
        <5>2. Settled(OwnCall)
          BY <3>2 DEF OwnCallFirst
        <5> QED BY <5>1, <5>2 DEF Settled
      <4> QED BY <4>2, <4>3
    <3> QED BY <3>1, <3>2
  <2> QED BY <2>1, <2>2
<1> QED BY <1>1, <1>2, PTL
-----------------------------------------------------------------------------
(***************************************************************************)
(* CountSound: PingAll counts every node that answers, once.               *)
(***************************************************************************)

\* There are finitely many calls.
LEMMA CallsFinite == IsFiniteSet(Calls)
<1> DEFINE triples == (RpcNames \X NodeIds) \X (0 .. Rep)
           f == [t \in triples |-> [rpc |-> t[1][1], node |-> t[1][2],
                                    rep |-> t[2]]]
<1>1. IsFiniteSet(triples)
  <2>1. IsFiniteSet({"RpcPing"} \cup {"RpcTaskSubmit"} \cup {"RpcStopDaemon"})
    BY FS_Singleton, FS_Union
  <2>2. {"RpcPing"} \cup {"RpcTaskSubmit"} \cup {"RpcStopDaemon"} = RpcNames
    BY DEF RpcNames
  <2>3. IsFiniteSet(1 .. NumHosts) /\ IsFiniteSet(0 .. Rep)
    BY RpcAssumption, FS_Interval
  <2>4. IsFiniteSet(RpcNames \X NodeIds)
    BY <2>1, <2>2, <2>3, FS_Product DEF NodeIds
  <2> QED BY <2>3, <2>4, FS_Product
<1>2. f \in [triples -> Calls]
  BY DEF Calls
<1>3. \A c \in Calls : \E t \in triples : f[t] = c
  <2> TAKE c \in Calls
  <2>1. /\ c = [rpc |-> c.rpc, node |-> c.node, rep |-> c.rep]
        /\ <<<<c.rpc, c.node>>, c.rep>> \in triples
    BY DEF Calls
  <2>2. f[<<<<c.rpc, c.node>>, c.rep>>] = c
    BY <2>1
  <2> QED BY <2>1, <2>2
<1> HIDE DEF f, triples
<1>4. f \in Surjection(triples, Calls)
  BY <1>2, <1>3 DEF Surjection
<1> QED BY <1>1, <1>4, FS_Surjection

\* So PingAll's count can be compared with a cardinality.
LEMMA CountedFinite ==
  IsFiniteSet(Counted) /\ Cardinality(Counted) \in Nat
<1>1. Counted \subseteq Calls
  BY DEF Counted, TestCalls
<1>2. IsFiniteSet(Counted)
  BY <1>1, CallsFinite, FS_Subset
<1> QED BY <1>2, FS_CardinalityType

\* Every step keeps the responses in the order of the loops.
LEMMA ResponsesStep ==
  ASSUME StopInv, LoopInv, ResponsesPassed, [Next]_vars
  PROVE  ResponsesPassed'
<1> USE RpcAssumption, BenchAssumption, ProcFacts
<1>a. TypeOK /\ TypeInv /\ Tracked
  BY DEF StopInv, RegInv, TypeInv
<1>1. CASE Background \/ CallerStarts
  <2>1. /\ UNCHANGED <<responses, at>>
        /\ \/ pc'[Caller] = pc[Caller]
           \/ pc'[Caller] \in {"aborted", "crashed"}
           \/ pc[Caller] \in {"start", "sleep"}
    BY <1>1 DEF Background, CallerStarts
  <2>2. \A c : Ahead(c)' = Ahead(c)
    BY <2>1 DEF Ahead
  <2> QED BY <2>1, <2>2 DEF ResponsesPassed
<1>2. CASE SyncIssue \/ AsyncIssue
  <2>1. /\ pc[Caller] = "issue"
        /\ pc'[Caller] = IF IsAsync THEN "return" ELSE "await"
        /\ UNCHANGED <<responses, at>>
    BY <1>2, <1>a DEF SyncIssue, AsyncIssue, Goto, TypeOK
  <2>2. \A c : Ahead(c)' = Ahead(c)
    BY <2>1 DEF Ahead
  <2>3. ~IsAsync => responses = <<>>
    BY <2>1, <1>a DEF Tracked
  <2> QED BY <2>1, <2>2, <2>3 DEF ResponsesPassed
<1>3. CASE AsyncReturn
  <2>1. /\ pc[Caller] = "return" /\ pc'[Caller] = "issue"
        /\ More /\ Advance /\ UNCHANGED test
        /\ responses' = Append(responses, Cur)
    BY <1>3, <1>a DEF AsyncReturn, Goto, TypeInv, InLoop, TypeOK
  <2>2. Cur \in TestCalls /\ Cur \in Calls
    BY <2>1, <1>a, CurFacts
  <2>3. Ahead(Cur)
    BY <1>a DEF Ahead, Cur, TypeOK
  <2>4. \A c \in TestCalls : Ahead(c)' => Ahead(c) /\ c # Cur
    BY <2>1, AdvanceOrder DEF LoopInv
  <2>5. /\ Len(responses') = Len(responses) + 1 /\ Len(responses) \in Nat
        /\ \A i \in 1 .. Len(responses) : responses'[i] = responses[i]
        /\ responses'[Len(responses) + 1] = Cur
    BY <2>1, <2>2, <1>a DEF TypeOK
  <2>6. \A i \in 1 .. Len(responses) :
          responses[i] \in TestCalls /\ ~Ahead(responses[i])
    BY <2>1 DEF ResponsesPassed
  <2>7. ASSUME NEW i \in 1 .. Len(responses')
        PROVE  /\ responses'[i] \in TestCalls'
               /\ ~Ahead(responses[i])'
               /\ \A j \in 1 .. Len(responses') :
                    i # j => responses'[i] # responses'[j]
    <3> DEFINE c == responses'[i]
    <3>1. c \in TestCalls /\ (~Ahead(c) \/ c = Cur)
      BY <2>2, <2>5, <2>6
    <3>2. TestCalls' = TestCalls
      BY DEF TestCalls
    <3>3. ASSUME NEW d \in TestCalls, ~Ahead(d) \/ d = Cur
          PROVE  ~Ahead(d)'
      BY <2>4, <3>3
    <3>4. ASSUME NEW d, d = responses'[i]
          PROVE  ~Ahead(d)'
      BY <3>1, <3>3, <3>4
    <3>5. ~Ahead(responses[i])'
      BY <3>4 DEF Ahead
    <3>6. ASSUME NEW j \in 1 .. Len(responses'), i # j
          PROVE  responses'[i] # responses'[j]
      <4>1. CASE i <= Len(responses) /\ j <= Len(responses)
        BY <2>1, <2>5, <3>6, <4>1 DEF ResponsesPassed
      <4>2. CASE ~(i <= Len(responses) /\ j <= Len(responses))
        <5>1. \/ i \in 1 .. Len(responses) /\ j = Len(responses) + 1
              \/ j \in 1 .. Len(responses) /\ i = Len(responses) + 1
          BY <2>5, <3>6, <4>2
        <5> QED BY <2>3, <2>5, <2>6, <5>1
      <4> QED BY <4>1, <4>2
    <3> QED BY <3>1, <3>2, <3>5, <3>6
  <2> QED BY <2>1, <2>7 DEF ResponsesPassed
<1>4. CASE SyncReturn \/ CallFails
  <2>1. /\ pc[Caller] \in {"issue", "await"}
        /\ \/ pc'[Caller] = "aborted"
           \/ /\ pc'[Caller] = "issue"
              /\ More /\ Advance /\ UNCHANGED test
        /\ UNCHANGED responses
    BY <1>4, <1>a DEF SyncReturn, CallFails, Goto, TypeInv, InLoop, TypeOK
  <2>2. CASE pc'[Caller] = "issue"
    <3>1. \A c \in TestCalls : ~Ahead(c) => ~Ahead(c)'
      BY <2>1, <2>2, AdvanceOrder DEF LoopInv
    <3>2. ASSUME NEW i \in 1 .. Len(responses)
          PROVE  /\ responses[i] \in TestCalls
                 /\ ~Ahead(responses[i])'
                 /\ \A j \in 1 .. Len(responses) :
                      i # j => responses[i] # responses[j]
      <4>1. pc[Caller] = "issue"
        BY <2>1, <3>2 DEF ResponsesPassed
      <4>2. responses[i] \in TestCalls /\ ~Ahead(responses[i])
        BY <4>1 DEF ResponsesPassed
      <4>3. ASSUME NEW d, d = responses[i]
            PROVE  ~Ahead(d)'
        BY <3>1, <4>2, <4>3
      <4>4. ~Ahead(responses[i])'
        BY <4>3, <2>1 DEF Ahead
      <4> QED BY <4>1, <4>2, <4>4 DEF ResponsesPassed
    <3>3. TestCalls' = TestCalls
      BY DEF TestCalls
    <3> QED BY <2>1, <2>2, <3>2, <3>3 DEF ResponsesPassed
  <2> QED BY <2>1, <2>2 DEF ResponsesPassed
<1>5. CASE \/ Issued /\ ~IsAsync
           \/ Collected
           \/ CollectFails
           \/ StopAllDaemons /\ ~StopSend
  <2>1. /\ pc'[Caller] \in {"stopSend", "stopWait", "exited", "aborted"}
        /\ pc'[Caller] = "stopSend" => responses' = <<>>
    BY <1>5, <1>a
       DEF Issued, Collected, CollectFails, EndTest, Goto, StopAllDaemons,
           StopSent, StopWait, StopThrow, TypeOK
  <2> QED BY <2>1 DEF ResponsesPassed
<1>6. CASE Issued /\ IsAsync
  <2>1. /\ pc[Caller] = "issue" /\ pc'[Caller] = "collect"
        /\ UNCHANGED responses
    BY <1>6, <1>a DEF Issued, Goto, TypeOK
  <2>2. TestCalls' = TestCalls
    BY DEF TestCalls
  <2> QED BY <2>1, <2>2 DEF ResponsesPassed
<1>7. CASE Collect
  <2>1. /\ pc[Caller] = "collect" /\ UNCHANGED pc
        /\ responses # <<>> /\ responses' = Tail(responses)
    BY <1>7 DEF Collect
  <2>2. /\ Len(responses') = Len(responses) - 1 /\ Len(responses) \in Nat
        /\ \A i \in 1 .. Len(responses') : responses'[i] = responses[i + 1]
    BY <2>1, <1>a DEF TypeOK
  <2>3. TestCalls' = TestCalls
    BY DEF TestCalls
  <2> QED BY <2>1, <2>2, <2>3 DEF ResponsesPassed
<1>8. CASE StopSend
  <2>1. /\ pc[Caller] = "stopSend" /\ UNCHANGED pc
        /\ at.node \in NodeIds
        /\ responses' = Append(responses, StopCall(at.node))
    BY <1>8, <1>a DEF StopSend, NodeIds, TypeOK
  <2>2. StopCall(at.node) \in Calls /\ StopCall(at.node) \notin TestCalls
    BY <2>1, StopCallFacts DEF TestCalls
  <2>3. /\ Len(responses') = Len(responses) + 1 /\ Len(responses) \in Nat
        /\ \A i \in 1 .. Len(responses) : responses'[i] = responses[i]
        /\ responses'[Len(responses) + 1] = StopCall(at.node)
    BY <2>1, <2>2, <1>a DEF TypeOK
  <2>4. TestCalls' = TestCalls
    BY DEF TestCalls
  <2> QED BY <2>1, <2>2, <2>3, <2>4 DEF ResponsesPassed
<1> QED BY <1>1, <1>2, <1>3, <1>4, <1>5, <1>6, <1>7, <1>8, StepCases
        DEF LoopInv

\* The background adds no call to those the synchronous PingAll has counted.
LEMMA BackgroundCounted ==
  ASSUME StopInv, LoopInv, [Next]_vars, Background
  PROVE  /\ Counted \subseteq Counted'
         /\ test = "ping" /\ pc'[Caller] = pc[Caller] => Counted' = Counted
<1>a. TypeOK /\ Tracked
  BY DEF StopInv, RegInv, TypeInv
<1>1. /\ TestCalls' = TestCalls /\ \A c \in TestCalls : c \in Calls
      /\ Cur' = Cur
      /\ \A c : Outstanding(c)' = Outstanding(c)
  BY DEF Background, TestCalls, Outstanding, Cur, IsIo
<1>2. Counted \subseteq Counted'
  <2>1. \A c \in TestCalls : call[c] = "ok" => call'[c] = "ok"
    BY <1>1, OutcomeKept
  <2> QED BY <1>1, <2>1 DEF Background, Counted
<1>3. ASSUME test = "ping", pc'[Caller] = pc[Caller]
      PROVE  Counted' \subseteq Counted
  <2>1. ASSUME NEW c \in TestCalls, call'[c] = "ok", call[c] # "ok"
        PROVE  \/ Outstanding(c)
               \/ pc[Caller] \in {"await", "return"} /\ c = Cur
    BY <1>a, <1>1, <1>3, <2>1 DEF Background, Tracked, Settled, Dead
  <2> QED BY <1>1, <1>3, <2>1 DEF Counted
<1> QED BY <1>2, <1>3

\* Every step keeps PingAll's count.
LEMMA CountStep ==
  ASSUME StopInv, LoopInv, ResponsesPassed, CountKept, [Next]_vars
  PROVE  CountKept'
<1> USE RpcAssumption, BenchAssumption, ProcFacts
<1>a. TypeOK /\ TypeInv /\ Tracked /\ TypeOK'
  BY TypeInvInductive DEF StopInv, RegInv, TypeInv
<1>b. /\ IsFiniteSet(Counted) /\ Cardinality(Counted) \in Nat
      /\ IsFiniteSet(Counted') /\ Cardinality(Counted') \in Nat
  <2>1. Counted' \subseteq Calls
    BY DEF Counted, TestCalls
  <2>2. IsFiniteSet(Counted')
    BY <2>1, CallsFinite, FS_Subset
  <2> QED BY <2>2, FS_CardinalityType, CountedFinite
<1>c. TestCalls' = TestCalls /\ \A c \in TestCalls : c \in Calls
  BY DEF TestCalls
<1>d. test' = test
  BY DEF Next, MainStep, ServerInit, TestRunner, SyncIssue, SyncReturn,
     AsyncIssue, AsyncReturn, CallFails, Issued, Collect, Collected,
     CollectFails, StopAllDaemons, ServiceStep, UnfairStep, vars
<1>e. IsPing' = IsPing /\ (test = "ping" => ~IsAsync)
  BY <1>d DEF IsPing, IsAsync
<1>f. ASSUME Counted \subseteq Counted', count' = count,
             \/ pc'[Caller] \in {"stopWait", "exited", "aborted", "crashed"}
             \/ test # "ping"
      PROVE  CountKept'
  <2>1. Cardinality(Counted) <= Cardinality(Counted')
    BY <1>b, <1>f, FS_Subset
  <2>2. IsPing => count' <= Cardinality(Counted')
    BY <1>a, <1>b, <1>f, <2>1 DEF CountKept, TypeOK
  <2> QED BY <1>d, <1>e, <1>f, <2>2 DEF CountKept
<1>g. ASSUME Counted' = Counted, count' = count,
             \/ pc[Caller] \notin {"stopWait", "exited", "aborted", "crashed"}
             \/ pc'[Caller] = pc[Caller]
      PROVE  CountKept'
  BY <1>d, <1>e, <1>g DEF CountKept
<1>h. ASSUME NEW c, c \notin Counted, Counted' = Counted \cup {c},
             count' = count + 1,
             pc[Caller] \notin {"stopWait", "exited", "aborted", "crashed"}
      PROVE  CountKept'
  <2>1. Cardinality(Counted') = Cardinality(Counted) + 1
    BY <1>b, <1>h, FS_AddElement
  <2>2. IsPing => count' <= Cardinality(Counted')
    BY <1>a, <1>b, <1>h, <2>1 DEF CountKept, TypeOK
  <2>3. IsPing /\ test = "ping" => count' = Cardinality(Counted')
    BY <1>h, <2>1 DEF CountKept
  <2> QED BY <1>d, <1>e, <2>2, <2>3 DEF CountKept
<1> SUFFICES ASSUME IsPing
             PROVE  CountKept'
  BY <1>e DEF CountKept
<1>1. CASE Background
  <2>1. count' = count
    BY <1>1 DEF Background
  <2> QED BY <1>1, <1>f, <1>g, <2>1, BackgroundCounted DEF Background
<1>2. CASE CallerStarts
  <2>1. Counted' = Counted
    BY <1>2, <1>c DEF CallerStarts, Counted, Outstanding
  <2> QED BY <1>2, <2>1, <1>g DEF CallerStarts
<1>3. CASE SyncIssue \/ AsyncIssue
  <2>1. /\ pc[Caller] = "issue" /\ pc'[Caller] \in {"await", "return"}
        /\ More /\ UNCHANGED <<responses, at, test, count>>
        /\ \E s \in {"queued", "failed"} : call' = [call EXCEPT ![Cur] = s]
    BY <1>3, <1>a DEF SyncIssue, AsyncIssue, Goto, Sends, FailsLater, TypeOK
  <2>2. /\ Cur \in TestCalls /\ Cur' = Cur
        /\ \A c : Outstanding(c)' = Outstanding(c)
    BY <2>1, <1>a, CurFacts DEF Cur, IsIo, Outstanding
  <2>3. Ahead(Cur)
    BY <1>a DEF Ahead, Cur, TypeOK
  <2>4. call[Cur] = "idle"
    BY <2>1, <2>2, <2>3 DEF LoopInv, LoopOrder
  <2>5. \A c \in TestCalls : c # Cur => call'[c] = call[c]
    BY <2>1, <1>a, <1>c DEF TypeOK
  <2>6. Counted' = Counted
    BY <2>1, <2>2, <2>4, <2>5, <1>c DEF Counted
  <2> QED BY <2>1, <2>6, <1>g
<1>4. CASE SyncReturn
  <2>1. /\ pc[Caller] = "await" /\ pc'[Caller] = "issue"
        /\ call[Cur] = "ok" /\ count' = count + 1
        /\ More /\ UNCHANGED <<call, responses>>
    BY <1>4, <1>a DEF SyncReturn, Goto, Returns, InLoop, TypeInv, TypeOK
  <2>2. /\ Cur \in TestCalls
        /\ \A c : ~Outstanding(c) /\ ~Outstanding(c)'
    BY <2>1, <1>a, CurFacts DEF ResponsesPassed, Outstanding
  <2>3. Cur \notin Counted
    BY <2>1 DEF Counted
  <2>4. Counted' = Counted \cup {Cur}
    BY <2>1, <2>2, <1>c DEF Counted
  <2> QED BY <2>1, <2>3, <2>4, <1>h
<1>5. CASE AsyncReturn
  <2>1. /\ pc[Caller] = "return" /\ pc'[Caller] = "issue"
        /\ More /\ UNCHANGED <<call, count>>
        /\ responses' = Append(responses, Cur)
    BY <1>5, <1>a DEF AsyncReturn, Goto, InLoop, TypeInv, TypeOK
  <2>2. Cur \in Calls
    BY <2>1, <1>a, CurFacts
  <2>3. \A c : Outstanding(c)' <=> Outstanding(c) \/ c = Cur
    BY <2>1, <2>2, <1>a, AppendOutstanding DEF TypeOK
  <2>4. Counted' = Counted
    BY <2>1, <2>3, <1>c DEF Counted
  <2> QED BY <2>1, <2>4, <1>g
<1>6. CASE CallFails
  <2>1. /\ \/ pc[Caller] = "issue"
           \/ pc[Caller] = "await" /\ call[Cur] # "ok"
        /\ pc'[Caller] = "issue"
        /\ UNCHANGED <<call, responses, count>>
    BY <1>6, <1>a DEF CallFails, Goto, Raises, TypeOK
  <2>2. Counted' = Counted
    BY <2>1, <1>c DEF Counted, Outstanding
  <2> QED BY <2>1, <2>2, <1>g
<1>7. CASE Issued \/ Collected
  <2>1. /\ pc[Caller] \in {"issue", "collect"}
        /\ pc'[Caller] \in {"collect", "stopSend"}
        /\ responses' = responses
        /\ UNCHANGED <<call, count>>
    BY <1>7, <1>a DEF Issued, Collected, EndTest, Goto, Tracked, TypeOK
  <2>2. Counted' = Counted
    BY <2>1, <1>c DEF Counted, Outstanding
  <2> QED BY <2>1, <2>2, <1>g
<1>8. CASE Collect
  <2> DEFINE c == Head(responses)
  <2>1. /\ pc[Caller] = "collect" /\ UNCHANGED <<pc, call>>
        /\ responses # <<>> /\ call[c] = "ok"
        /\ responses' = Tail(responses)
        /\ count' = count + 1
    BY <1>8 DEF Collect, Returns
  <2>2. /\ Len(responses) \in Nat \ {0} /\ c = responses[1]
        /\ Len(responses') = Len(responses) - 1
        /\ \A i \in 1 .. Len(responses') : responses'[i] = responses[i + 1]
    BY <2>1, <1>a DEF TypeOK
  <2>3. c \in TestCalls
    BY <2>1, <2>2 DEF ResponsesPassed
  <2>4. Outstanding(c)
    BY <2>2 DEF Outstanding
  <2>5. ASSUME NEW d, d = c
        PROVE  ~Outstanding(d)'
    <3>1. \A i \in 1 .. Len(responses') :
            i + 1 \in 1 .. Len(responses) /\ i + 1 # 1
      BY <2>2
    <3>2. \A i \in 1 .. Len(responses') : responses'[i] # c
      BY <2>1, <2>2, <3>1 DEF ResponsesPassed
    <3> QED BY <2>5, <3>2 DEF Outstanding
  <2>6. \A d : /\ Outstanding(d) => Outstanding(d)' \/ d = c
               /\ Outstanding(d)' => Outstanding(d)
    BY <2>1, <1>a, TailOutstanding DEF TypeOK
  <2> HIDE DEF c
  <2>7. c \notin Counted
    BY <2>4 DEF Counted
  <2>8. Counted' = Counted \cup {c}
    BY <2>1, <2>3, <2>5, <2>6, <1>c DEF Counted
  <2> QED BY <2>1, <2>7, <2>8, <1>h
<1>9. CASE CollectFails
  <2>1. /\ pc[Caller] = "collect" /\ pc'[Caller] = "stopSend"
        /\ responses' = <<>>
        /\ UNCHANGED <<call, count>>
    BY <1>9, <1>a DEF CollectFails, EndTest, Goto, TypeOK
  <2>2. Counted \subseteq Counted'
    BY <2>1, <1>c DEF Counted, Outstanding
  <2>3. test # "ping"
    BY <2>1, <1>a, <1>e DEF Tracked
  <2> QED BY <2>1, <2>2, <2>3, <1>f
<1>10. CASE StopAllDaemons /\ StopSend
  <2>1. /\ pc[Caller] = "stopSend" /\ UNCHANGED pc
        /\ at.node \in NodeIds
        /\ responses' = Append(responses, StopCall(at.node))
        /\ \/ call' = [call EXCEPT ![StopCall(at.node)] = "queued"]
           \/ call' = [call EXCEPT ![StopCall(at.node)] = "failed"]
    BY <1>10, <1>a DEF StopSend, Sends, FailsLater, NodeIds, TypeOK
  <2>2. StopCall(at.node) \in Calls /\ StopCall(at.node) \notin TestCalls
    BY <2>1, StopCallFacts DEF TestCalls
  <2>3. \A c \in TestCalls : Outstanding(c)' <=> Outstanding(c)
    BY <2>1, <2>2, <1>a, AppendOutstanding DEF TypeOK
  <2>4. \A c \in TestCalls : call'[c] = call[c]
    BY <2>1, <2>2, <1>a, <1>c DEF TypeOK
  <2>5. Counted' = Counted
    BY <2>1, <2>3, <2>4, <1>c DEF Counted
  <2> QED BY <1>10, <2>1, <2>5, <1>g DEF StopAllDaemons
<1>11. CASE StopAllDaemons /\ ~StopSend
  <2>1. /\ pc[Caller] \in {"stopSend", "stopWait"}
        /\ pc'[Caller] \in {"stopWait", "exited", "aborted"}
        /\ UNCHANGED <<call, count>>
        /\ \/ UNCHANGED responses
           \/ responses # <<>> /\ responses' = Tail(responses)
    BY <1>11, <1>a DEF StopAllDaemons, StopSent, StopWait, StopThrow, TypeOK
  <2>2. \A c : Outstanding(c)' => Outstanding(c)
    <3>1. CASE UNCHANGED responses
      BY <3>1 DEF Outstanding
    <3>2. CASE responses # <<>> /\ responses' = Tail(responses)
      BY <3>2, <1>a, TailOutstanding DEF TypeOK
    <3> QED BY <2>1, <3>1, <3>2
  <2>3. Counted \subseteq Counted'
    BY <2>1, <2>2, <1>c DEF Counted
  <2> QED BY <2>1, <2>3, <1>f
<1> QED BY <1>1, <1>2, <1>3, <1>4, <1>5, <1>6, <1>7, <1>8, <1>9, <1>10, <1>11,
           StepCases DEF LoopInv

\* PingAll's count holds initially and is preserved by every step.
LEMMA CountInvInductive ==
  /\ Init => CountInv
  /\ CountInv /\ [Next]_vars => CountInv'
<1>1. Init => CountInv
  <2> SUFFICES ASSUME Init PROVE CountInv
    OBVIOUS
  <2>1. StopInv /\ LoopInv
    BY StopInvInductive, LoopInvInductive
  <2>2. /\ pc[Caller] = "start" /\ responses = <<>> /\ count = 0
        /\ \A c \in Calls : call[c] = "idle"
    BY ProcFacts DEF Init, RpcInit
  <2>3. Counted = {}
    BY <2>2 DEF Counted, TestCalls
  <2>4. Cardinality(Counted) = 0
    BY <2>3, FS_EmptySet
  <2> QED BY <2>1, <2>2, <2>4 DEF CountInv, ResponsesPassed, CountKept
<1>2. CountInv /\ [Next]_vars => CountInv'
  BY StopInvInductive, LoopInvInductive, ResponsesStep, CountStep DEF CountInv
<1> QED BY <1>1, <1>2

\* PingAll's count is never more than the nodes that answered, and when the
\* synchronous test prints it, it is their number.
THEOREM CountIsSound == Spec => []CountSound
<1>1. Spec => []CountInv
  BY CountInvInductive, PTL DEF Spec
<1>2. CountInv => CountSound
  <2> SUFFICES ASSUME CountInv PROVE CountSound
    OBVIOUS
  <2> DEFINE answered == {c \in TestCalls : call[c] = "ok"}
  <2>1. answered \subseteq Calls /\ Counted \subseteq answered
    BY DEF Counted, TestCalls
  <2>2. IsFiniteSet(answered)
    BY <2>1, CallsFinite, FS_Subset
  <2>3. /\ Cardinality(Counted) <= Cardinality(answered)
        /\ Cardinality(Counted) \in Nat /\ Cardinality(answered) \in Nat
    BY <2>1, <2>2, FS_Subset, FS_CardinalityType, CountedFinite
  <2>4. count \in Nat
    BY DEF CountInv, LoopInv, TypeInv, TypeOK
  <2>5. IsPing => count <= Cardinality(answered)
    BY <2>3, <2>4 DEF CountInv, CountKept
  <2>6. ASSUME test = "ping", pc[Caller] = "stopSend"
        PROVE  count = Cardinality(answered)
    <3>1. \A c \in TestCalls : ~Outstanding(c)
      BY <2>6 DEF CountInv, ResponsesPassed, Outstanding
    <3>2. Counted = answered
      BY <2>6, <3>1 DEF Counted
    <3> QED BY <2>6, <3>2 DEF CountInv, CountKept, IsPing
  <2> QED BY <2>5, <2>6 DEF CountSound
<1> QED BY <1>1, <1>2, PTL
-----------------------------------------------------------------------------
(***************************************************************************)
(* DaemonGroup: every step of the processes, calls and engines is a step   *)
(* of the group of daemons, or none.                                       *)
(***************************************************************************)

\* The refinement mapping, variable by variable.
Members == [n \in NodeIds |-> Member(n)]
Asked == {c \in TestCalls : call[c] # "idle"}
Busy == {c \in TestCalls : call[c] \in {"running", "pulled"}}
Served == {c \in TestCalls : call[c] \in {"replied", "ok"}}
SettledCalls == {c \in TestCalls : call[c] \in {"ok", "failed", "nomatch"}}
Told == {n \in NodeIds : call[StopCall(n)] # "idle"}

rigidMap == <<Manner, Losable>>
callMap == <<Asked, Busy, Served, SettledCalls, Told>>

\* A process that is alive without a server is still in its start-up, and a
\* server that went down works on nothing.
Presence ==
  /\ \A p \in Procs : ~Dead(p) /\ server[p] = "none" => pc[p] = "start"
  /\ \A c \in Calls :
       server[c.node] = "down" => call[c] \notin {"running", "pulled"}

\* Node 1 ends with an I/O call under way only by dying.
SyncQuiet ==
  IoSize > 0 /\ test # "io_async" /\ Dead(Caller) /\ Caller \notin CrashHosts =>
    \A c \in Calls :
      c.rpc = "RpcTaskSubmit" => call[c] \notin {"queued", "running"}

GroupInv == AnswerInv /\ IoInv /\ Presence /\ SyncQuiet
-----------------------------------------------------------------------------
(***************************************************************************)
(* The steps of DaemonGroup under the mapping.                             *)
(***************************************************************************)

\* A daemon joins.
LEMMA JoinStep ==
  ASSUME NEW n \in NodeIds, Members[n] = "out",
         Members' = [Members EXCEPT ![n] = "in"],
         UNCHANGED <<rigidMap, callMap>>
  PROVE  Group!GroupNext
<1>1. Group!Join(n)
  BY DEF Group!Join, Group!rigid, Members, Asked, Busy, Served, SettledCalls,
     Told, rigidMap, callMap
<1> QED BY <1>1 DEF Group!GroupNext

\* A daemon that was told to stop leaves.
LEMMA LeaveStep ==
  ASSUME NEW n \in NodeIds, Members[n] = "in", n \in Told,
         Members' = [Members EXCEPT ![n] = "leaving"],
         UNCHANGED <<rigidMap, callMap>>
  PROVE  Group!GroupNext
<1>1. Group!Leave(n)
  BY DEF Group!Leave, Group!rigid, Members, Asked, Busy, Served, SettledCalls,
     Told, rigidMap, callMap
<1> QED BY <1>1 DEF Group!GroupNext

\* A daemon is gone, at the end of its work or because it may vanish.
LEMMA DepartStep ==
  ASSUME NEW n \in NodeIds, Members[n] # "gone",
         \/ Members[n] = "leaving" /\ \A c \in Busy : c.node # n
         \/ n \in Losable,
         Members' = [Members EXCEPT ![n] = "gone"],
         UNCHANGED <<rigidMap, callMap>>
  PROVE  Group!GroupNext
<1>1. Group!Depart(n)
  BY DEF Group!Depart, Group!rigid, Members, Asked, Busy, Served, SettledCalls,
     Told, rigidMap, callMap, NodeOfCall
<1> QED BY <1>1 DEF Group!GroupNext

\* A daemon is told to stop, when the caller's manner allows it.
LEMMA TellStep ==
  ASSUME NEW n \in NodeIds,
         Manner = "patient" => Asked = SettledCalls,
         Manner = "thorough" =>
           Asked = Served /\ NodeIds = {c.node : c \in Served},
         Told' = Told \cup {n},
         UNCHANGED <<rigidMap, Members, Asked, Busy, Served, SettledCalls>>
  PROVE  Group!GroupNext
<1>1. Group!Tell(n)
  BY DEF Group!Tell, Group!rigid, Members, Asked, Busy, Served, SettledCalls,
     Told, rigidMap, NodeOfCall
<1> QED BY <1>1 DEF Group!GroupNext

\* A test call is made, to a daemon that is there or to one that is not.
LEMMA AskStep ==
  ASSUME NEW c \in TestCalls, Told = {}, c \notin Asked,
         Asked' = Asked \cup {c},
         \/ Members[c.node] = "in" /\ SettledCalls' = SettledCalls
         \/ Members[c.node] # "in" /\ SettledCalls' = SettledCalls \cup {c},
         UNCHANGED <<rigidMap, Members, Busy, Served, Told>>
  PROVE  Group!GroupNext
<1>1. Group!Ask(c) \/ Group!AskNobody(c)
  BY DEF Group!Ask, Group!AskNobody, Group!rigid, Members, Asked, Busy, Served,
     SettledCalls, Told, rigidMap, NodeOfCall
<1> QED BY <1>1 DEF Group!GroupNext

\* A daemon begins a call.
LEMMA BeginStep ==
  ASSUME NEW c \in TestCalls,
         c \in Asked \ (Busy \cup Served \cup SettledCalls),
         Members[c.node] = "in",
         Busy' = Busy \cup {c},
         UNCHANGED <<rigidMap, Members, Asked, Served, SettledCalls, Told>>
  PROVE  Group!GroupNext
<1>1. Group!Begin(c)
  BY DEF Group!Begin, Group!rigid, Members, Asked, Busy, Served, SettledCalls,
     Told, rigidMap, NodeOfCall
<1> QED BY <1>1 DEF Group!GroupNext

\* A daemon answers a call.
LEMMA ServeStep ==
  ASSUME NEW c \in TestCalls,
         c \in Busy,
         Members[c.node] \in {"in", "leaving"},
         Busy' = Busy \ {c},
         Served' = Served \cup {c},
         UNCHANGED <<rigidMap, Members, Asked, SettledCalls, Told>>
  PROVE  Group!GroupNext
<1>1. Group!Serve(c)
  BY DEF Group!Serve, Group!rigid, Members, Asked, Busy, Served, SettledCalls,
     Told, rigidMap, NodeOfCall
<1> QED BY <1>1 DEF Group!GroupNext

\* The caller learns the outcome of a call.
LEMMA SettleStep ==
  ASSUME NEW c \in TestCalls,
         c \in Asked \ SettledCalls,
         c \in Served \/ Members[c.node] \in {"leaving", "gone"},
         SettledCalls' = SettledCalls \cup {c},
         Busy' = Busy \ {c},
         UNCHANGED <<rigidMap, Members, Asked, Served, Told>>
  PROVE  Group!GroupNext
<1>1. Group!Settle(c)
  BY DEF Group!Settle, Group!rigid, Members, Asked, Busy, Served, SettledCalls,
     Told, rigidMap, NodeOfCall
<1> QED BY <1>1 DEF Group!GroupNext

\* Nothing that the group knows of changes.
LEMMA StutterStep ==
  ASSUME UNCHANGED <<rigidMap, Members, callMap>>
  PROVE  UNCHANGED Group!groupVars
  BY DEF Group!groupVars, Group!rigid, Members, Asked, Busy, Served,
     SettledCalls, Told, rigidMap, callMap
-----------------------------------------------------------------------------
(***************************************************************************)
(* What changes of pc, server and call mean for the group.                 *)
(***************************************************************************)

\* A test call that changes its status.
LEMMA TestCallMoves ==
  ASSUME TypeOK, NEW c \in TestCalls, NEW s \in Status \ {"idle"},
         call' = [call EXCEPT ![c] = s]
  PROVE  /\ Told' = Told
         /\ Asked' = Asked \cup {c}
         /\ Busy' = IF s \in {"running", "pulled"} THEN Busy \cup {c}
                    ELSE Busy \ {c}
         /\ Served' = IF s \in {"replied", "ok"} THEN Served \cup {c}
                      ELSE Served \ {c}
         /\ SettledCalls' = IF s \in {"ok", "failed", "nomatch"}
                            THEN SettledCalls \cup {c} ELSE SettledCalls \ {c}
<1>1. c \in Calls /\ TestCalls \subseteq Calls
      /\ \A n \in NodeIds : StopCall(n) \in Calls /\ StopCall(n) # c
  BY StopCallFacts DEF TestCalls
<1>2. call \in [Calls -> Status]
  BY DEF TypeOK
<1>3. call'[c] = s /\ \A d \in Calls : d # c => call'[d] = call[d]
  BY <1>1, <1>2
<1>4. TestCalls' = TestCalls /\ \A n \in NodeIds : StopCall(n)' = StopCall(n)
  BY DEF TestCalls, StopCall
<1>5. Told' = Told
  BY <1>1, <1>3, <1>4 DEF Told
<1>6. Asked' = Asked \cup {c}
  BY <1>1, <1>3, <1>4 DEF Asked
<1>7. Busy' = IF s \in {"running", "pulled"} THEN Busy \cup {c} ELSE Busy \ {c}
  BY <1>1, <1>3, <1>4 DEF Busy
<1>8. Served' = IF s \in {"replied", "ok"} THEN Served \cup {c}
                ELSE Served \ {c}
  BY <1>1, <1>3, <1>4 DEF Served
<1>9. SettledCalls' = IF s \in {"ok", "failed", "nomatch"}
                      THEN SettledCalls \cup {c} ELSE SettledCalls \ {c}
  BY <1>1, <1>3, <1>4 DEF SettledCalls
<1> QED BY <1>5, <1>6, <1>7, <1>8, <1>9

\* A test call that is sent, served or settled: the cases of the above.
LEMMA TestCallCases ==
  ASSUME TypeOK, NEW c \in TestCalls, NEW s,
         s \in {"queued", "running", "pulled", "replied", "ok", "failed"},
         call' = [call EXCEPT ![c] = s]
  PROVE  /\ Told' = Told /\ Asked' = Asked \cup {c}
         /\ s \in {"queued", "failed"} =>
              Busy' = Busy \ {c} /\ Served' = Served \ {c}
         /\ s \in {"queued", "running", "pulled", "replied"} =>
              SettledCalls' = SettledCalls \ {c}
         /\ s \in {"running", "pulled"} =>
              Busy' = Busy \cup {c} /\ Served' = Served \ {c}
         /\ s \in {"replied", "ok"} =>
              Busy' = Busy \ {c} /\ Served' = Served \cup {c}
         /\ s \in {"ok", "failed"} => SettledCalls' = SettledCalls \cup {c}
<1>1. s \in Status \ {"idle"}
  BY DEF Status
<1>2. /\ Told' = Told
      /\ Asked' = Asked \cup {c}
      /\ Busy' = IF s \in {"running", "pulled"} THEN Busy \cup {c}
                 ELSE Busy \ {c}
      /\ Served' = IF s \in {"replied", "ok"} THEN Served \cup {c}
                   ELSE Served \ {c}
      /\ SettledCalls' = IF s \in {"ok", "failed", "nomatch"}
                         THEN SettledCalls \cup {c} ELSE SettledCalls \ {c}
  BY <1>1, TestCallMoves
<1> QED BY <1>2

\* A stop message that changes its status.
LEMMA StopCallMoves ==
  ASSUME TypeOK, NEW d \in Calls \ TestCalls, NEW s \in Status \ {"idle"},
         call' = [call EXCEPT ![d] = s]
  PROVE  /\ UNCHANGED <<Asked, Busy, Served, SettledCalls>>
         /\ Told' = Told \cup {n \in NodeIds : StopCall(n) = d}
<1>1. call \in [Calls -> Status]
  BY DEF TypeOK
<1>2. /\ call'[d] = s
      /\ \A c \in Calls : c # d => call'[c] = call[c]
      /\ \A c \in TestCalls : call'[c] = call[c]
  BY <1>1 DEF TestCalls
<1>3. TestCalls' = TestCalls /\ \A n \in NodeIds : StopCall(n)' = StopCall(n)
  BY DEF TestCalls, StopCall
<1>4. UNCHANGED <<Asked, Busy, Served, SettledCalls>>
  BY <1>2, <1>3 DEF Asked, Busy, Served, SettledCalls
<1>5. Told' = Told \cup {n \in NodeIds : StopCall(n) = d}
  BY <1>2, <1>3, StopCallFacts DEF Told
<1> QED BY <1>4, <1>5

\* The calls of the group depend on call only, its rigid variables on test.
LEMMA CallsKept ==
  /\ UNCHANGED call => UNCHANGED callMap
  /\ UNCHANGED test => UNCHANGED rigidMap
<1>1. TestCalls' = TestCalls /\ \A n \in NodeIds : StopCall(n)' = StopCall(n)
  BY DEF TestCalls, StopCall
<1>2. UNCHANGED call => UNCHANGED callMap
  BY <1>1 DEF callMap, Asked, Busy, Served, SettledCalls, Told
<1>3. UNCHANGED test => UNCHANGED rigidMap
  BY DEF rigidMap, Manner, Losable, IsPing, IsIo, IsAsync
<1> QED BY <1>2, <1>3

\* A main thread that goes on, and one that ends.
LEMMA MembersMove ==
  ASSUME TypeOK, UNCHANGED server, NEW p \in Procs, NEW l \in MainLabels,
         pc' = [pc EXCEPT ![p] = l], ~Dead(p)
  PROVE  /\ l \notin {"exited", "aborted", "crashed"} => UNCHANGED Members
         /\ l \in {"exited", "aborted", "crashed"} =>
              /\ Members[p] # "gone"
              /\ Members' = [Members EXCEPT ![p] = "gone"]
<1>1. \A n \in NodeIds : pc'[n] = IF n = p THEN l ELSE pc[n]
  BY ProcFacts DEF TypeOK
<1>2. ASSUME l \notin {"exited", "aborted", "crashed"}
      PROVE  \A n \in NodeIds : Member(n)' = Member(n)
  BY <1>1, <1>2 DEF Member, Dead
<1>3. ASSUME l \in {"exited", "aborted", "crashed"}
      PROVE  /\ \A n \in NodeIds :
                  Member(n)' = IF n = p THEN "gone" ELSE Member(n)
             /\ Member(p) # "gone"
  BY <1>1, <1>3, ProcFacts DEF Member, Dead
<1> QED BY <1>2, <1>3, ProcFacts DEF Members

\* A server that changes its state under a main thread that stays.
LEMMA MemberTurns ==
  ASSUME TypeOK, NEW n \in NodeIds, NEW m,
         \A q \in NodeIds \ {n} : pc'[q] = pc[q] /\ server'[q] = server[q],
         Member(n)' = m
  PROVE  Members' = [Members EXCEPT ![n] = m]
<1>1. \A q \in NodeIds \ {n} : Member(q)' = Member(q)
  BY DEF Member, Dead
<1> QED BY <1>1 DEF Members
-----------------------------------------------------------------------------
(***************************************************************************)
(* The invariant the refinement needs.                                     *)
(***************************************************************************)

\* What a step may do to the main threads and the server engines: a dead
\* process stays as it is, and start-up ends with a server or with the process.
LEMMA ProcessSteps ==
  ASSUME TypeInv, LoopOrder, [Next]_vars, NEW p \in Procs
  PROVE  /\ Dead(p) => pc'[p] = pc[p]
         /\ pc[p] = "start" =>
              pc'[p] = "start" \/ Dead(p)' \/ server'[p] = "up"
         /\ server'[p] = "none" => server[p] = "none"
         /\ server'[p] = "down" => \/ server[p] = "down"
                                   \/ CloseServer(p) /\ UNCHANGED call
<1> USE RpcAssumption, BenchAssumption, ProcFacts
        DEF TypeInv, TypeOK, Dead, Goto
<1>1. ASSUME NEW q \in Procs, ServerInit(q) \/ TestRunner(q)
      PROVE  /\ Dead(p) => pc'[p] = pc[p]
             /\ pc[p] = "start" =>
                  pc'[p] = "start" \/ Dead(p)' \/ server'[p] = "up"
             /\ server'[p] = "none" => server[p] = "none"
             /\ server'[p] = "down" => server[p] = "down"
  BY <1>1 DEF ServerInit, TestRunner
<1>2. ASSUME \/ SyncIssue \/ SyncReturn \/ AsyncIssue \/ AsyncReturn
             \/ CallFails \/ Issued
             \/ Collect \/ Collected \/ CollectFails \/ StopAllDaemons
      PROVE  /\ Dead(p) => pc'[p] = pc[p]
             /\ pc[p] = "start" => pc'[p] = "start"
             /\ server' = server
  <2>1. /\ UNCHANGED server
        /\ pc[Caller] \in {"issue", "await", "return", "collect", "stopSend",
                           "stopWait"}
        /\ pc' = pc \/ \E l : pc' = [pc EXCEPT ![Caller] = l]
    <3>1. CASE \/ SyncIssue \/ SyncReturn \/ AsyncIssue \/ AsyncReturn
               \/ CallFails \/ Issued \/ Collect \/ Collected \/ CollectFails
      BY <3>1 DEF SyncIssue, SyncReturn, AsyncIssue, AsyncReturn, CallFails,
         Issued, Collect, Collected, CollectFails, EndTest
    <3>2. CASE StopAllDaemons
      BY <3>2 DEF StopAllDaemons, StopSend, StopSent, StopWait, StopThrow
    <3> QED BY <1>2, <3>1, <3>2
  <2> QED BY <2>1
<1>3. ASSUME ServiceStep
      PROVE  /\ Dead(p) => pc'[p] = pc[p]
             /\ pc[p] = "start" => pc'[p] = "start" \/ Dead(p)'
             /\ server'[p] = "none" => server[p] = "none"
             /\ server'[p] = "down" => \/ server[p] = "down"
                                       \/ CloseServer(p) /\ UNCHANGED call
  <2>1. ASSUME NEW c \in Calls,
               \/ Dispatch(c) \/ RpcPing(c) \/ RpcTaskSubmit(c)
               \/ RpcStopDaemon(c) \/ Receive(c)
        PROVE  UNCHANGED <<pc, server>>
    BY <2>1 DEF Dispatch, RpcPing, RpcTaskSubmit, RpcStopDaemon, Receive
  <2>2. ASSUME NEW c \in Calls, IoCallServerWrite(c)
        PROVE  /\ UNCHANGED server
               /\ Dead(p) => pc'[p] = pc[p]
               /\ pc'[p] = pc[p] \/ Dead(p)'
    BY <2>2 DEF IoCallServerWrite, Works
  <2>3. ASSUME NEW q \in NodeIds,
               FinalizeClient(q) \/ FinalizeServer(q) \/ RunDaemon(q)
        PROVE  /\ Dead(p) => pc'[p] = pc[p]
               /\ pc[p] = "start" => pc'[p] = "start"
               /\ server'[p] \in {"none", "down"} => server[p] = server'[p]
    BY <2>3 DEF FinalizeClient, FinalizeServer, RunDaemon
  <2>4. ASSUME NEW q \in NodeIds, CloseServer(q)
        PROVE  /\ UNCHANGED <<pc, call>>
               /\ p # q => server'[p] = server[p]
               /\ server'[q] = "down"
    BY <2>4 DEF CloseServer
  <2> QED BY <1>3, <2>1, <2>2, <2>3, <2>4 DEF ServiceStep, RpcStep
<1>4. ASSUME UnfairStep
      PROVE  /\ Dead(p) => pc'[p] = pc[p]
             /\ pc'[p] = pc[p] \/ Dead(p)'
             /\ server' = server
  BY <1>4 DEF UnfairStep, Disconnect, Crash, StopCut
<1>5. CASE UNCHANGED vars
  BY <1>5 DEF vars, rpcVars
<1> QED BY <1>1, <1>2, <1>3, <1>4, <1>5 DEF Next, MainStep

\* A handler starts to run only on a server that is up, and a request is only
\* sent by a main thread that is alive.
LEMMA HandlerSteps ==
  ASSUME TypeInv, LoopOrder, [Next]_vars, NEW c \in Calls
  PROVE  /\ call'[c] \in {"running", "pulled"} =>
              \/ call[c] \in {"running", "pulled"}
              \/ server[c.node] = "up" /\ UNCHANGED server
         /\ call'[c] = "queued" => call[c] = "queued" \/ ~Dead(Caller)'
         /\ call'[c] = "running" => call[c] \in {"queued", "running"}
<1> USE RpcAssumption, BenchAssumption, ProcFacts
        DEF TypeInv, TypeOK, Dead
<1>1. CASE SyncIssue \/ AsyncIssue
  <2>1. Cur \in Calls
    BY <1>1, CurFacts DEF SyncIssue, AsyncIssue
  <2> QED BY <1>1, <2>1 DEF SyncIssue, AsyncIssue, Sends, FailsLater, Goto
<1>2. CASE StopAllDaemons
  <2>1. at.node \in 1 .. NumHosts => StopCall(at.node) \in Calls
    BY StopCallFacts DEF NodeIds
  <2> QED BY <1>2, <2>1 DEF StopAllDaemons, StopSend, StopSent, StopWait,
          StopThrow, Sends, FailsLater
<1>3. CASE ServiceStep
  <2>1. ASSUME NEW d \in Calls, Dispatch(d)
        PROVE  /\ call' = [call EXCEPT ![d] = "running"]
                  \/ call' = [call EXCEPT ![d] = "nomatch"]
               /\ call[d] = "queued" /\ server[d.node] = "up"
               /\ UNCHANGED server
    BY <2>1 DEF Dispatch
  <2>2. ASSUME NEW d \in Calls,
               \/ RpcPing(d) \/ RpcTaskSubmit(d) \/ RpcStopDaemon(d)
               \/ Receive(d)
        PROVE  call' = [call EXCEPT ![d] = "replied"]
                 \/ call' = [call EXCEPT ![d] = "ok"]
    BY <2>2 DEF RpcPing, RpcTaskSubmit, RpcStopDaemon, Receive
  <2>3. ASSUME NEW d \in Calls, IoCallServerWrite(d)
        PROVE  call' = call \/ (/\ call' = [call EXCEPT ![d] = "pulled"]
                                /\ call[d] = "running")
    BY <2>3 DEF IoCallServerWrite
  <2>4. ASSUME NEW q \in NodeIds,
               \/ FinalizeClient(q) \/ FinalizeServer(q)
               \/ CloseServer(q) \/ RunDaemon(q)
        PROVE  call' = call
    BY <2>4 DEF FinalizeClient, FinalizeServer, CloseServer, RunDaemon
  <2> QED BY <1>3, <2>1, <2>2, <2>3, <2>4 DEF ServiceStep, RpcStep
<1>4. CASE UnfairStep
  BY <1>4 DEF UnfairStep, Disconnect, Crash, StopCut
<1>5. CASE \/ \E p \in Procs : ServerInit(p) \/ TestRunner(p)
           \/ SyncReturn \/ AsyncReturn \/ CallFails \/ Issued
           \/ Collect \/ Collected \/ CollectFails
           \/ UNCHANGED vars
  BY <1>5 DEF ServerInit, TestRunner, SyncReturn, AsyncReturn, CallFails,
     Issued, Collect, Collected, CollectFails, vars, rpcVars
<1> QED BY <1>1, <1>2, <1>3, <1>4, <1>5 DEF Next, MainStep

\* Every step keeps the presence of the servers.
LEMMA PresenceStep ==
  ASSUME TypeInv, LoopOrder, Presence, [Next]_vars
  PROVE  Presence'
<1>1. ASSUME NEW p \in Procs, ~Dead(p)', server'[p] = "none"
      PROVE  pc'[p] = "start"
  <2>1. server[p] = "none" /\ ~Dead(p)
    BY <1>1, ProcessSteps DEF Dead
  <2> QED BY <1>1, <2>1, ProcessSteps DEF Presence
<1>2. ASSUME NEW c \in Calls, server'[c.node] = "down"
      PROVE  call'[c] \notin {"running", "pulled"}
  <2>1. c.node \in Procs
    BY ProcFacts DEF Calls
  <2>2. CASE server[c.node] = "down"
    BY <2>2, HandlerSteps DEF Presence
  <2>3. CASE CloseServer(c.node) /\ UNCHANGED call
    BY <2>3 DEF CloseServer
  <2> QED BY <1>2, <2>1, <2>2, <2>3, ProcessSteps
<1> QED BY <1>1, <1>2 DEF Presence

\* Every step keeps the I/O calls of a synchronous test behind its main thread.
LEMMA SyncQuietStep ==
  ASSUME TypeInv, LoopOrder, SyncExposed, SyncQuiet, [Next]_vars
  PROVE  SyncQuiet'
<1> USE RpcAssumption, BenchAssumption, ProcFacts
<1>a. test' = test
  BY DEF Next, MainStep, ServerInit, TestRunner, SyncIssue, SyncReturn,
     AsyncIssue, AsyncReturn, CallFails, Issued, Collect, Collected,
     CollectFails, StopAllDaemons, ServiceStep, UnfairStep, vars
<1> SUFFICES ASSUME IoSize > 0, test # "io_async", Dead(Caller)',
                    Caller \notin CrashHosts,
                    NEW c \in Calls, c.rpc = "RpcTaskSubmit",
                    call'[c] \in {"queued", "running"}
             PROVE  FALSE
  BY <1>a DEF SyncQuiet
<1>1. call[c] \in {"queued", "running"}
  BY HandlerSteps
<1>2. ~Dead(Caller)
  BY <1>1 DEF SyncQuiet
<1>3. pc[Caller] = "await" /\ c = Cur
  BY <1>1, <1>2 DEF SyncExposed
<1>4. \A d \in Calls :
        d.rpc = "RpcTaskSubmit" /\ call[d] = "running" => d \in bulks
  BY <1>2 DEF SyncExposed
<1> USE DEF TypeInv, TypeOK, Dead, Goto
<1>5. CASE ServiceStep
  <2>1. ASSUME NEW d \in Calls, IoCallServerWrite(d)
        PROVE  FALSE
    BY <1>2, <1>4, <2>1 DEF IoCallServerWrite
  <2>2. ASSUME NEW p \in NodeIds, RunDaemon(p)
        PROVE  FALSE
    BY <1>2, <1>3, <2>2 DEF RunDaemon
  <2>3. ASSUME NEW d \in Calls,
               \/ Dispatch(d) \/ RpcPing(d) \/ RpcTaskSubmit(d)
               \/ RpcStopDaemon(d) \/ Receive(d)
        PROVE  FALSE
    BY <1>2, <2>3 DEF Dispatch, RpcPing, RpcTaskSubmit, RpcStopDaemon, Receive
  <2>4. ASSUME NEW p \in NodeIds,
               FinalizeClient(p) \/ FinalizeServer(p) \/ CloseServer(p)
        PROVE  FALSE
    BY <1>2, <2>4 DEF FinalizeClient, FinalizeServer, CloseServer
  <2> QED BY <1>5, <2>1, <2>2, <2>3, <2>4 DEF ServiceStep, RpcStep
<1>6. CASE UnfairStep
  BY <1>2, <1>3, <1>6 DEF UnfairStep, Disconnect, Crash, StopCut
<1>7. CASE CallFails \/ SyncReturn
  BY <1>1, <1>3, <1>7 DEF CallFails, SyncReturn, Raises
<1>8. CASE \/ SyncIssue \/ AsyncIssue \/ AsyncReturn \/ Issued
           \/ Collect \/ Collected \/ CollectFails
  BY <1>3, <1>8 DEF SyncIssue, AsyncIssue, AsyncReturn, Issued, Collect,
     Collected, CollectFails
<1>9. CASE StopAllDaemons
  BY <1>3, <1>9 DEF StopAllDaemons, StopSend, StopSent, StopWait, StopThrow
<1>10. ASSUME NEW p \in Procs, ServerInit(p) \/ TestRunner(p)
       PROVE  FALSE
  BY <1>2, <1>3, <1>10 DEF ServerInit, TestRunner
<1>11. CASE UNCHANGED vars
  BY <1>2, <1>11 DEF vars, rpcVars
<1> QED BY <1>5, <1>6, <1>7, <1>8, <1>9, <1>10, <1>11 DEF Next, MainStep

\* The invariant of the refinement holds initially and is preserved.
LEMMA GroupInvInductive ==
  /\ Init => GroupInv
  /\ GroupInv /\ [Next]_vars => GroupInv'
<1>1. Init => GroupInv
  <2> SUFFICES ASSUME Init PROVE GroupInv
    OBVIOUS
  <2>1. AnswerInv /\ IoInv
    BY AnswerInvInductive, IoInvInductive
  <2>2. Presence /\ SyncQuiet
    BY DEF Init, RpcInit, Presence, SyncQuiet
  <2> QED BY <2>1, <2>2 DEF GroupInv
<1>2. GroupInv /\ [Next]_vars => GroupInv'
  BY AnswerInvInductive, IoInvInductive, PresenceStep, SyncQuietStep
     DEF GroupInv, AnswerInv, LoopInv, IoInv
<1> QED BY <1>1, <1>2

-----------------------------------------------------------------------------
(***************************************************************************)
(* The refinement.                                                         *)
(***************************************************************************)

\* A group starts with nobody in it and nothing asked.
LEMMA GroupInitially == Init => Group!GroupInit
<1> SUFFICES ASSUME Init PROVE Group!GroupInit
  OBVIOUS
<1>1. /\ \A p \in Procs : pc[p] = "start" /\ server[p] = "none"
      /\ \A c \in Calls : call[c] = "idle"
  BY DEF Init, RpcInit
<1>2. Members = [n \in NodeIds |-> "out"]
  BY <1>1, ProcFacts DEF Members, Member, Dead
<1>3. Asked = {} /\ Busy = {} /\ Served = {} /\ SettledCalls = {} /\ Told = {}
  BY <1>1, StopCallFacts
     DEF Asked, Busy, Served, SettledCalls, Told, TestCalls
<1>4. Manner \in {"thorough", "patient", "impatient"}
  BY DEF Manner
<1>5. Losable \subseteq NodeIds
  BY RpcAssumption, ProcFacts DEF Losable, NodeIds
<1> QED BY <1>2, <1>3, <1>4, <1>5
        DEF Group!GroupInit, Members, Asked, Busy, Served, SettledCalls, Told

AbstractStep == Group!GroupNext \/ UNCHANGED Group!groupVars

\* A main thread that goes on is nothing to the group; one that ends departs,
\* if it is one of those that may vanish.
LEMMA ThreadSteps ==
  ASSUME TypeOK, UNCHANGED <<server, call, test>>,
         NEW p \in Procs, NEW l \in MainLabels,
         pc' = [pc EXCEPT ![p] = l], ~Dead(p),
         l \in {"exited", "aborted", "crashed"} => p \in Losable
  PROVE  AbstractStep
<1>1. UNCHANGED <<rigidMap, callMap>>
  BY CallsKept
<1>2. CASE l \in {"exited", "aborted", "crashed"}
  <2>1. Members[p] # "gone" /\ Members' = [Members EXCEPT ![p] = "gone"]
    BY <1>2, MembersMove
  <2> QED BY <1>1, <1>2, <2>1, DepartStep, ProcFacts DEF AbstractStep
<1>3. CASE l \notin {"exited", "aborted", "crashed"}
  <2>1. UNCHANGED Members
    BY <1>3, MembersMove
  <2> QED BY <1>1, <2>1, StutterStep DEF AbstractStep
<1> QED BY <1>2, <1>3

\* Node 1 ends when it wants to, and so may the hosts that fail or die.
LEMMA LosableHosts ==
  Caller \in Losable /\ FatalHosts \subseteq Losable /\ CrashHosts \subseteq Losable
  BY RpcAssumption, ProcFacts DEF Losable, NodeIds

\* Start-up: a daemon joins, or fails.
LEMMA StartRefines ==
  ASSUME GroupInv, NEW p \in Procs, ServerInit(p) \/ TestRunner(p)
  PROVE  AbstractStep
<1> USE DEF GroupInv, AnswerInv, LoopInv, TypeInv
<1>1. CASE ServerInit(p) /\ p \in FatalHosts /\ Goto(p, "aborted")
           /\ UNCHANGED server
  <2>1. /\ UNCHANGED <<call, test>>
        /\ pc' = [pc EXCEPT ![p] = "aborted"] /\ ~Dead(p)
    BY <1>1 DEF ServerInit, Goto, Dead
  <2> QED BY <1>1, <2>1, ThreadSteps, LosableHosts DEF MainLabels
<1>2. CASE ServerInit(p) /\ server' = [server EXCEPT ![p] = "up"]
           /\ Goto(p, "sleep")
  <2>1. /\ UNCHANGED <<call, test>>
        /\ pc[p] = "start" /\ server[p] = "none"
        /\ pc' = [pc EXCEPT ![p] = "sleep"]
    BY <1>2 DEF ServerInit, Goto, IoInv, StartsDown
  <2>2. /\ \A q \in NodeIds \ {p} : pc'[q] = pc[q] /\ server'[q] = server[q]
        /\ pc'[p] = "sleep" /\ server'[p] = "up"
    BY <1>2, <2>1, ProcFacts DEF TypeOK
  <2>3. Member(p) = "out" /\ Member(p)' = "in"
    BY <2>1, <2>2 DEF Member, Dead
  <2>4. Members[p] = "out" /\ Members' = [Members EXCEPT ![p] = "in"]
    BY <2>2, <2>3, MemberTurns, ProcFacts DEF Members
  <2> QED BY <2>1, <2>4, JoinStep, CallsKept, ProcFacts DEF AbstractStep
<1>3. CASE TestRunner(p)
  <2>1. PICK l \in {"daemon", "issue", "stopSend"} :
               pc' = [pc EXCEPT ![p] = l]
    BY <1>3 DEF TestRunner, Goto
  <2>2. UNCHANGED <<server, call, test>> /\ ~Dead(p)
    BY <1>3 DEF TestRunner, Dead
  <2> QED BY <2>1, <2>2, ThreadSteps DEF MainLabels
<1> QED BY <1>1, <1>2, <1>3 DEF ServerInit

\* What Member says of a process that is there, or is not.
LEMMA MemberFacts ==
  ASSUME GroupInv, NEW n \in NodeIds
  PROVE  /\ Members[n] = Member(n)
         /\ Member(n) = "in" <=> ~Dead(n) /\ server[n] = "up"
         /\ Member(n) = "leaving" <=>
              ~Dead(n) /\ server[n] \in {"closing", "down"}
         /\ Member(n) = "gone" <=> Dead(n)
         /\ Member(n) = "out" <=> ~Dead(n) /\ server[n] = "none"
         /\ \A c \in Calls :
              c.node = n /\ call[c] \notin {"idle", "failed"} => Member(n) # "out"
<1>1. server[n] \in {"none", "up", "closing", "down"} /\ n \in Procs
  BY ProcFacts DEF GroupInv, AnswerInv, LoopInv, TypeInv, TypeOK
<1>2. ASSUME NEW c \in Calls, c.node = n, call[c] \notin {"idle", "failed"}
      PROVE  Member(n) # "out"
  <2>1. pc[n] # "start"
    BY <1>1, <1>2 DEF GroupInv, IoInv, StartsDown
  <2> QED BY <1>1, <2>1 DEF GroupInv, Presence, Member
<1> QED BY <1>1, <1>2 DEF Members, Member

\* The loops of a test: a call is made.
LEMMA IssueRefines ==
  ASSUME GroupInv, SyncIssue \/ AsyncIssue
  PROVE  AbstractStep
<1> USE DEF GroupInv, AnswerInv, LoopInv, TypeInv
<1>1. /\ pc[Caller] = "issue" /\ More
      /\ \E l \in {"await", "return"} : pc' = [pc EXCEPT ![Caller] = l]
      /\ UNCHANGED <<server, test>>
      /\ Sends(Cur) \/ FailsLater(Cur)
  BY DEF SyncIssue, AsyncIssue, Goto
<1>2. Cur \in TestCalls /\ Cur \in Calls /\ Cur.node \in NodeIds
  BY <1>1, CurFacts DEF Calls
<1>3. Ahead(Cur)
  BY DEF Ahead, Cur, TypeOK
<1>4. call[Cur] = "idle"
  BY <1>1, <1>2, <1>3 DEF LoopOrder
<1>5. UNCHANGED Members
  <2>1. PICK l \in {"await", "return"} : pc' = [pc EXCEPT ![Caller] = l]
    BY <1>1
  <2> QED BY <1>1, <2>1, MembersMove, ProcFacts DEF Dead, MainLabels
<1>6. Told = {} /\ Cur \notin Asked
  BY <1>1, <1>4 DEF StopInv, StopOrder, Told, Asked
<1>7. /\ Cur \notin Busy /\ Cur \notin Served /\ Cur \notin SettledCalls
  BY <1>4 DEF Busy, Served, SettledCalls
<1>8. CASE Sends(Cur)
  <2>1. call' = [call EXCEPT ![Cur] = "queued"] /\ Reachable(Cur.node)
    BY <1>8 DEF Sends
  <2>2. server[Cur.node] # "closing"
    BY <1>1, <1>2 DEF StopInv, StopOrder
  <2>3. Members[Cur.node] = "in"
    BY <1>2, <2>1, <2>2, MemberFacts DEF Reachable
  <2>4. /\ Asked' = Asked \cup {Cur} /\ Told' = Told
        /\ Busy' = Busy \ {Cur} /\ Served' = Served \ {Cur}
        /\ SettledCalls' = SettledCalls \ {Cur}
    BY <1>2, <2>1, TestCallCases
  <2>5. UNCHANGED <<Busy, Served, SettledCalls>>
    BY <1>7, <2>4
  <2> QED BY <1>1, <1>2, <1>5, <1>6, <2>3, <2>4, <2>5, AskStep, CallsKept
          DEF AbstractStep
<1>9. CASE FailsLater(Cur)
  <2>1. call' = [call EXCEPT ![Cur] = "failed"] /\ ~Reachable(Cur.node)
    BY <1>9 DEF FailsLater
  <2>2. Members[Cur.node] # "in"
    BY <1>2, <2>1, MemberFacts DEF Reachable
  <2>3. /\ Asked' = Asked \cup {Cur} /\ Told' = Told
        /\ Busy' = Busy \ {Cur} /\ Served' = Served \ {Cur}
        /\ SettledCalls' = SettledCalls \cup {Cur}
    BY <1>2, <2>1, TestCallCases
  <2>4. UNCHANGED <<Busy, Served>>
    BY <1>7, <2>3
  <2> QED BY <1>1, <1>2, <1>5, <1>6, <2>2, <2>3, <2>4, AskStep, CallsKept
          DEF AbstractStep
<1> QED BY <1>1, <1>8, <1>9

\* The other steps of a test only move the main thread, or end it.
LEMMA LoopRefines ==
  ASSUME GroupInv,
         \/ SyncReturn \/ AsyncReturn \/ CallFails \/ Issued
         \/ Collect \/ Collected \/ CollectFails
  PROVE  AbstractStep
<1> USE DEF GroupInv, AnswerInv, LoopInv, TypeInv
<1>1. /\ UNCHANGED <<server, call, test>>
      /\ pc[Caller] \in {"issue", "await", "return", "collect"}
      /\ \/ UNCHANGED pc
         \/ \E l \in {"issue", "collect", "stopSend", "aborted"} :
              pc' = [pc EXCEPT ![Caller] = l]
  BY DEF SyncReturn, AsyncReturn, CallFails, Issued, Collect, Collected,
     CollectFails, EndTest, Goto
<1>2. CASE UNCHANGED pc
  <2>1. UNCHANGED Members
    BY <1>1, <1>2 DEF Members, Member, Dead
  <2> QED BY <1>1, <2>1, CallsKept, StutterStep DEF AbstractStep
<1>3. ASSUME NEW l \in {"issue", "collect", "stopSend", "aborted"},
             pc' = [pc EXCEPT ![Caller] = l]
      PROVE  AbstractStep
  BY <1>1, <1>3, ThreadSteps, LosableHosts, ProcFacts DEF Dead, MainLabels
<1> QED BY <1>1, <1>2, <1>3

\* When the stop messages are sent, the caller's manner allows it.
LEMMA TellAllowed ==
  ASSUME GroupInv, pc[Caller] = "stopSend"
  PROVE  /\ Manner = "patient" => Asked = SettledCalls
         /\ Manner = "thorough" =>
              Asked = Served /\ NodeIds = {c.node : c \in Served}
<1> USE RpcAssumption DEF GroupInv, AnswerInv, LoopInv, TypeInv
<1>1. ASSUME Manner = "patient"
      PROVE  Asked = SettledCalls
  <2>1. test # "ping_async"
    BY <1>1 DEF Manner
  <2>2. \A c \in TestCalls : Settled(c)
    BY <2>1 DEF StopInv, Tracked
  <2>3. NoUnknownRpc /\ TestCalls \subseteq Calls
    BY DEF StopInv, RegInv, TestCalls
  <2> QED BY <2>2, <2>3 DEF Asked, SettledCalls, Settled
<1>2. ASSUME Manner = "thorough"
      PROVE  Asked = Served /\ NodeIds = {c.node : c \in Served}
  <2>1. ~IsPing /\ test \in KnownTests /\ Rep # 0
    BY <1>2 DEF Manner
  <2>2. R = Rep /\ Cur.rpc \in RpcNames \ {"RpcStopDaemon"}
    BY <2>1 DEF R, Cur, RpcNames
  <2>3. \A c \in TestCalls : c.rpc = Cur.rpc /\ c.rep < R => call[c] = "ok"
    BY <2>1 DEF Answered
  <2>4. \A c \in TestCalls : call[c] # "idle" => c.rpc = Cur.rpc /\ c.rep < R
    <3> TAKE c \in TestCalls
    <3>1. c.rep \in Nat /\ R \in Nat
      BY <2>2 DEF TestCalls, Calls
    <3> QED BY <3>1 DEF LoopOrder
  <2>5. Asked = Served
    BY <2>3, <2>4 DEF Asked, Served
  <2>6. ASSUME NEW n \in NodeIds
        PROVE  n \in {c.node : c \in Served}
    <3> DEFINE c == [rpc |-> Cur.rpc, node |-> n, rep |-> 0]
    <3>1. c \in TestCalls /\ c.rpc = Cur.rpc /\ c.rep < R /\ c.node = n
      BY <2>1, <2>2 DEF TestCalls, Calls
    <3> HIDE DEF c
    <3>2. c \in Served
      BY <2>3, <3>1 DEF Served
    <3> QED BY <3>1, <3>2
  <2>7. \A c \in Served : c.node \in NodeIds
    BY DEF Served, TestCalls, Calls
  <2> QED BY <2>5, <2>6, <2>7
<1> QED BY <1>1, <1>2

\* StopAllDaemons tells the daemons, and main ends after it.
LEMMA StopRefines ==
  ASSUME GroupInv, StopAllDaemons \/ (StopCut("aborted") /\ UNCHANGED test)
  PROVE  AbstractStep
<1> USE DEF GroupInv, AnswerInv, LoopInv, TypeInv
<1>1. CASE StopSend /\ UNCHANGED test
  <2> DEFINE n == at.node
  <2>1. /\ pc[Caller] = "stopSend" /\ n \in NodeIds
        /\ UNCHANGED <<pc, server, test>>
        /\ \/ call' = [call EXCEPT ![StopCall(n)] = "queued"]
           \/ call' = [call EXCEPT ![StopCall(n)] = "failed"]
    BY <1>1 DEF StopSend, Sends, FailsLater, NodeIds, TypeOK
  <2> HIDE DEF n
  <2>2. StopCall(n) \in Calls \ TestCalls
    BY <2>1, StopCallFacts DEF TestCalls
  <2>3. {m \in NodeIds : StopCall(m) = StopCall(n)} = {n}
    BY <2>1, StopCallFacts
  <2>4. /\ UNCHANGED <<Asked, Busy, Served, SettledCalls>>
        /\ Told' = Told \cup {n}
    BY <2>1, <2>2, <2>3, StopCallMoves DEF Status
  <2>5. UNCHANGED Members
    BY <2>1 DEF Members, Member, Dead
  <2> QED BY <2>1, <2>4, <2>5, TellAllowed, TellStep, CallsKept
          DEF AbstractStep
<1>2. CASE /\ UNCHANGED test
           /\ StopSent \/ StopWait("exited") \/ StopThrow("aborted")
                \/ StopCut("aborted")
  <2>1. /\ UNCHANGED <<server, call, test>>
        /\ pc[Caller] \in {"stopSend", "stopWait"}
        /\ \/ UNCHANGED pc
           \/ \E l \in {"stopWait", "exited", "aborted"} :
                pc' = [pc EXCEPT ![Caller] = l]
    BY <1>2 DEF StopSent, StopWait, StopThrow, StopCut
  <2>2. CASE UNCHANGED pc
    <3>1. UNCHANGED Members
      BY <2>1, <2>2 DEF Members, Member, Dead
    <3> QED BY <2>1, <3>1, CallsKept, StutterStep DEF AbstractStep
  <2>3. ASSUME NEW l \in {"stopWait", "exited", "aborted"},
               pc' = [pc EXCEPT ![Caller] = l]
        PROVE  AbstractStep
    BY <2>1, <2>3, ThreadSteps, LosableHosts, ProcFacts DEF Dead, MainLabels
  <2> QED BY <2>1, <2>2, <2>3
<1> QED BY <1>1, <1>2 DEF StopAllDaemons

\* The servers begin and answer calls, and the caller learns of the answers.
LEMMA HandlersRefine ==
  ASSUME GroupInv, NEW c \in Calls, UNCHANGED test,
         \/ Dispatch(c) \/ RpcPing(c) \/ RpcTaskSubmit(c) \/ RpcStopDaemon(c)
         \/ Receive(c)
  PROVE  AbstractStep
<1> USE DEF GroupInv, AnswerInv, LoopInv, TypeInv
<1>1. UNCHANGED <<rigidMap, Members>>
  <2>1. UNCHANGED <<pc, server>>
    BY DEF Dispatch, RpcPing, RpcTaskSubmit, RpcStopDaemon, Receive
  <2> QED BY <2>1, CallsKept DEF Members, Member, Dead
<1>2. c.node \in NodeIds /\ c.rpc \in RpcNames
  BY DEF Calls
<1>3. \E s \in {"running", "replied", "ok"} :
        /\ call' = [call EXCEPT ![c] = s]
        /\ s = "running" =>
             call[c] = "queued" /\ ~Dead(c.node) /\ server[c.node] = "up"
        /\ s = "replied" => call[c] \in {"running", "pulled"} /\ ~Dead(c.node)
        /\ s = "ok" => call[c] = "replied"
  <2>1. CASE Dispatch(c)
    <3>1. rpcs[c.node] = RpcNames
      BY <2>1, <1>2, ProcFacts DEF Dispatch, StopInv, RegInv, Registered
    <3> QED BY <2>1, <3>1, <1>2 DEF Dispatch, Progresses, Dead
  <2>2. CASE \/ RpcPing(c) \/ RpcTaskSubmit(c) \/ RpcStopDaemon(c)
             \/ Receive(c)
    BY <2>2 DEF RpcPing, RpcTaskSubmit, RpcStopDaemon, Receive, Works
  <2> QED BY <2>1, <2>2
<1>4. PICK s \in {"running", "replied", "ok"} :
        /\ call' = [call EXCEPT ![c] = s]
        /\ s = "running" =>
             call[c] = "queued" /\ ~Dead(c.node) /\ server[c.node] = "up"
        /\ s = "replied" => call[c] \in {"running", "pulled"} /\ ~Dead(c.node)
        /\ s = "ok" => call[c] = "replied"
  BY <1>3
<1>5. CASE c \notin TestCalls
  <2>1. c \in Calls \ TestCalls /\ s \in Status \ {"idle"}
    BY <1>5 DEF Status
  <2>2. /\ UNCHANGED <<Asked, Busy, Served, SettledCalls>>
        /\ Told' = Told \cup {n \in NodeIds : StopCall(n) = c}
    BY <1>4, <2>1, StopCallMoves
  <2>3. {n \in NodeIds : StopCall(n) = c} \subseteq Told
    BY <1>4 DEF Told
  <2>4. Told' = Told
    BY <2>2, <2>3
  <2> QED BY <1>1, <2>2, <2>4, StutterStep DEF AbstractStep, callMap
<1>6. CASE c \in TestCalls /\ s = "running"
  <2>1. c \in Asked \ (Busy \cup Served \cup SettledCalls)
    BY <1>4, <1>6 DEF Asked, Busy, Served, SettledCalls
  <2>2. Members[c.node] = "in"
    BY <1>2, <1>4, <1>6, MemberFacts
  <2>3. /\ Told' = Told /\ Asked' = Asked \cup {c}
        /\ Busy' = Busy \cup {c} /\ Served' = Served \ {c}
        /\ SettledCalls' = SettledCalls \ {c}
    BY <1>4, <1>6, TestCallCases
  <2>4. UNCHANGED <<Asked, Served, SettledCalls>>
    BY <2>1, <2>3
  <2> QED BY <1>1, <1>6, <2>1, <2>2, <2>3, <2>4, BeginStep DEF AbstractStep
<1>7. CASE c \in TestCalls /\ s = "replied"
  <2>1. c \in Busy /\ c \in Asked /\ c \notin SettledCalls
    BY <1>4, <1>7 DEF Asked, Busy, SettledCalls
  <2>2. Members[c.node] \in {"in", "leaving"}
    <3>1. /\ Member(c.node) # "out" /\ Member(c.node) # "gone"
          /\ Members[c.node] = Member(c.node)
      BY <1>2, <1>4, <1>7, MemberFacts
    <3> QED BY <3>1 DEF Member
  <2>3. /\ Told' = Told /\ Asked' = Asked \cup {c}
        /\ Busy' = Busy \ {c} /\ Served' = Served \cup {c}
        /\ SettledCalls' = SettledCalls \ {c}
    BY <1>4, <1>7, TestCallCases
  <2>4. UNCHANGED <<Asked, SettledCalls>>
    BY <2>1, <2>3
  <2> QED BY <1>1, <1>7, <2>1, <2>2, <2>3, <2>4, ServeStep DEF AbstractStep
<1>8. CASE c \in TestCalls /\ s = "ok"
  <2>1. c \in Asked \ SettledCalls /\ c \in Served
    BY <1>4, <1>8 DEF Asked, Served, SettledCalls
  <2>2. /\ Told' = Told /\ Asked' = Asked \cup {c}
        /\ Busy' = Busy \ {c} /\ Served' = Served \cup {c}
        /\ SettledCalls' = SettledCalls \cup {c}
    BY <1>4, <1>8, TestCallCases
  <2>3. UNCHANGED <<Asked, Served>>
    BY <2>1, <2>2
  <2> QED BY <1>1, <1>8, <2>1, <2>2, <2>3, SettleStep DEF AbstractStep
<1> QED BY <1>5, <1>6, <1>7, <1>8

\* A pull goes unnoticed, unless it ends the daemon.
LEMMA PullRefines ==
  ASSUME GroupInv, NEW c \in Calls, UNCHANGED test, IoCallServerWrite(c)
  PROVE  AbstractStep
<1> USE DEF GroupInv, AnswerInv, LoopInv, TypeInv
<1>1. /\ c.rpc = "RpcTaskSubmit" /\ call[c] = "running"
      /\ c.node \in NodeIds /\ ~Dead(c.node)
      /\ c \in TestCalls
      /\ UNCHANGED server
  BY DEF IoCallServerWrite, Works, Calls, TestCalls
<1>2. CASE call' = [call EXCEPT ![c] = "pulled"] /\ UNCHANGED pc
  <2>1. UNCHANGED <<rigidMap, Members>>
    BY <1>1, <1>2, CallsKept DEF Members, Member, Dead
  <2>2. c \in Asked /\ c \in Busy /\ c \notin Served /\ c \notin SettledCalls
    BY <1>1 DEF Asked, Busy, Served, SettledCalls
  <2>3. /\ Told' = Told /\ Asked' = Asked \cup {c}
        /\ Busy' = Busy \cup {c} /\ Served' = Served \ {c}
        /\ SettledCalls' = SettledCalls \ {c}
    BY <1>1, <1>2, TestCallCases
  <2>4. UNCHANGED <<Asked, Busy, Served, SettledCalls>>
    BY <2>2, <2>3
  <2> QED BY <2>1, <2>3, <2>4, StutterStep DEF AbstractStep, callMap
<1>3. CASE /\ IoSize > 0
           /\ c \notin bulks \/ Dead(Caller)
           /\ pc' = [pc EXCEPT ![c.node] = "aborted"]
           /\ UNCHANGED call
  <2>1. IsIo
    <3>1. c.rpc = Cur.rpc
      BY <1>1 DEF LoopOrder
    <3> QED BY <1>1, <3>1 DEF Cur
  <2>2. IsAsync \/ Caller \in CrashHosts
    <3>1. CASE Dead(Caller)
      BY <1>1, <1>3, <2>1, <3>1 DEF SyncQuiet, IsAsync, IsIo
    <3>2. CASE ~Dead(Caller)
      BY <1>1, <1>3, <2>1, <3>2 DEF IoInv, SyncExposed, IsAsync, IsIo
    <3> QED BY <3>1, <3>2
  <2>3. c.node \in Losable
    BY <1>1, <2>1, <2>2 DEF Losable
  <2> QED BY <1>1, <1>3, <2>3, ThreadSteps, ProcFacts DEF MainLabels
<1> QED BY <1>2, <1>3 DEF IoCallServerWrite

\* The engines of a daemon that was told to stop go down, and it departs.
LEMMA EnginesRefine ==
  ASSUME GroupInv, NEW p \in NodeIds, UNCHANGED test,
         \/ FinalizeClient(p) \/ FinalizeServer(p)
         \/ CloseServer(p) \/ RunDaemon(p)
  PROVE  AbstractStep
<1> USE DEF GroupInv, AnswerInv, LoopInv, TypeInv
<1>1. UNCHANGED call
  BY DEF FinalizeClient, FinalizeServer, CloseServer, RunDaemon
<1>2. UNCHANGED <<rigidMap, callMap>>
  BY <1>1, CallsKept
<1>3. CASE FinalizeClient(p)
  <2>1. UNCHANGED Members
    BY <1>3 DEF FinalizeClient, Members, Member, Dead
  <2> QED BY <1>2, <2>1, StutterStep DEF AbstractStep
<1>4. CASE FinalizeServer(p)
  <2>1. /\ stop[p] = "clientDown" /\ ~Dead(p)
        /\ server' = [server EXCEPT ![p] = "closing"]
        /\ UNCHANGED pc
    BY <1>4 DEF FinalizeServer, Works
  <2>2. /\ \A q \in NodeIds \ {p} : pc'[q] = pc[q] /\ server'[q] = server[q]
        /\ Member(p)' = "leaving"
    BY <2>1, ProcFacts DEF TypeOK, Member, Dead
  <2>3. Members' = [Members EXCEPT ![p] = "leaving"]
    BY <2>2, MemberTurns
  <2>4. pc[p] # "start"
    BY <2>1, ProcFacts DEF IoInv, StartsDown
  <2>5. server[p] # "none"
    BY <2>1, <2>4, ProcFacts DEF Presence
  <2>6. p \in Told
    BY <2>1 DEF StopInv, StopOrder, Told
  <2>7. CASE server[p] = "up"
    <3>1. Members[p] = "in"
      BY <2>1, <2>7, MemberFacts
    <3> QED BY <1>2, <2>3, <2>6, <3>1, LeaveStep DEF AbstractStep
  <2>8. CASE server[p] # "up"
    <3>1. Members[p] = "leaving"
      BY <2>1, <2>5, <2>8, ProcFacts DEF Members, Member
    <3>2. UNCHANGED Members
      BY <2>3, <3>1 DEF Members
    <3> QED BY <1>2, <3>2, StutterStep DEF AbstractStep
  <2> QED BY <2>7, <2>8
<1>5. CASE CloseServer(p)
  <2>1. /\ server[p] = "closing" /\ UNCHANGED pc
        /\ server' = [server EXCEPT ![p] = "down"]
    BY <1>5 DEF CloseServer
  <2>2. \A n \in NodeIds : Member(n)' = Member(n)
    BY <2>1, ProcFacts DEF TypeOK, Member, Dead
  <2>3. UNCHANGED Members
    BY <2>2 DEF Members
  <2> QED BY <1>2, <2>3, StutterStep DEF AbstractStep
<1>6. CASE RunDaemon(p)
  <2>1. /\ pc[p] = "daemon" /\ ~Dead(p) /\ server[p] = "down"
        /\ pc' = [pc EXCEPT ![p] = "exited"]
        /\ UNCHANGED server
    BY <1>6 DEF RunDaemon, Dead
  <2>2. Members[p] = "leaving"
    BY <2>1, MemberFacts
  <2>3. Members' = [Members EXCEPT ![p] = "gone"]
    BY <2>1, MembersMove, ProcFacts DEF MainLabels
  <2>4. \A c \in Busy : c.node # p
    BY <2>1 DEF Presence, Busy, TestCalls
  <2> QED BY <1>2, <2>2, <2>3, <2>4, DepartStep DEF AbstractStep
<1> QED BY <1>3, <1>4, <1>5, <1>6

\* A broken connection settles a call, and a host that dies departs.
LEMMA FaultsRefine ==
  ASSUME GroupInv, UNCHANGED test,
         \/ \E c \in Calls : Disconnect(c)
         \/ \E p \in NodeIds : Crash(p)
  PROVE  AbstractStep
<1> USE DEF GroupInv, AnswerInv, LoopInv, TypeInv
<1>1. ASSUME NEW c \in Calls, Disconnect(c)
      PROVE  AbstractStep
  <2>1. /\ call[c] \in {"queued", "running", "pulled"}
        /\ ~Reachable(c.node) /\ c.node \in NodeIds
        /\ call' = [call EXCEPT ![c] = "failed"]
        /\ UNCHANGED <<pc, server>>
    BY <1>1 DEF Disconnect, Calls
  <2>2. UNCHANGED <<rigidMap, Members>>
    BY <2>1, CallsKept DEF Members, Member, Dead
  <2>3. CASE c \notin TestCalls
    <3>1. c \in Calls \ TestCalls /\ "failed" \in Status \ {"idle"}
      BY <2>3 DEF Status
    <3>2. /\ UNCHANGED <<Asked, Busy, Served, SettledCalls>>
          /\ Told' = Told \cup {n \in NodeIds : StopCall(n) = c}
      BY <2>1, <3>1, StopCallMoves
    <3>3. {n \in NodeIds : StopCall(n) = c} \subseteq Told
      BY <2>1 DEF Told
    <3>4. Told' = Told
      BY <3>2, <3>3
    <3> QED BY <2>2, <3>2, <3>4, StutterStep DEF AbstractStep, callMap
  <2>4. CASE c \in TestCalls
    <3>1. c \in Asked \ SettledCalls /\ c \notin Served
      BY <2>1, <2>4 DEF Asked, Served, SettledCalls
    <3>2. Members[c.node] \in {"leaving", "gone"}
      <4>1. /\ Member(c.node) # "out" /\ Member(c.node) # "in"
            /\ Members[c.node] = Member(c.node)
        BY <2>1, MemberFacts DEF Reachable
      <4> QED BY <4>1 DEF Member
    <3>3. /\ Told' = Told /\ Asked' = Asked \cup {c}
          /\ Busy' = Busy \ {c} /\ Served' = Served \ {c}
          /\ SettledCalls' = SettledCalls \cup {c}
      BY <2>1, <2>4, TestCallCases
    <3>4. UNCHANGED <<Asked, Served>>
      BY <3>1, <3>3
    <3> QED BY <2>2, <2>4, <3>1, <3>2, <3>3, <3>4, SettleStep
            DEF AbstractStep
  <2> QED BY <2>3, <2>4
<1>2. ASSUME NEW p \in NodeIds, Crash(p)
      PROVE  AbstractStep
  <2>1. /\ p \in CrashHosts /\ ~Dead(p)
        /\ pc' = [pc EXCEPT ![p] = "crashed"]
        /\ UNCHANGED <<server, call>>
    BY <1>2 DEF Crash
  <2> QED BY <2>1, ThreadSteps, LosableHosts, ProcFacts DEF MainLabels
<1> QED BY <1>1, <1>2

\* Every step of the benchmark is a step of the group, or none.
LEMMA GroupStep ==
  ASSUME GroupInv, [Next]_vars
  PROVE  AbstractStep
<1>1. ASSUME ServiceStep
      PROVE  AbstractStep
  BY <1>1, HandlersRefine, PullRefines, EnginesRefine DEF ServiceStep, RpcStep
<1>2. ASSUME UnfairStep
      PROVE  AbstractStep
  BY <1>2, FaultsRefine, StopRefines DEF UnfairStep
<1>3. CASE UNCHANGED vars
  <2>1. UNCHANGED <<pc, server, call, test>>
    BY <1>3 DEF vars, rpcVars
  <2>2. UNCHANGED Members
    BY <2>1 DEF Members, Member, Dead
  <2> QED BY <2>1, <2>2, CallsKept, StutterStep DEF AbstractStep
<1> QED BY <1>1, <1>2, <1>3, StartRefines, IssueRefines, LoopRefines,
           StopRefines DEF Next, MainStep

\* Whatever the test, the faults and the number of hosts, the servers of the
\* benchmark are a DaemonGroup: no call once a daemon was told to stop, no
\* stop message before the test allows it, no daemon leaving untold.
THEOREM BenchIsDaemonGroup == Spec => ImplementsDaemonGroup
<1>1. Spec => []GroupInv
  BY GroupInvInductive, PTL DEF Spec
<1>2. GroupInv /\ [Next]_vars => [Group!GroupNext]_(Group!groupVars)
  BY GroupStep DEF AbstractStep
<1> QED BY <1>1, <1>2, GroupInitially, PTL
        DEF Spec, ImplementsDaemonGroup, Group!GroupSpec
=============================================================================
