----------------------------- MODULE NetBench ------------------------------
(***************************************************************************)
(* chi_net_bench.cc: one process per host.  Each starts its engines,       *)
(* sleeps, registers the test's RPCs; then node 1 runs one test and calls  *)
(* StopAllDaemons while the others run as daemons.                         *)
(*                                                                         *)
(* Values of pc[p]:                                                        *)
(*   "start"    in CHI_RPC->ServerInit and CHI_THALLIUM->ServerInit        *)
(*   "sleep"    in sleep_for                                               *)
(*   "issue"    at the head of the test's loop                             *)
(*   "await"    blocked in a synchronous call                              *)
(*   "return"   async() has returned, IoCall has not: its locals are alive *)
(*   "collect"  in the loop that waits for the responses                   *)
(*   "stopSend", "stopWait"  in the two loops of StopAllDaemons            *)
(*   "daemon"   in wait_for_finalize                                       *)
(*   "exited"   main has returned                                          *)
(*   "aborted"  HELOG(kFatal) or an exception nobody catches               *)
(*   "crashed"  the process has died                                       *)
(***************************************************************************)
EXTENDS ThalliumRpc, FiniteSets

CONSTANTS
  TestNames,   \* values of the command-line argument test_ to consider
  SleepCovers  \* TRUE: node 1 sleeps for longer than the others need to start

KnownTests == {"ping", "ping_async", "io", "io_async", "metadata",
               "metadata_async"}

ASSUME BenchAssumption ==
  /\ Caller = 1
  /\ SleepCovers \in BOOLEAN

VARIABLES
  test,   \* info.test_
  count   \* PingAll's count

vars == <<rpcVars, test, count>>

IsPing == test \in {"ping", "ping_async"}
IsIo == test \in {"io", "io_async"}
IsAsync == test \in {"ping_async", "io_async", "metadata_async"}

\* Calls per node: PingAll has no inner loop.
R == IF IsPing THEN 1 ELSE Rep

\* The call of the current iteration.
Cur == [rpc |-> IF IsIo THEN "RpcTaskSubmit" ELSE "RpcPing",
        node |-> at.node, rep |-> at.rep]

TestCalls == {c \in Calls : c.rpc # "RpcStopDaemon"}

\* The two nested loops have an iteration left.
More == at.node <= NumHosts /\ R > 0

Advance_OneLoop == at' = [at EXCEPT !.rep = @ + 1]
Advance ==
  at' = IF at.rep + 1 < R THEN [at EXCEPT !.rep = @ + 1]
                          ELSE [node |-> at.node + 1, rep |-> 0]

Goto(p, label) == pc' = [pc EXCEPT ![p] = label]

Init ==
  /\ RpcInit
  /\ test \in TestNames
  /\ count = 0
-----------------------------------------------------------------------------
(***************************************************************************)
(* Start-up.                                                               *)
(***************************************************************************)

\* RpcContext::ServerInit and ThalliumRpc::ServerInit: both may end in
\* HELOG(kFatal), on an unknown host or a taken port; else the engines are up
\* and RpcStopDaemon is registered.
ServerInit(p) ==
  /\ pc[p] = "start"
  /\ \/ /\ p \in FatalHosts
        /\ Goto(p, "aborted")
        /\ UNCHANGED <<server, client, rpcs>>
     \/ /\ server' = [server EXCEPT ![p] = "up"]
        /\ client' = [client EXCEPT ![p] = "up"]
        /\ rpcs' = [rpcs EXCEPT ![p] = {"RpcStopDaemon"}]
        /\ Goto(p, "sleep")
  /\ UNCHANGED <<stop, call, bulks, responses, at, test, count>>

\* The sleep ends: TestRunner registers its RPCs and main branches.
TestRunner(p) ==
  /\ pc[p] = "sleep"
  /\ (SleepCovers /\ p = Caller) => \A q \in Procs : pc[q] # "start"
  /\ rpcs' = [rpcs EXCEPT ![p] = @ \cup {"RpcPing", "RpcTaskSubmit"}]
  /\ Goto(p, IF p # Caller THEN "daemon"
             ELSE IF test \in KnownTests THEN "issue" ELSE "stopSend")
  /\ UNCHANGED <<server, client, stop, call, bulks, responses, at, test,
                 count>>
-----------------------------------------------------------------------------
(***************************************************************************)
(* The body of a test.  In an I/O call with data the bulk handle of IoCall *)
(* lives from the call to IoCall's return.                                 *)
(***************************************************************************)
Exposed(c) == IF IsIo /\ IoSize > 0 THEN {c} ELSE {}

SyncIssue_FreesBulk ==
  /\ pc[Caller] = "issue"
  /\ ~IsAsync
  /\ More
  /\ Sends(Cur)
  /\ Goto(Caller, "await")
  /\ UNCHANGED <<server, client, rpcs, stop, bulks, responses, at, test, count>>

\* SyncCall, SyncIoCall: forward the request and block.
SyncIssue ==
  /\ pc[Caller] = "issue"
  /\ ~IsAsync
  /\ More
  /\ Sends(Cur)
  /\ bulks' = bulks \cup Exposed(Cur)
  /\ Goto(Caller, "await")
  /\ UNCHANGED <<server, client, rpcs, stop, responses, at, test, count>>

SyncReturn ==
  /\ pc[Caller] = "await"
  /\ Returns(Cur)
  /\ bulks' = bulks \ {Cur}
  /\ count' = IF IsPing THEN count + 1 ELSE count
  /\ Advance
  /\ Goto(Caller, "issue")
  /\ UNCHANGED <<server, client, rpcs, stop, call, responses, test>>

\* AsyncCall, AsyncIoCall: forward the request and go on.
AsyncIssue ==
  /\ pc[Caller] = "issue"
  /\ IsAsync
  /\ More
  /\ Sends(Cur) \/ FailsLater(Cur)
  /\ bulks' = bulks \cup Exposed(Cur)
  /\ Goto(Caller, "return")
  /\ UNCHANGED <<server, client, rpcs, stop, responses, at, test, count>>

AsyncReturn_Retries ==
  /\ pc[Caller] = "return"
  /\ bulks' = bulks \ {Cur}
  /\ IF Raises(Cur) THEN UNCHANGED <<at, responses>>
     ELSE Advance /\ responses' = Append(responses, Cur)
  /\ Goto(Caller, "issue")
  /\ UNCHANGED <<server, client, rpcs, stop, call, test, count>>

AsyncReturn ==
  /\ pc[Caller] = "return"
  /\ bulks' = bulks \ {Cur}
  /\ responses' = Append(responses, Cur)
  /\ Advance
  /\ Goto(Caller, "issue")
  /\ UNCHANGED <<server, client, rpcs, stop, call, test, count>>

CallFails_Counts ==
  /\ \/ pc[Caller] = "issue" /\ More /\ Throws(Cur)
     \/ pc[Caller] = "await" /\ Raises(Cur)
  /\ bulks' = bulks \ {Cur}
  /\ count' = count + 1
  /\ IF IsPing THEN Advance /\ Goto(Caller, "issue")
               ELSE Goto(Caller, "aborted") /\ UNCHANGED at
  /\ UNCHANGED <<server, client, rpcs, stop, call, responses, test>>

\* The exception of a call: PingAll swallows it and goes to the next node,
\* nobody catches it in IoCalls and MetadataCalls.
CallFails ==
  /\ \/ pc[Caller] = "issue" /\ More /\ Throws(Cur)
     \/ pc[Caller] = "await" /\ Raises(Cur)
  /\ bulks' = bulks \ {Cur}
  /\ IF IsPing THEN Advance /\ Goto(Caller, "issue")
               ELSE Goto(Caller, "aborted") /\ UNCHANGED at
  /\ UNCHANGED <<server, client, rpcs, stop, call, responses, test, count>>

\* The calls are made: wait for the responses, or go on to StopAllDaemons.
\* PingAll's, IoCalls' and MetadataCalls' locals are destroyed at their end.
EndTest ==
  /\ Goto(Caller, "stopSend")
  /\ at' = [node |-> 1, rep |-> 0]
  /\ responses' = <<>>

Issued_NoWait ==
  /\ pc[Caller] = "issue"
  /\ ~More
  /\ EndTest
  /\ UNCHANGED <<server, client, rpcs, stop, call, bulks, test, count>>

Issued ==
  /\ pc[Caller] = "issue"
  /\ ~More
  /\ IF IsAsync THEN Goto(Caller, "collect") /\ UNCHANGED <<at, responses>>
                ELSE EndTest
  /\ UNCHANGED <<server, client, rpcs, stop, call, bulks, test, count>>

Collect ==
  /\ pc[Caller] = "collect"
  /\ responses # <<>>
  /\ Returns(Head(responses))
  /\ responses' = Tail(responses)
  /\ count' = IF IsPing THEN count + 1 ELSE count
  /\ UNCHANGED <<pc, server, client, rpcs, stop, call, bulks, at, test>>

Collected ==
  /\ pc[Caller] = "collect"
  /\ responses = <<>>
  /\ EndTest
  /\ UNCHANGED <<server, client, rpcs, stop, call, bulks, test, count>>

\* PingAll catches the exception of Wait outside the loop, which ends it.
CollectFails ==
  /\ pc[Caller] = "collect"
  /\ responses # <<>>
  /\ Raises(Head(responses))
  /\ IF IsPing THEN EndTest
               ELSE Goto(Caller, "aborted") /\ UNCHANGED <<at, responses>>
  /\ UNCHANGED <<server, client, rpcs, stop, call, bulks, test, count>>
-----------------------------------------------------------------------------
\* StopAllDaemons; main returns after it, and catches nothing.
StopAllDaemons ==
  /\ \/ StopSend
     \/ StopSent
     \/ StopWait("exited")
     \/ StopThrow("aborted")
  /\ UNCHANGED <<test, count>>

MainStep ==
  \/ \E p \in Procs : ServerInit(p) \/ TestRunner(p)
  \/ SyncIssue \/ SyncReturn
  \/ AsyncIssue \/ AsyncReturn
  \/ CallFails
  \/ Issued
  \/ Collect \/ Collected \/ CollectFails
  \/ StopAllDaemons

ServiceStep == RpcStep /\ UNCHANGED <<test, count>>

\* What may happen but need not: nobody promises that a broken connection is
\* noticed, nor that a Wait on a finalized engine ends, nor that a host dies.
UnfairStep ==
  /\ \/ \E c \in Calls : Disconnect(c)
     \/ \E p \in NodeIds : Crash(p)
     \/ StopCut("aborted")
  /\ UNCHANGED <<test, count>>

Next == MainStep \/ ServiceStep \/ UnfairStep

(***************************************************************************)
(* Every step moves some call, handler or main thread forward, so that a   *)
(* behavior has finitely many of them and weak fairness of the disjunction *)
(* is weak fairness of each thread: main, the progress loop, the workers.  *)
(***************************************************************************)
Fairness == WF_vars(MainStep) /\ WF_vars(ServiceStep)

Spec == Init /\ [][Next]_vars
FairSpec == Spec /\ Fairness
-----------------------------------------------------------------------------
(***************************************************************************)
(* Properties.                                                             *)
(***************************************************************************)
MainLabels == {"start", "sleep", "issue", "await", "return", "collect",
               "stopSend", "stopWait", "daemon", "exited", "aborted",
               "crashed"}

\* Type invariant: every variable of the processes has one of its values, and
\* the loop variables stay within one of their bounds.
TypeOK ==
  /\ pc \in [Procs -> MainLabels]
  /\ server \in [Procs -> {"none", "up", "closing", "down"}]
  /\ client \in [Procs -> {"none", "up", "down"}]
  /\ rpcs \in [Procs -> SUBSET RpcNames]
  /\ stop \in [Procs -> {"none", "replied", "clientDown", "returned"}]
  /\ call \in [Calls -> Status]
  /\ bulks \subseteq Calls
  /\ responses \in Seq(Calls)
  /\ at \in [node : 1 .. NumHosts + 1, rep : 0 .. Rep]
  /\ test \in TestNames
  /\ count \in Nat

\* No request meets a server that does not know its RPC, however early it
\* arrives: a server whose engine is up but whose TestRunner is not made yet
\* does not dispatch, because its main thread is asleep.
NoUnknownRpc == \A c \in Calls : call[c] # "nomatch"

\* A server engine shuts down only after the process was asked to, has said
\* so to the caller, and has answered every test call that reached it (an
\* impatient ping_async may still have calls outstanding elsewhere).
DaemonOutlivesTest ==
  \A n \in NodeIds :
    server[n] \in {"closing", "down"} =>
      /\ call[StopCall(n)] \in {"replied", "ok"}
      /\ test # "ping_async" =>
           \A c \in TestCalls :
             c.node = n => call[c] \in {"idle", "ok", "failed"}

\* The time and rate IoCalls and MetadataCalls print are computed from
\* NumHosts() * rep operations: when StopAllDaemons starts, that many calls
\* have been answered.
ReportSound ==
  (~IsPing /\ test \in KnownTests
           /\ pc[Caller] \in {"stopSend", "stopWait", "exited"}) =>
    Cardinality({c \in TestCalls : call[c] = "ok"}) = NumHosts * Rep

\* Apart from io_async, no test kills a daemon that is up: while node 1 lives,
\* IoCallServerWrite never meets memory its sender has stopped exposing.
IoKeepsDaemons ==
  test # "io_async" =>
    \A n \in NodeIds \ {Caller} :
      pc[n] = "aborted" => server[n] = "none" \/ Dead(Caller)

\* PingAll's count when it is printed: the number of nodes that answered for
\* the synchronous test, never more than that for the asynchronous one.
CountSound ==
  LET answered == {c \in TestCalls : call[c] = "ok"} IN
  /\ IsPing => count <= Cardinality(answered)
  /\ (test = "ping" /\ pc[Caller] = "stopSend") =>
        count = Cardinality(answered)

\* When node 1's main returns, every daemon has acknowledged its stop message
\* and no handler of a test call is under way on node 1: main's local
\* TestRunner is what such a handler works on.
ExitClean ==
  pc[Caller] = "exited" =>
    /\ \A n \in NodeIds : call[StopCall(n)] = "ok"
    /\ \A c \in TestCalls :
         c.node = Caller => call[c] \notin {"running", "pulled"}

\* A call's outcome is final: no loop ever repeats a call it has already made,
\* not even one that failed.
NoReissue ==
  [][\A c \in Calls :
       call[c] \in {"ok", "failed", "nomatch"} => call'[c] = call[c]]_vars

\* A daemon that has acknowledged its stop message leaves main, unless
\* client_engine_->finalize() threw.
StoppedDaemonExits ==
  \A n \in NodeIds \ {Caller} : stop[n] = "replied" ~> (Dead(n) \/ Threw(n))

\* A daemon that was up is lost: its own pull killed it, or the host died.
Lost ==
  \E n \in NodeIds : pc[n] \in {"aborted", "crashed"} /\ server[n] # "none"

\* Node 1 gets to the end of its test, to StopAllDaemons or out of main; but
\* when a daemon is lost it may wait for ever, as Wait has no time-out.
TestEnds ==
  <>(pc[Caller] \in {"stopSend", "stopWait"} \/ Dead(Caller) \/ Lost)
-----------------------------------------------------------------------------
(***************************************************************************)
(* NetBench implements DaemonGroup, whichever test it runs.                *)
(***************************************************************************)
Member(p) ==
  IF Dead(p) THEN "gone"
  ELSE IF server[p] = "none" THEN "out"
  ELSE IF server[p] = "up" THEN "in"
  ELSE "leaving"

NodeOfCall(c) == c.node

\* PingAll forgives failures, and the asynchronous one leaves calls behind;
\* without repetitions the other tests ask nobody.
Manner ==
  IF test = "ping_async" THEN "impatient"
  ELSE IF IsPing \/ test \notin KnownTests \/ Rep = 0 THEN "patient"
  ELSE "thorough"

\* A pull can end any daemon if the test stops exposing its memory early, or
\* if node 1 can die with an I/O call under way.
Losable ==
  IF IsIo /\ (IsAsync \/ Caller \in CrashHosts) THEN NodeIds
  ELSE FatalHosts \cup CrashHosts \cup {Caller}

Group == INSTANCE DaemonGroup WITH
  Node <- NodeIds,
  TestCall <- TestCalls,
  NodeOf <- NodeOfCall,
  manner <- Manner,
  mayVanish <- Losable,
  member <- [n \in NodeIds |-> Member(n)],
  asked <- {c \in TestCalls : call[c] # "idle"},
  busy <- {c \in TestCalls : call[c] \in {"running", "pulled"}},
  served <- {c \in TestCalls : call[c] \in {"replied", "ok"}},
  settled <- {c \in TestCalls : call[c] \in {"ok", "failed", "nomatch"}},
  told <- {n \in NodeIds : call[StopCall(n)] # "idle"}

\* The servers of a benchmark are a DaemonGroup: they answer, are told to
\* stop when the test is over, and leave only then.
ImplementsDaemonGroup == Group!GroupSpec
-----------------------------------------------------------------------------
(***************************************************************************)
(* What the repository says and the code does not do.                      *)
(***************************************************************************)

\* "Stop all daemons": when node 1 is done, every daemon was sent its stop
\* message.
StopsAll ==
  Dead(Caller) => \A n \in NodeIds : call[StopCall(n)] # "idle"

\* "Sender writes to data_, Receiver reads from data_": while a request with
\* data is being served, its sender's memory is exposed.
ReceiverReads ==
  \A c \in Calls :
    (c.rpc = "RpcTaskSubmit" /\ call[c] = "running" /\ IoSize > 0) =>
      c \in bulks
=============================================================================
