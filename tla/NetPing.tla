------------------------------ MODULE NetPing -------------------------------
(***************************************************************************)
(* chi_net_ping.cc: on every host of the table a process in mode "server", *)
(* on node 1 later a separate process, the caller 0, in mode "client".     *)
(* They share a marker, the shared-memory object nettest_<port> of their   *)
(* host: the server creates it once it is up, the client of that host      *)
(* takes it as the sign that a server was started.  A "touchserver"        *)
(* process does what a server does up to the marker, and leaves: while it  *)
(* is there its engine listens, but nothing makes progress on it.          *)
(*                                                                         *)
(* Values of pc[n] for a server: "start", "init" (old marker destroyed),   *)
(* "mark" (engines up, marker not made), "daemon", "exited", "aborted",    *)
(* "crashed" (has died);                                                   *)
(* of pc[Caller]: "start", "issue", "await", "stopSend", "stopWait",       *)
(* "destroy", "exited" (exit(0)), "aborted" (HELOG(kFatal) or exit(1)).    *)
(* touch[n] is like a server's up to "mark"; then "made" (marker made).    *)
(***************************************************************************)
EXTENDS ThalliumRpc, FiniteSets

CONSTANT
  TouchHosts   \* hosts on which a touchserver is run, at any time

ASSUME PingAssumption ==
  /\ Caller = 0
  /\ TouchHosts \subseteq 1 .. NumHosts

VARIABLES
  marker,  \* the hosts whose nettest_<port> exists
  touch    \* touch[n]: the touchserver of host n

vars == <<rpcVars, marker, touch>>

TouchLabels == {"start", "init", "mark", "made", "exited", "aborted"}

\* "held": the request is at a touchserver, whose engine dispatches nothing.
PingStatus == Status \cup {"held"}

Ping(n) == [rpc |-> "RpcPing", node |-> n, rep |-> 0]
Cur == Ping(at.node)
More == at.node <= NumHosts

Goto(p, label) == pc' = [pc EXCEPT ![p] = label]

\* The port of host n is taken by its server, or by its touchserver.
ServerBound(n) == ~Dead(n) /\ server[n] \in {"up", "closing"}
TouchBound(n) == n \in TouchHosts /\ touch[n] \in {"mark", "made"}

\* Call to a host whose port the touchserver holds: the request leaves, and
\* waits there.
SendsToTouch(c) ==
  /\ client[Caller] = "up"
  /\ TouchBound(c.node)
  /\ call' = [call EXCEPT ![c] = "held"]

\* Nobody takes the call.
Refused(c) == Throws(c) /\ ~TouchBound(c.node)

\* A run before this one may have left its marker on any host.
Init ==
  /\ RpcInit
  /\ marker \in SUBSET NodeIds
  /\ touch = [n \in TouchHosts |-> "start"]
-----------------------------------------------------------------------------
(***************************************************************************)
(* Mode "server".                                                          *)
(***************************************************************************)

\* RpcContext::ServerInit, then DestroySharedMemory of what an earlier run
\* may have left.
ServerDestroy(n) ==
  /\ pc[n] = "start"
  /\ \/ /\ n \in FatalHosts
        /\ Goto(n, "aborted")
        /\ UNCHANGED marker
     \/ /\ marker' = marker \ {n}
        /\ Goto(n, "init")
  /\ UNCHANGED <<server, client, rpcs, stop, call, bulks, responses, at,
                 touch>>

\* ThalliumRpc::ServerInit and TestRunner::ServerInit: kFatal if the port is
\* taken, or if there is no engine to be had.
ServerInit(n) ==
  /\ pc[n] = "init"
  /\ \/ /\ TouchBound(n) \/ n \in FatalHosts
        /\ Goto(n, "aborted")
        /\ UNCHANGED <<server, client, rpcs>>
     \/ /\ ~TouchBound(n)
        /\ server' = [server EXCEPT ![n] = "up"]
        /\ client' = [client EXCEPT ![n] = "up"]
        /\ rpcs' = [rpcs EXCEPT ![n] = {"RpcStopDaemon", "RpcPing"}]
        /\ Goto(n, "mark")
  /\ UNCHANGED <<stop, call, bulks, responses, at, marker, touch>>

\* CreateNewSharedMemory, then RunDaemon.
ServerMark(n) ==
  /\ pc[n] = "mark"
  /\ marker' = marker \cup {n}
  /\ Goto(n, "daemon")
  /\ UNCHANGED <<server, client, rpcs, stop, call, bulks, responses, at,
                 touch>>
-----------------------------------------------------------------------------
(***************************************************************************)
(* Mode "touchserver": the same three steps; then main returns, its port   *)
(* with it, and the marker stays.                                          *)
(***************************************************************************)
TouchFails(n) ==
  /\ \/ touch[n] \in {"start", "init"} /\ n \in FatalHosts
     \/ touch[n] = "init" /\ ServerBound(n)
  /\ touch' = [touch EXCEPT ![n] = "aborted"]
  /\ UNCHANGED <<rpcVars, marker>>

TouchDestroy(n) ==
  /\ touch[n] = "start"
  /\ marker' = marker \ {n}
  /\ touch' = [touch EXCEPT ![n] = "init"]
  /\ UNCHANGED rpcVars

TouchInit(n) ==
  /\ touch[n] = "init"
  /\ ~ServerBound(n)
  /\ touch' = [touch EXCEPT ![n] = "mark"]
  /\ UNCHANGED <<rpcVars, marker>>

TouchMark(n) ==
  /\ touch[n] = "mark"
  /\ marker' = marker \cup {n}
  /\ touch' = [touch EXCEPT ![n] = "made"]
  /\ UNCHANGED rpcVars

TouchExit(n) ==
  /\ touch[n] = "made"
  /\ touch' = [touch EXCEPT ![n] = "exited"]
  /\ UNCHANGED <<rpcVars, marker>>

TouchStep(n) ==
  \/ TouchFails(n) \/ TouchDestroy(n) \/ TouchInit(n) \/ TouchMark(n)
  \/ TouchExit(n)

\* The transport notices that the touchserver that holds a call is gone.
TouchDisconnect(c) ==
  /\ call[c] = "held"
  /\ ~TouchBound(c.node)
  /\ client[Caller] = "up"
  /\ ~Dead(Caller)
  /\ call' = [call EXCEPT ![c] = "failed"]
  /\ UNCHANGED <<pc, server, client, rpcs, stop, bulks, responses, at>>
-----------------------------------------------------------------------------
(***************************************************************************)
(* Mode "client" on node 1.                                                *)
(***************************************************************************)

\* OpenSharedMemory: without a marker kFatal, else ClientInit and PingAll.
ClientInit ==
  /\ pc[Caller] = "start"
  /\ \/ /\ 1 \notin marker
        /\ Goto(Caller, "aborted")
        /\ UNCHANGED client
     \/ /\ 1 \in marker
        /\ client' = [client EXCEPT ![Caller] = "up"]
        /\ Goto(Caller, "issue")
  /\ UNCHANGED <<server, rpcs, stop, call, bulks, responses, at, marker,
                 touch>>

PingIssue ==
  /\ pc[Caller] = "issue"
  /\ More
  /\ Sends(Cur) \/ SendsToTouch(Cur)
  /\ Goto(Caller, "await")
  /\ UNCHANGED <<server, client, rpcs, stop, bulks, responses, at, marker,
                 touch>>

PingReturn ==
  /\ pc[Caller] = "await"
  /\ Returns(Cur)
  /\ at' = [at EXCEPT !.node = @ + 1]
  /\ Goto(Caller, "issue")
  /\ UNCHANGED <<server, client, rpcs, stop, call, bulks, responses, marker,
                 touch>>

PingFails_Ignored ==
  /\ \/ pc[Caller] = "issue" /\ More /\ Refused(Cur)
     \/ pc[Caller] = "await" /\ Raises(Cur)
  /\ at' = [at EXCEPT !.node = @ + 1]
  /\ Goto(Caller, "issue")
  /\ UNCHANGED <<server, client, rpcs, stop, call, bulks, responses, marker,
                 touch>>

\* Any exception of a ping is HELOG(kFatal).
PingFails ==
  /\ \/ pc[Caller] = "issue" /\ More /\ Refused(Cur)
     \/ pc[Caller] = "await" /\ Raises(Cur)
  /\ Goto(Caller, "aborted")
  /\ UNCHANGED <<server, client, rpcs, stop, call, bulks, responses, at,
                 marker, touch>>

PingDone_FromZero ==
  /\ pc[Caller] = "issue"
  /\ ~More
  /\ at' = [node |-> 0, rep |-> 0]
  /\ Goto(Caller, "stopSend")
  /\ UNCHANGED <<server, client, rpcs, stop, call, bulks, responses, marker,
                 touch>>

PingDone_Unmarks ==
  /\ pc[Caller] = "issue"
  /\ ~More
  /\ at' = [node |-> 1, rep |-> 0]
  /\ marker' = marker \ {1}
  /\ Goto(Caller, "stopSend")
  /\ UNCHANGED <<server, client, rpcs, stop, call, bulks, responses, touch>>

\* Every node has answered: on to StopAllDaemons.
PingDone ==
  /\ pc[Caller] = "issue"
  /\ ~More
  /\ at' = [node |-> 1, rep |-> 0]
  /\ Goto(Caller, "stopSend")
  /\ UNCHANGED <<server, client, rpcs, stop, call, bulks, responses, marker,
                 touch>>

\* The stop message goes to the touchserver that has the port of a server
\* that crashed.
StopSendToTouch ==
  /\ pc[Caller] = "stopSend"
  /\ More
  /\ SendsToTouch(StopCall(at.node))
  /\ responses' = Append(responses, StopCall(at.node))
  /\ at' = [at EXCEPT !.node = @ + 1]
  /\ UNCHANGED <<pc, server, client, rpcs, stop, bulks>>

\* The next stop message is one that a touchserver will take.
StopsTouch == pc[Caller] = "stopSend" /\ TouchBound(at.node)

\* StopAllDaemons; if it throws, exit(0) at once.
StopAllDaemons ==
  /\ \/ ~StopsTouch /\ StopSend
     \/ StopSendToTouch
     \/ StopSent
     \/ StopWait("destroy")
     \/ ~StopsTouch /\ StopThrow("exited")
  /\ UNCHANGED <<marker, touch>>

\* "Test complete": DestroySharedMemory, exit(0).
ClientDestroy ==
  /\ pc[Caller] = "destroy"
  /\ marker' = marker \ {1}
  /\ Goto(Caller, "exited")
  /\ UNCHANGED <<server, client, rpcs, stop, call, bulks, responses, at,
                 touch>>
-----------------------------------------------------------------------------
MainStep ==
  \/ \E n \in NodeIds : ServerDestroy(n) \/ ServerInit(n) \/ ServerMark(n)
  \/ \E n \in TouchHosts : TouchStep(n)
  \/ ClientInit
  \/ PingIssue \/ PingReturn \/ PingFails \/ PingDone
  \/ StopAllDaemons
  \/ ClientDestroy

\* No handler of this program moves data, and only servers run handlers.
ServiceStep ==
  /\ \/ \E c \in Calls : \/ Dispatch(c) \/ RpcPing(c) \/ RpcStopDaemon(c)
                         \/ Receive(c)
     \/ \E n \in NodeIds : \/ FinalizeClient(n) \/ FinalizeServer(n)
                           \/ CloseServer(n) \/ RunDaemon(n)
  /\ UNCHANGED <<marker, touch>>

UnfairStep ==
  /\ \/ \E c \in Calls : Disconnect(c) \/ TouchDisconnect(c)
     \/ \E n \in NodeIds : Crash(n)
  /\ UNCHANGED <<marker, touch>>

Next == MainStep \/ ServiceStep \/ UnfairStep

Fairness == WF_vars(MainStep) /\ WF_vars(ServiceStep)

Spec == Init /\ [][Next]_vars
FairSpec == Spec /\ Fairness
-----------------------------------------------------------------------------
\* Type invariant of the processes, the marker and the calls.
TypeOK ==
  /\ pc \in [Procs -> {"start", "init", "mark", "daemon", "issue", "await",
                       "stopSend", "stopWait", "destroy", "exited",
                       "aborted", "crashed"}]
  /\ server \in [Procs -> {"none", "up", "closing", "down"}]
  /\ client \in [Procs -> {"none", "up", "down"}]
  /\ rpcs \in [Procs -> SUBSET RpcNames]
  /\ stop \in [Procs -> {"none", "replied", "clientDown", "returned"}]
  /\ call \in [Calls -> PingStatus]
  /\ bulks = {}
  /\ responses \in Seq(Calls)
  /\ at \in [node : 1 .. NumHosts + 1, rep : {0}]
  /\ marker \subseteq NodeIds
  /\ touch \in [TouchHosts -> TouchLabels]

CrashedUpTo(n) == \E m \in 1 .. n : pc[m] = "crashed"
Crashed == CrashedUpTo(NumHosts)

\* Exit status 0 of the client: every node has answered its ping; a daemon
\* that was not even told to stop has crashed, or comes after one that has;
\* and all have acknowledged, unless some daemon crashed.
ExitZeroSound ==
  pc[Caller] = "exited" =>
    /\ \A n \in NodeIds : call[Ping(n)] = "ok"
    /\ \A n \in NodeIds : call[StopCall(n)] = "idle" => CrashedUpTo(n)
    /\ \/ \A n \in NodeIds : call[StopCall(n)] = "ok"
       \/ Crashed

\* On a host without a touchserver, a server's marker is there for as long as
\* the server is to be found: nobody destroys it before its daemon was stopped.
MarkerShowsServer ==
  \A n \in NodeIds \ TouchHosts :
    (pc[n] = "daemon" /\ stop[n] = "none") => n \in marker

\* Once the client has exited with every stop message acknowledged, no daemon
\* stays behind.
DaemonsLeave ==
  (pc[Caller] = "exited" /\ \A n \in NodeIds : call[StopCall(n)] = "ok") ~>
    (\A n \in NodeIds : Dead(n) \/ Threw(n))

\* The client always ends, whether the servers are there or not; but as Wait
\* has no time-out it may wait for ever for a server that crashed, and for a
\* touchserver, which takes a call and answers none.
Held == \E c \in Calls : call[c] = "held"
ClientEnds == <>[](Dead(Caller) \/ Crashed \/ Held)
-----------------------------------------------------------------------------
(***************************************************************************)
(* NetPing implements DaemonGroup, with a thorough caller.                 *)
(***************************************************************************)
Member(n) ==
  IF Dead(n) THEN "gone"
  ELSE IF server[n] = "none" THEN "out"
  ELSE IF server[n] = "up" THEN "in"
  ELSE "leaving"

Pings == {Ping(n) : n \in NodeIds}
NodeOfPing(c) == c.node

Group == INSTANCE DaemonGroup WITH
  Node <- NodeIds,
  TestCall <- Pings,
  NodeOf <- NodeOfPing,
  manner <- "thorough",
  mayVanish <- FatalHosts \cup CrashHosts \cup TouchHosts,
  member <- [n \in NodeIds |-> Member(n)],
  asked <- {c \in Pings : call[c] # "idle"},
  busy <- {c \in Pings : call[c] = "running"},
  served <- {c \in Pings : call[c] \in {"replied", "ok"}},
  settled <- {c \in Pings : call[c] \in {"ok", "failed", "nomatch", "held"}},
  told <- {n \in NodeIds : call[StopCall(n)] # "idle"}

\* The servers chi_net_ping tests are a DaemonGroup: the client tells them to
\* stop only when every one of them has answered its ping (a failed ping ends
\* the client before StopAllDaemons), and only then do they leave.
ImplementsDaemonGroup == Group!GroupSpec
-----------------------------------------------------------------------------
\* "Server must not be started because shared memory is not created": a
\* server that is started, and not being stopped, has its marker.
NoMarkerNoServer ==
  \A n \in NodeIds :
    (pc[n] = "daemon" /\ stop[n] = "none") => n \in marker
=============================================================================
