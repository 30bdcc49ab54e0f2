---------------------------- MODULE ThalliumRpc ----------------------------
(***************************************************************************)
(* The RPC layer of rpc_thallium.h (class ThalliumRpc) as it is used by    *)
(* the test programs: one process issues calls to the servers of its host  *)
(* table, the servers' progress loops and worker threads answer them, and  *)
(* StopAllDaemons tells every server to finalize its engines.              *)
(*                                                                         *)
(* A call is never retried and never issued twice, so one status per call  *)
(* stands for the request, its handler, the response and what the caller   *)
(* sees of it:                                                             *)
(*   "idle"    not issued                                                  *)
(*   "queued"  the request is at the server, not yet dispatched            *)
(*   "running" its handler is in the server's RPC pool or executing        *)
(*   "pulled"  RpcTaskSubmit only: IoCallServerWrite has returned          *)
(*   "replied" req.respond(0) is done, the response is on its way          *)
(*   "ok"      the caller's engine has received the response               *)
(*   "failed"  the caller's engine has an error for it (margo_exception)   *)
(*   "nomatch" the server had no RPC of that name                          *)
(* An operator F_Variant next to an operator F is a plausible defect of F: *)
(* the properties are shown to notice it.  No specification uses one.      *)
EXTENDS Naturals, Sequences

CONSTANTS
  NumHosts,    \* NumHosts() of the host table; node ids are 1..NumHosts
  Caller,      \* the process that runs the test and calls StopAllDaemons
  Rep,         \* rep_: calls made to every node by the I/O and metadata tests
  NumThreads,  \* num_threads_: xstreams that serve the RPC pool
  IoSize,      \* io_size_: bytes of data of one RpcTaskSubmit
  FatalHosts,  \* hosts whose start-up may end in HELOG(kFatal)
  ThrowHosts,  \* hosts where client_engine_->finalize() may throw
  CrashHosts   \* hosts whose process may die at any moment

ASSUME RpcAssumption ==
  /\ NumHosts \in Nat \ {0}
  /\ Caller \in 0 .. NumHosts
  /\ Rep \in Nat
  /\ NumThreads \in Nat
  /\ IoSize \in Nat
  /\ FatalHosts \subseteq 1 .. NumHosts
  /\ ThrowHosts \subseteq 1 .. NumHosts
  /\ CrashHosts \subseteq 1 .. NumHosts

NodeIds == 1 .. NumHosts
Procs == NodeIds \cup {Caller}

RpcNames == {"RpcPing", "RpcTaskSubmit", "RpcStopDaemon"}
Calls == [rpc : RpcNames, node : NodeIds, rep : 0 .. Rep]
StopCall(n) == [rpc |-> "RpcStopDaemon", node |-> n, rep |-> 0]

VARIABLES
  pc,        \* pc[p]: where the main thread of process p is
  server,    \* server[p]: server_engine_ of p
  client,    \* client[p]: client_engine_ of p
  rpcs,      \* rpcs[p]: the RPC names p has registered
  stop,      \* stop[p]: how far p's RpcStopDaemon handler is after its reply
  call,      \* call[c]: the status of call c
  bulks,     \* calls whose client-side tl::bulk handle is alive
  responses, \* the caller's vector of async_response, oldest first
  at         \* the caller's loop variables: node_id and i

rpcVars == <<pc, server, client, rpcs, stop, call, bulks, responses, at>>

Status == {"idle", "queued", "running", "pulled", "replied", "ok", "failed",
           "nomatch"}

\* A process that has left main, called exit or been terminated.
Dead(p) == pc[p] \in {"exited", "aborted", "crashed"}

(***************************************************************************)
(* server_engine_ is made without a progress thread, so its network        *)
(* progress runs on the main thread, in the calls of main that block in    *)
(* the engine: not in start-up (labels "start", "init", "mark") or in      *)
(* sleep_for.                                                              *)
(***************************************************************************)
Progresses_OwnThread(p) == pc[p] # "start" /\ ~Dead(p)
Progresses_DaemonOnly(p) == pc[p] = "daemon"
Progresses(p) ==
  pc[p] \notin {"start", "init", "mark", "sleep", "exited", "aborted", "crashed"}

\* The server of node n accepts requests (whoever dispatches them, and when).
Reachable(n) == ~Dead(n) /\ server[n] \in {"up", "closing"}

\* A handler of p can run: some xstream serves the pool and p is alive.
Works(p) == NumThreads > 0 /\ ~Dead(p)

RpcInit ==
  /\ pc = [p \in Procs |-> "start"]
  /\ server = [p \in Procs |-> "none"]
  /\ client = [p \in Procs |-> "none"]
  /\ rpcs = [p \in Procs |-> {}]
  /\ stop = [p \in Procs |-> "none"]
  /\ call = [c \in Calls |-> "idle"]
  /\ bulks = {}
  /\ responses = <<>>
  /\ at = [node |-> 1, rep |-> 0]
-----------------------------------------------------------------------------
(***************************************************************************)
(* The server side.                                                        *)
(***************************************************************************)

\* Progress loop: hand the request to the handler registered for its name.
Dispatch(c) ==
  /\ call[c] = "queued"
  /\ Progresses(c.node)
  /\ server[c.node] = "up"
  /\ call' = [call EXCEPT ![c] = IF c.rpc \in rpcs[c.node] THEN "running"
                                                           ELSE "nomatch"]
  /\ UNCHANGED <<pc, server, client, rpcs, stop, bulks, responses, at>>

\* RpcPing: respond.
RpcPing(c) ==
  /\ c.rpc = "RpcPing"
  /\ call[c] = "running"
  /\ Works(c.node)
  /\ call' = [call EXCEPT ![c] = "replied"]
  /\ UNCHANGED <<pc, server, client, rpcs, stop, bulks, responses, at>>

(***************************************************************************)
(* RpcTaskSubmit up to its response: allocate the buffers and pull the     *)
(* caller's memory.  Without data nothing is pulled.  A pull from memory   *)
(* whose bulk handle is freed, or whose owner is gone, is undefined: it    *)
(* may deliver the bytes, or fail and end the server in HELOG(kFatal).     *)
(***************************************************************************)
IoCallServerWrite(c) ==
  /\ c.rpc = "RpcTaskSubmit"
  /\ call[c] = "running"
  /\ Works(c.node)
  /\ \/ /\ call' = [call EXCEPT ![c] = "pulled"]
        /\ UNCHANGED pc
     \/ /\ IoSize > 0
        /\ c \notin bulks \/ Dead(Caller)
        /\ pc' = [pc EXCEPT ![c.node] = "aborted"]
        /\ UNCHANGED call
  /\ UNCHANGED <<server, client, rpcs, stop, bulks, responses, at>>

\* RpcTaskSubmit: respond.
RpcTaskSubmit(c) ==
  /\ c.rpc = "RpcTaskSubmit"
  /\ call[c] = "pulled"
  /\ Works(c.node)
  /\ call' = [call EXCEPT ![c] = "replied"]
  /\ UNCHANGED <<pc, server, client, rpcs, stop, bulks, responses, at>>

RpcStopDaemon_StopFirst(c) ==
  /\ c.rpc = "RpcStopDaemon"
  /\ call[c] = "running"
  /\ Works(c.node)
  /\ stop' = [stop EXCEPT ![c.node] = "replied"]
  /\ UNCHANGED <<pc, server, client, rpcs, call, bulks, responses, at>>

\* RpcStopDaemon: respond first, then go on to StopThisDaemon.
RpcStopDaemon(c) ==
  /\ c.rpc = "RpcStopDaemon"
  /\ call[c] = "running"
  /\ Works(c.node)
  /\ call' = [call EXCEPT ![c] = "replied"]
  /\ stop' = [stop EXCEPT ![c.node] = "replied"]
  /\ UNCHANGED <<pc, server, client, rpcs, bulks, responses, at>>

\* The handler of p caught an exception of client_engine_->finalize().
Threw(p) == stop[p] = "returned" /\ client[p] = "up"

\* StopThisDaemon, client_engine_->finalize(): if it throws, the handler
\* catches it and returns without finalizing the server engine.
FinalizeClient(p) ==
  /\ stop[p] = "replied"
  /\ Works(p)
  /\ \/ /\ client' = [client EXCEPT ![p] = "down"]
        /\ stop' = [stop EXCEPT ![p] = "clientDown"]
     \/ /\ p \in ThrowHosts
        /\ stop' = [stop EXCEPT ![p] = "returned"]
        /\ UNCHANGED client
  /\ UNCHANGED <<pc, server, rpcs, call, bulks, responses, at>>

FinalizeServer_Dropped(p) ==
  /\ stop[p] = "clientDown"
  /\ Works(p)
  /\ stop' = [stop EXCEPT ![p] = "returned"]
  /\ UNCHANGED <<pc, server, client, rpcs, call, bulks, responses, at>>

\* StopThisDaemon, server_engine_->finalize(): called from a handler of that
\* engine it only asks for it; the handler returns.
FinalizeServer(p) ==
  /\ stop[p] = "clientDown"
  /\ Works(p)
  /\ server' = [server EXCEPT ![p] = "closing"]
  /\ stop' = [stop EXCEPT ![p] = "returned"]
  /\ UNCHANGED <<pc, client, rpcs, call, bulks, responses, at>>

\* The engine goes down once the handlers it dispatched have returned.
CloseServer(p) ==
  /\ server[p] = "closing"
  /\ Progresses(p)
  /\ \A c \in Calls : c.node = p => call[c] \notin {"running", "pulled"}
  /\ server' = [server EXCEPT ![p] = "down"]
  /\ UNCHANGED <<pc, client, rpcs, stop, call, bulks, responses, at>>

\* RunDaemon: wait_for_finalize returns, and main with it.
RunDaemon(p) ==
  /\ pc[p] = "daemon"
  /\ server[p] = "down"
  /\ pc' = [pc EXCEPT ![p] = "exited"]
  /\ UNCHANGED <<server, client, rpcs, stop, call, bulks, responses, at>>

\* The process dies, whatever it is doing: what the callers' handlers of
\* margo_exception are there for.
Crash(p) ==
  /\ p \in CrashHosts
  /\ ~Dead(p)
  /\ pc' = [pc EXCEPT ![p] = "crashed"]
  /\ UNCHANGED <<server, client, rpcs, stop, call, bulks, responses, at>>
-----------------------------------------------------------------------------
(***************************************************************************)
(* The caller's side.                                                      *)
(***************************************************************************)

\* The client engine's progress thread receives a response.
Receive(c) ==
  /\ call[c] = "replied"
  /\ client[Caller] = "up"
  /\ ~Dead(Caller)
  /\ call' = [call EXCEPT ![c] = "ok"]
  /\ UNCHANGED <<pc, server, client, rpcs, stop, bulks, responses, at>>

\* The transport notices that the server of an unanswered call is gone.
Disconnect(c) ==
  /\ call[c] \in {"queued", "running", "pulled"}
  /\ ~Reachable(c.node)
  /\ client[Caller] = "up"
  /\ ~Dead(Caller)
  /\ call' = [call EXCEPT ![c] = "failed"]
  /\ UNCHANGED <<pc, server, client, rpcs, stop, bulks, responses, at>>

\* Call: the request leaves if both engines can carry it.
Sends(c) ==
  /\ client[Caller] = "up"
  /\ Reachable(c.node)
  /\ call' = [call EXCEPT ![c] = "queued"]

\* AsyncCall to a server that is not there: the error may come with the call
\* (Throws) or only to the one who waits for the response.
FailsLater(c) ==
  /\ client[Caller] = "up"
  /\ ~Reachable(c.node)
  /\ call' = [call EXCEPT ![c] = "failed"]

\* The call itself throws: no engine to send with or no server to send to.
Throws(c) == client[Caller] # "up" \/ ~Reachable(c.node)

\* Wait has a value, or an error, to give.
Returns(c) == call[c] = "ok"
Raises(c) == call[c] \in {"failed", "nomatch"}

\* Nothing will ever complete c: its engine was finalized before the answer.
Cut(c) == client[Caller] = "down" /\ ~Returns(c) /\ ~Raises(c)
-----------------------------------------------------------------------------
(***************************************************************************)
(* StopAllDaemons: an AsyncCall to every node, then a Wait for each.  The  *)
(* argument last_node is not used: node 1 comes first even if it is the    *)
(* caller itself.                                                          *)
(***************************************************************************)
StopSend ==
  /\ pc[Caller] = "stopSend"
  /\ at.node <= NumHosts
  /\ LET c == StopCall(at.node) IN
       /\ Sends(c) \/ FailsLater(c)
       /\ responses' = Append(responses, c)
  /\ at' = [at EXCEPT !.node = @ + 1]
  /\ UNCHANGED <<pc, server, client, rpcs, stop, bulks>>

StopSent ==
  /\ pc[Caller] = "stopSend"
  /\ at.node > NumHosts
  /\ pc' = [pc EXCEPT ![Caller] = "stopWait"]
  /\ UNCHANGED <<server, client, rpcs, stop, call, bulks, responses, at>>

StopWait_First(done) ==
  /\ pc[Caller] = "stopWait"
  /\ responses # <<>>
  /\ Returns(Head(responses))
  /\ pc' = [pc EXCEPT ![Caller] = done]
  /\ UNCHANGED <<server, client, rpcs, stop, call, bulks, responses, at>>

StopWait(done) ==
  /\ pc[Caller] = "stopWait"
  /\ \/ /\ responses # <<>>
        /\ Returns(Head(responses))
        /\ responses' = Tail(responses)
        /\ UNCHANGED pc
     \/ /\ responses = <<>>
        /\ pc' = [pc EXCEPT ![Caller] = done]
        /\ UNCHANGED responses
  /\ UNCHANGED <<server, client, rpcs, stop, call, bulks, at>>

\* An exception leaves StopAllDaemons; onThrow is where that takes main.
StopThrow(onThrow) ==
  /\ \/ /\ pc[Caller] = "stopSend"
        /\ at.node <= NumHosts
        /\ Throws(StopCall(at.node))
     \/ /\ pc[Caller] = "stopWait"
        /\ responses # <<>>
        /\ Raises(Head(responses))
  /\ pc' = [pc EXCEPT ![Caller] = onThrow]
  /\ UNCHANGED <<server, client, rpcs, stop, call, bulks, responses, at>>

\* Wait on a response whose engine is finalized: it may throw, or block for
\* ever, so no fairness is ever assumed of this step.
StopCut(onThrow) ==
  /\ pc[Caller] = "stopWait"
  /\ responses # <<>>
  /\ Cut(Head(responses))
  /\ pc' = [pc EXCEPT ![Caller] = onThrow]
  /\ UNCHANGED <<server, client, rpcs, stop, call, bulks, responses, at>>
-----------------------------------------------------------------------------
\* Every step of the RPC layer that main does not take.
RpcStep ==
  \/ \E c \in Calls : \/ Dispatch(c)
                      \/ RpcPing(c)
                      \/ IoCallServerWrite(c)
                      \/ RpcTaskSubmit(c)
                      \/ RpcStopDaemon(c)
                      \/ Receive(c)
  \/ \E p \in NodeIds : \/ FinalizeClient(p)
                        \/ FinalizeServer(p)
                        \/ CloseServer(p)
                        \/ RunDaemon(p)
=============================================================================
