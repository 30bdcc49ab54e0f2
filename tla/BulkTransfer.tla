---------------------------- MODULE BulkTransfer ----------------------------
(***************************************************************************)
(* The data of an I/O call: SegmentedTransfer (serialize_defn.h), IoCall   *)
(* and IoCallServerWrite (rpc_thallium.h), and the handler RpcTaskSubmit   *)
(* and IoCalls of chi_net_bench.cc at their two ends.  One sender, node 1, *)
(* makes the requests; each node, node 1 included, has a daemon that       *)
(* serves several at a time (a handler that waits in a pull yields its     *)
(* stream).                                                                *)
(*                                                                         *)
(* Values of req[r]:                                                       *)
(*   "idle"     not made                                                   *)
(*   "queued"   sent, not yet received                                     *)
(*   "alloc"    received, AllocateBulksServer is at work or done           *)
(*   "bulk"     IoCallServerWrite has made its local_wbulk                 *)
(*   "pulled"   IoCallServerWrite has returned                             *)
(*   "replied"  the handler has responded                                  *)
(*   "ok", "failed"  the sender has the response, or an error              *)
(* A buffer of a server is "wild" (data_ is whatever the deserialized      *)
(* object holds), "null" (malloc failed), "junk" (allocated) or "data"     *)
(* (the bytes of the sender's segment).                                    *)
(***************************************************************************)
EXTENDS Naturals, Sequences, FiniteSets, FiniteSetsExt

CONSTANTS
  NumHosts,
  Rep,      \* requests to each node
  Xfers,    \* the bulk_ vectors to consider
  Memory    \* bytes that malloc can hand out on each node

DT_EXPOSE == {0}
DT_WRITE_Bare == {1}
DT_WRITE == {1} \cup DT_EXPOSE
DT_FREE_DATA == {2}

\* The flags a segment can be given: unions of the macros.
Flags == {UNION M : M \in SUBSET {DT_EXPOSE, DT_WRITE, DT_FREE_DATA}}

DataTransfer == [flags_ : Flags, data_size_ : Nat]

Node == 1 .. NumHosts
Sender == 1
Req == [node : Node, rep : 1 .. Rep]
NoReq == [node |-> 0, rep |-> 0]

ASSUME BulkAssumption ==
  /\ NumHosts \in Nat \ {0}
  /\ Rep \in Nat \ {0}
  /\ Xfers \subseteq Seq(DataTransfer)
  /\ Memory \in Nat

VARIABLES
  xfer,     \* bulk_ of IoCalls: the same vector in every request
  io_flag,  \* the flag the test gives IoCall
  async,    \* the ASYNC argument of IoCall
  frame,    \* the request whose IoCall has not returned, or NoReq
  req,      \* req[r]: the status of request r
  buf,      \* buf[r]: the server's data_ for each segment, once received
  used,     \* used[n]: bytes that were malloc'ed on n; nothing is freed
  dead      \* the nodes whose process has ended

args == <<xfer, io_flag, async>>
vars == <<args, frame, req, buf, used, dead>>

\* The bytes of some segments of a vector, each by segment and offset.
Bytes(x, segments) == UNION {{k} \X (1 .. x[k].data_size_) : k \in segments}

\* MakeBulk: the segments it exposes for a flag, and size_bytes.
Selected(x, chi_flag) == {k \in DOMAIN x : x[k].flags_ \cap chi_flag # {}}
Planned(x, chi_flag) == Cardinality(Bytes(x, Selected(x, chi_flag)))

\* SegmentedTransfer::size.
size(x) == Cardinality(Bytes(x, DOMAIN x))

Alive(n) == n \notin dead

Init ==
  /\ xfer \in Xfers
  /\ io_flag \in {DT_EXPOSE, DT_WRITE}
  /\ async \in BOOLEAN
  /\ frame = NoReq
  /\ req = [r \in Req |-> "idle"]
  /\ buf = [r \in Req |-> <<>>]
  /\ used = [n \in Node |-> 0]
  /\ dead = {}
-----------------------------------------------------------------------------
(***************************************************************************)
(* The sender.                                                             *)
(***************************************************************************)
Open == {r \in Req : req[r] \notin {"idle", "ok", "failed"}}

\* The order of IoCalls' two loops.
Before(q, r) == q.node < r.node \/ (q.node = r.node /\ q.rep < r.rep)

\* IoCall: expose the selected segments, forward the request.  To a node that
\* is gone it throws, or the error waits in the response.
IoCall(r) ==
  /\ Alive(Sender)
  /\ frame = NoReq
  /\ req[r] = "idle"
  /\ \A q \in Req : Before(q, r) => req[q] # "idle"
  /\ frame' = r
  /\ req' = [req EXCEPT ![r] = IF Alive(r.node) THEN "queued" ELSE "failed"]
  /\ UNCHANGED <<args, buf, used, dead>>

\* The tl::bulk of IoCall is a local: it is alive while the call is.
Exposed(r) == frame = r /\ Alive(Sender) /\ Planned(xfer, io_flag) > 0

IoReturn_Early ==
  /\ Alive(Sender)
  /\ frame # NoReq
  /\ frame' = NoReq
  /\ UNCHANGED <<args, req, buf, used, dead>>

\* IoCall returns: the synchronous one with the response, the asynchronous
\* one at once.
IoReturn ==
  /\ Alive(Sender)
  /\ frame # NoReq
  /\ async \/ req[frame] = "ok"
  /\ frame' = NoReq
  /\ UNCHANGED <<args, req, buf, used, dead>>

\* The exception of an I/O call, or of the Wait for its response in the loop
\* that comes after the calls: IoCalls does not catch it.
IoThrow(r) ==
  /\ Alive(Sender)
  /\ req[r] = "failed"
  /\ \/ frame = r
     \/ /\ frame = NoReq
        /\ \A q \in Req : /\ req[q] # "idle"
                          /\ Before(q, r) => req[q] = "ok"
  /\ dead' = dead \cup {Sender}
  /\ UNCHANGED <<args, frame, req, buf, used>>

\* The client engine gets the response, or notices that the server is gone.
Receive(r) ==
  /\ Alive(Sender)
  /\ req[r] = "replied"
  /\ req' = [req EXCEPT ![r] = "ok"]
  /\ UNCHANGED <<args, frame, buf, used, dead>>

Disconnect(r) ==
  /\ Alive(Sender)
  /\ r \in Open
  /\ req[r] # "replied"
  /\ ~Alive(r.node)
  /\ req' = [req EXCEPT ![r] = "failed"]
  /\ UNCHANGED <<args, frame, buf, used, dead>>
-----------------------------------------------------------------------------
(***************************************************************************)
(* The daemon of r.node: RpcTaskSubmit.                                    *)
(***************************************************************************)

Deserialize_Selected(r) ==
  /\ req[r] = "queued"
  /\ Alive(r.node)
  /\ req' = [req EXCEPT ![r] = "alloc"]
  /\ buf' = [buf EXCEPT ![r] = [k \in Selected(xfer, io_flag) |-> "wild"]]
  /\ UNCHANGED <<args, frame, used, dead>>

\* serialize: flags and sizes are carried over, addresses are not.
Deserialize(r) ==
  /\ req[r] = "queued"
  /\ Alive(r.node)
  /\ req' = [req EXCEPT ![r] = "alloc"]
  /\ buf' = [buf EXCEPT ![r] = [k \in DOMAIN xfer |-> "wild"]]
  /\ UNCHANGED <<args, frame, used, dead>>

Wild(r) == {k \in DOMAIN buf[r] : buf[r][k] = "wild"}

AllocateBulksServer_Whole(r) ==
  /\ req[r] = "alloc"
  /\ Alive(r.node)
  /\ Wild(r) # {}
  /\ LET fits == used[r.node] + size(xfer) <= Memory IN
       /\ buf' = [buf EXCEPT ![r][Min(Wild(r))] = IF fits THEN "junk" ELSE "null"]
       /\ used' = IF fits THEN [used EXCEPT ![r.node] = @ + size(xfer)]
                          ELSE used
  /\ UNCHANGED <<args, frame, req, dead>>

\* AllocateBulksServer: one malloc for each segment, selected or not; the
\* result is not checked, and the other handlers of the node allocate too.
AllocateBulksServer(r) ==
  /\ req[r] = "alloc"
  /\ Alive(r.node)
  /\ Wild(r) # {}
  /\ LET k == Min(Wild(r))
         fits == used[r.node] + xfer[k].data_size_ <= Memory
     IN  /\ buf' = [buf EXCEPT ![r][k] = IF fits THEN "junk" ELSE "null"]
         /\ used' = IF fits THEN [used EXCEPT ![r.node] = @ + xfer[k].data_size_]
                            ELSE used
  /\ UNCHANGED <<args, frame, req, dead>>

\* An address that is none among those of the segments the server selects.
BadTarget(r) ==
  \E k \in Selected(xfer, DT_WRITE) : buf[r][k] \in {"null", "wild"}

MakeBulkServer_NoReply(r) ==
  /\ req[r] = "alloc"
  /\ Alive(r.node)
  /\ Wild(r) = {}
  /\ Planned(xfer, DT_WRITE) # 0
  /\ req' = [req EXCEPT ![r] = "bulk"]
  /\ UNCHANGED <<args, frame, buf, used, dead>>

\* MakeBulkServer, and the early return of IoCallServerWrite when there is
\* nothing to pull.  expose() may refuse a null address: the exception is
\* outside the try and ends the process.
MakeBulkServer(r) ==
  /\ req[r] = "alloc"
  /\ Alive(r.node)
  /\ Wild(r) = {}
  /\ \/ /\ req' = [req EXCEPT ![r] = IF Planned(xfer, DT_WRITE) = 0
                                       THEN "pulled" ELSE "bulk"]
        /\ UNCHANGED dead
     \/ /\ Planned(xfer, DT_WRITE) > 0
        /\ BadTarget(r)
        /\ dead' = dead \cup {r.node}
        /\ UNCHANGED req
  /\ UNCHANGED <<args, frame, buf, used>>

(***************************************************************************)
(* The pull.  It fails, which is HELOG(kFatal), or writes through a null   *)
(* address, if malloc gave none; it fails if the sender has exposed        *)
(* nothing; and it may fail if what it exposed is not exposed any more.    *)
(* The bytes arrive where they should if both sides have selected the same *)
(* segments.                                                               *)
(***************************************************************************)
PullMayFail(r) == BadTarget(r) \/ ~Exposed(r)
PullMustFail(r) ==
  BadTarget(r) \/ ~Alive(Sender) \/ Planned(xfer, io_flag) = 0

PullFails(r) ==
  /\ req[r] = "bulk"
  /\ Alive(r.node)
  /\ PullMayFail(r)
  /\ dead' = dead \cup {r.node}
  /\ UNCHANGED <<args, frame, req, buf, used>>

Pull(r) ==
  /\ req[r] = "bulk"
  /\ Alive(r.node)
  /\ ~PullMustFail(r)
  /\ req' = [req EXCEPT ![r] = "pulled"]
  /\ buf' = [buf EXCEPT ![r] =
       [k \in DOMAIN xfer |->
          IF k \notin Selected(xfer, DT_WRITE) THEN buf[r][k]
          ELSE IF Selected(xfer, DT_WRITE) = Selected(xfer, io_flag)
                 THEN "data" ELSE "junk"]]
  /\ UNCHANGED <<args, frame, used, dead>>

\* RpcTaskSubmit responds 0 whatever IoCallServerWrite returned.
RpcTaskSubmit(r) ==
  /\ req[r] = "pulled"
  /\ Alive(r.node)
  /\ req' = [req EXCEPT ![r] = "replied"]
  /\ UNCHANGED <<args, frame, buf, used, dead>>
-----------------------------------------------------------------------------
Step(r) ==
  \/ IoCall(r) \/ IoThrow(r) \/ Receive(r)
  \/ Deserialize(r) \/ AllocateBulksServer(r) \/ MakeBulkServer(r)
  \/ PullFails(r) \/ Pull(r) \/ RpcTaskSubmit(r)

Next == IoReturn \/ \E r \in Req : Step(r) \/ Disconnect(r)

\* Every step moves a request or the sender forward, so that weak fairness of
\* them together is that of every thread.  Nobody must notice a broken
\* connection.
Fairness == WF_vars(IoReturn \/ \E r \in Req : Step(r))

Spec == Init /\ [][Next]_vars
FairSpec == Spec /\ Fairness
-----------------------------------------------------------------------------
\* Type invariant: every buffer vector is empty or as long as the sender's.
TypeOK ==
  /\ xfer \in Xfers
  /\ io_flag \in {DT_EXPOSE, DT_WRITE}
  /\ async \in BOOLEAN
  /\ frame \in Req \cup {NoReq}
  /\ req \in [Req -> {"idle", "queued", "alloc", "bulk", "pulled", "replied",
                      "ok", "failed"}]
  /\ buf \in [Req -> {<<>>} \cup
                     [DOMAIN xfer -> {"wild", "null", "junk", "data"}]]
  /\ used \in [Node -> 0 .. Memory]
  /\ dead \subseteq Node

\* An answered request has arrived: every segment the sender selected for the
\* transfer is in the server's buffer for that segment, though each side
\* selects for itself and neither the addresses nor the number of bytes pulled
\* are compared.
DataArrives ==
  \A r \in Req :
    req[r] \in {"pulled", "replied", "ok"} =>
      \A k \in Selected(xfer, io_flag) :
        xfer[k].data_size_ > 0 => buf[r][k] = "data"

\* The bytes of the requests made to node n.
Demand(n) == Cardinality({r \in Req : r.node = n /\ req[r] # "idle"}) * size(xfer)

\* Synchronous I/O ends a daemon only by exhausting its memory, and then by
\* the sum of all requests it ever got, since no buffer is freed; the sender
\* ends with the daemon it was waiting for.
DaemonsSurvive ==
  ~async =>
    \A n \in dead :
      \/ Demand(n) > Memory
      \/ n = Sender /\ dead # {Sender}

\* Every request is answered, unless a process ends: a request without data
\* too, for which IoCallServerWrite returns early.
TransfersEnd == <>((\A r \in Req : req[r] = "ok") \/ dead # {})
=============================================================================
