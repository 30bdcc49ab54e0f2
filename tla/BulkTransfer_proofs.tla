------------------------ MODULE BulkTransfer_proofs --------------------------
(***************************************************************************)
(* Theorems about BulkTransfer for any number of hosts and requests, any   *)
(* vectors of segments and any memory: what is answered has arrived, and   *)
(* which daemons an I/O test ends.                                         *)
(***************************************************************************)
EXTENDS BulkTransfer, FiniteSetTheorems, WellFoundedInduction, TLAPS

Statuses == {"idle", "queued", "alloc", "bulk", "pulled", "replied", "ok",
             "failed"}
Vectors == [DOMAIN xfer -> {"wild", "null", "junk", "data"}]
Given == {"junk", "data"}

\* The requests made to node n, and the bytes malloc'ed there: those of the
\* buffers that are not wild and not null.
MadeTo(n) == {r \in Req : r.node = n /\ req[r] # "idle"}
Block(r, k) == {r} \X Bytes(xfer, {k})
Allocated(n) ==
  {b \in Req \X Bytes(xfer, DOMAIN xfer) :
     /\ b[1].node = n
     /\ b[2][1] \in DOMAIN buf[b[1]] /\ buf[b[1]][b[2][1]] \in Given}

\* A server has a vector of buffers once it has the request; no address of it
\* is wild when its bulk is made, which it is only if there are bytes to pull.
BufferInv ==
  \A r \in Req :
    /\ req[r] \in {"idle", "queued"} => buf[r] = <<>>
    /\ req[r] \in {"alloc", "bulk", "pulled", "replied", "ok"} =>
         buf[r] \in Vectors
    /\ req[r] = "bulk" => Wild(r) = {} /\ Planned(xfer, DT_WRITE) # 0

\* What was malloc'ed is counted.
UsedInv == \A n \in Node : used[n] = Cardinality(Allocated(n))

\* A malloc fails only when the buffers of all requests exceed the memory.
NullInv ==
  \A r \in Req : \A k \in DOMAIN buf[r] :
    buf[r][k] = "null" => Demand(r.node) > Memory

\* A request fails with its daemon.  The synchronous sender has one request at
\* a time, and its process goes down during it only in its own daemon.
SyncInv ==
  /\ \A r \in Req : req[r] = "failed" => r.node \in dead
  /\ ~async =>
       \A r \in Open : frame = r /\ (Sender \in dead => r.node = Sender)

BulkInv == /\ TypeOK /\ BufferInv /\ UsedInv /\ NullInv
           /\ SyncInv /\ DataArrives /\ DaemonsSurvive
-----------------------------------------------------------------------------
(***************************************************************************)
(* Segments and bytes.                                                     *)
(***************************************************************************)

\* The constants, and the fields of a segment.
LEMMA Segments ==
  ASSUME NEW x \in Xfers, NEW k \in DOMAIN x
  PROVE  x[k].data_size_ \in Nat /\ x[k].flags_ \in Flags
<1>1. x \in Seq(DataTransfer)
  BY BulkAssumption
<1>2. x[k] \in DataTransfer
  BY <1>1
<1>3. QED
  BY <1>2 DEF DataTransfer

\* DT_WRITE holds the bit of DT_EXPOSE, so that no flags have the one without
\* the other: both sides select the same segments for either flag.
LEMMA SameSelection ==
  ASSUME NEW x \in Xfers, NEW f \in {DT_EXPOSE, DT_WRITE}
  PROVE  Selected(x, f) = Selected(x, DT_WRITE)
<1>1. ASSUME NEW k \in DOMAIN x
      PROVE  x[k].flags_ \cap f # {} <=> x[k].flags_ \cap DT_WRITE # {}
  <2>1. PICK M \in SUBSET {DT_EXPOSE, DT_WRITE, DT_FREE_DATA} :
          x[k].flags_ = UNION M
    BY Segments DEF Flags
  <2>2. /\ 1 \notin DT_EXPOSE /\ 1 \notin DT_FREE_DATA
        /\ 0 \in DT_WRITE
    BY DEF DT_EXPOSE, DT_WRITE, DT_FREE_DATA
  <2>3. 1 \in x[k].flags_ => 0 \in x[k].flags_
    <3>1. ASSUME 1 \in UNION M PROVE 0 \in UNION M
      <4>1. PICK m \in M : 1 \in m
        BY <3>1
      <4>2. m = DT_WRITE
        BY <2>2, <4>1
      <4>3. QED
        BY <2>2, <4>1, <4>2
    <3>2. QED
      BY <2>1, <3>1
  <2>4. \A F : F \cap f # {} <=> 0 \in F \/ (1 \in F /\ f = DT_WRITE)
    BY DEF DT_EXPOSE, DT_WRITE
  <2>5. \A F : F \cap DT_WRITE # {} <=> 0 \in F \/ 1 \in F
    BY DEF DT_EXPOSE, DT_WRITE
  <2>6. QED
    BY <2>3, <2>4, <2>5
<1>2. QED
  BY <1>1 DEF Selected

\* The bytes of a segment, and of any segments of a vector.
LEMMA ByteFacts ==
  ASSUME NEW x \in Xfers
  PROVE  /\ \A k \in DOMAIN x :
              /\ IsFiniteSet(Bytes(x, {k}))
              /\ Cardinality(Bytes(x, {k})) = x[k].data_size_
         /\ \A S \in SUBSET DOMAIN x :
              /\ IsFiniteSet(Bytes(x, S))
              /\ Cardinality(Bytes(x, S)) \in Nat
         /\ \A S \in SUBSET DOMAIN x : \A k \in S :
              Bytes(x, {k}) \subseteq Bytes(x, S)
<1> DEFINE Of(k) == {k} \X (1 .. x[k].data_size_)
<1>1. ASSUME NEW k \in DOMAIN x
      PROVE  IsFiniteSet(Of(k)) /\ Cardinality(Of(k)) = x[k].data_size_
  <2>1. x[k].data_size_ \in Nat
    BY Segments
  <2>2. /\ IsFiniteSet(1 .. x[k].data_size_)
        /\ Cardinality(1 .. x[k].data_size_) = x[k].data_size_
    <3>1. ASSUME NEW n \in Nat
          PROVE  IsFiniteSet(1 .. n) /\ Cardinality(1 .. n) = n
      <4>1. /\ IsFiniteSet(1 .. n)
            /\ Cardinality(1 .. n) = IF 1 > n THEN 0 ELSE n - 1 + 1
        BY FS_Interval
      <4>2. QED
        BY <4>1
    <3>2. QED
      BY <2>1, <3>1
  <2>3. IsFiniteSet({k}) /\ Cardinality({k}) = 1
    BY FS_Singleton
  <2> DEFINE I == 1 .. x[k].data_size_
             K == {k}
  <2> HIDE DEF I, K
  <2>4. IsFiniteSet(K \X I) /\ Cardinality(K \X I) = Cardinality(K) * Cardinality(I)
    BY <2>2, <2>3, FS_Product DEF I, K
  <2>5. Cardinality(K \X I) = x[k].data_size_
    <3>1. Cardinality(K) = 1
      BY <2>3 DEF K
    <3>2. Cardinality(I) = x[k].data_size_
      BY <2>2 DEF I
    <3>3. 1 * x[k].data_size_ = x[k].data_size_
      BY <2>1
    <3>4. QED
      BY <2>4, <3>1, <3>2, <3>3
  <2>6. Of(k) = K \X I
    BY DEF I, K
  <2>7. QED
    BY <2>4, <2>5, <2>6
<1>2. \A k \in DOMAIN x : Bytes(x, {k}) = Of(k)
  BY DEF Bytes
<1>3. ASSUME NEW S \in SUBSET DOMAIN x
      PROVE  IsFiniteSet(Bytes(x, S)) /\ Cardinality(Bytes(x, S)) \in Nat
  <2> DEFINE T == {Of(k) : k \in S}
             f == [k \in S |-> Of(k)]
  <2>1. DOMAIN x = 1 .. Len(x) /\ Len(x) \in Nat
    BY BulkAssumption
  <2>2. IsFiniteSet(DOMAIN x)
    BY <2>1, FS_Interval
  <2>3. IsFiniteSet(S)
    BY <2>2, FS_Subset
  <2>4. f \in Surjection(S, T)
    BY DEF Surjection
  <2>5. IsFiniteSet(T)
    BY <2>3, <2>4, FS_Surjection
  <2>6. IsFiniteSet(UNION T)
    BY <1>1, <2>5, FS_UNION
  <2>7. Bytes(x, S) = UNION T
    BY DEF Bytes
  <2>8. QED
    BY <2>6, <2>7, FS_CardinalityType
<1>4. QED
  BY <1>1, <1>2, <1>3 DEF Bytes

\* size_bytes is 0 only if every segment MakeBulk selects is empty.
LEMMA NothingPlanned ==
  ASSUME NEW x \in Xfers, NEW f, Planned(x, f) = 0,
         NEW k \in Selected(x, f)
  PROVE  x[k].data_size_ = 0
<1>1. Selected(x, f) \in SUBSET DOMAIN x /\ k \in DOMAIN x
  BY DEF Selected
<1>2. Bytes(x, Selected(x, f)) = {}
  BY <1>1, ByteFacts, FS_EmptySet DEF Planned
<1>3. Bytes(x, {k}) = {}
  BY <1>1, <1>2, ByteFacts
<1>4. QED
  BY <1>1, <1>3, ByteFacts, FS_EmptySet

\* There are finitely many requests.
LEMMA ReqFinite == IsFiniteSet(Req)
<1> DEFINE P == Node \X (1 .. Rep)
           f == [p \in P |-> [node |-> p[1], rep |-> p[2]]]
<1>1. IsFiniteSet(Node) /\ IsFiniteSet(1 .. Rep)
  BY BulkAssumption, FS_Interval DEF Node
<1>2. IsFiniteSet(P)
  BY <1>1, FS_Product
<1>3. f \in Surjection(P, Req)
  <2>1. \A r \in Req : <<r.node, r.rep>> \in P /\ f[<<r.node, r.rep>>] = r
    BY DEF Req
  <2>2. f \in [P -> Req]
    BY DEF Req
  <2>3. QED
    BY <2>1, <2>2 DEF Surjection
<1>4. QED
  BY <1>2, <1>3, FS_Surjection

\* A set of natural numbers has a least element.
LEMMA LeastExists ==
  ASSUME NEW S \in SUBSET Nat, S # {}
  PROVE  Min(S) \in S
<1>1. PICK x \in S : \A y \in S : ~(<<y, x>> \in OpToRel(<, Nat))
  BY NatLessThanWellFounded, WFMin
<1>2. \A y \in S : ~(y < x)
  BY <1>1 DEF OpToRel
<1>3. \A y \in S : x <= y
  BY <1>2
<1>4. QED
  BY <1>3 DEF Min
-----------------------------------------------------------------------------
(***************************************************************************)
(* Memory.                                                                 *)
(***************************************************************************)

\* What is counted is finite.
LEMMA Counted ==
  ASSUME TypeOK, NEW n \in Node
  PROVE  /\ IsFiniteSet(Allocated(n)) /\ Cardinality(Allocated(n)) \in Nat
         /\ IsFiniteSet(MadeTo(n)) /\ Cardinality(MadeTo(n)) \in Nat
         /\ size(xfer) \in Nat
         /\ Demand(n) = Cardinality(MadeTo(n)) * size(xfer)
         /\ Demand(n) \in Nat
<1> DEFINE B == Bytes(xfer, DOMAIN xfer)
<1>1. IsFiniteSet(B) /\ Cardinality(B) \in Nat
  BY ByteFacts DEF TypeOK
<1>2. IsFiniteSet(Req \X B)
  BY <1>1, ReqFinite, FS_Product
<1>3. Allocated(n) \in SUBSET (Req \X B)
  BY DEF Allocated
<1>4. IsFiniteSet(Allocated(n)) /\ Cardinality(Allocated(n)) \in Nat
  BY <1>2, <1>3, FS_Subset, FS_CardinalityType
<1>5. MadeTo(n) \in SUBSET Req
  BY DEF MadeTo
<1>6. IsFiniteSet(MadeTo(n)) /\ Cardinality(MadeTo(n)) \in Nat
  BY <1>5, ReqFinite, FS_Subset, FS_CardinalityType
<1>7. Demand(n) = Cardinality(MadeTo(n)) * size(xfer)
  BY DEF Demand, MadeTo
<1>8. size(xfer) \in Nat
  BY <1>1 DEF size
<1>9. \A i, j \in Nat : i * j \in Nat
  OBVIOUS
<1>10. QED
  BY <1>4, <1>6, <1>7, <1>8, <1>9

\* A buffer that is not malloc'ed yet is none of the bytes that are, and its
\* bytes and theirs together are some of those of the requests made.
LEMMA Room ==
  ASSUME TypeOK, BufferInv, NEW r \in Req, req[r] # "idle",
         NEW k \in DOMAIN xfer,
         ~(k \in DOMAIN buf[r] /\ buf[r][k] \in Given)
  PROVE  /\ IsFiniteSet(Allocated(r.node) \cup Block(r, k))
         /\ Cardinality(Allocated(r.node) \cup Block(r, k)) =
              Cardinality(Allocated(r.node)) + xfer[k].data_size_
         /\ Cardinality(Allocated(r.node)) + xfer[k].data_size_
              <= Demand(r.node)
<1> DEFINE n == r.node
           A == Allocated(r.node)
           B == Block(r, k)
           All == Bytes(xfer, DOMAIN xfer)
<1>1. n \in Node /\ xfer \in Xfers
  BY DEF Req, TypeOK
<1>2. IsFiniteSet(A) /\ Cardinality(A) \in Nat
  BY <1>1, Counted
<1>3. /\ IsFiniteSet(Bytes(xfer, {k}))
      /\ Cardinality(Bytes(xfer, {k})) = xfer[k].data_size_
      /\ xfer[k].data_size_ \in Nat
      /\ Bytes(xfer, {k}) \subseteq All
      /\ IsFiniteSet(All)
  BY <1>1, ByteFacts, Segments
<1>4. IsFiniteSet(B) /\ Cardinality(B) = xfer[k].data_size_
  <2> DEFINE R == {r}
             K == Bytes(xfer, {k})
  <2>1. IsFiniteSet(R) /\ Cardinality(R) = 1
    BY FS_Singleton
  <2>2. B = R \X K
    BY DEF Block
  <2> HIDE DEF R, K, B
  <2>3. IsFiniteSet(K) /\ Cardinality(K) = xfer[k].data_size_
    BY <1>3 DEF K
  <2>4. IsFiniteSet(R \X K) /\ Cardinality(R \X K) = Cardinality(R) * Cardinality(K)
    BY <2>1, <2>3, FS_Product
  <2>5. 1 * xfer[k].data_size_ = xfer[k].data_size_
    BY <1>3
  <2>6. QED
    BY <2>1, <2>2, <2>3, <2>4, <2>5
<1>5. A \cap B = {}
  <2>1. \A b \in B : b[1] = r /\ b[2][1] = k
    BY DEF Block, Bytes
  <2>2. QED
    BY <2>1 DEF Allocated
<1>6. /\ IsFiniteSet(A \cup B)
      /\ Cardinality(A \cup B) = Cardinality(A) + xfer[k].data_size_
  <2>1. /\ IsFiniteSet(A \cup B)
        /\ Cardinality(A \cup B) =
             Cardinality(A) + Cardinality(B) - Cardinality(A \cap B)
    BY <1>2, <1>4, FS_Union
  <2>2. Cardinality(A \cap B) = 0
    BY <1>5, FS_EmptySet
  <2>3. QED
    BY <1>2, <1>3, <1>4, <2>1, <2>2
<1>7. A \cup B \subseteq MadeTo(n) \X All
  <2>1. ASSUME NEW q \in Req, NEW j, j \in DOMAIN buf[q] PROVE req[q] # "idle"
    BY <2>1 DEF BufferInv
  <2>2. \A b \in A : b[1] \in MadeTo(n)
    BY <2>1 DEF Allocated, MadeTo
  <2>3. A \subseteq Req \X All
    BY DEF Allocated
  <2>4. A \subseteq MadeTo(n) \X All
    BY <2>2, <2>3
  <2>5. r \in MadeTo(n)
    BY DEF MadeTo
  <2>6. B \subseteq MadeTo(n) \X All
    BY <1>3, <2>5 DEF Block
  <2>7. QED
    BY <2>4, <2>6
<1>8. Cardinality(A \cup B) <= Demand(n)
  <2> DEFINE M == MadeTo(n)
  <2>1. IsFiniteSet(M) /\ Demand(n) = Cardinality(M) * Cardinality(All)
    BY <1>1, Counted DEF size
  <2> HIDE DEF M, All
  <2>2. IsFiniteSet(M \X All) /\ Cardinality(M \X All) = Demand(n)
    BY <1>3, <2>1, FS_Product
  <2>3. A \cup B \in SUBSET (M \X All)
    BY <1>7 DEF M
  <2>4. QED
    BY <2>2, <2>3, FS_Subset
<1>9. QED
  BY <1>6, <1>8

\* Requests are not taken back, so that the demand does not fall.
LEMMA DemandGrows ==
  ASSUME TypeOK, TypeOK', xfer' = xfer, NEW n \in Node,
         \A r \in Req : req[r] # "idle" => req'[r] # "idle"
  PROVE  Demand(n) > Memory => Demand(n)' > Memory
<1>1. MadeTo(n) \in SUBSET MadeTo(n)'
  BY DEF MadeTo
<1>2. /\ IsFiniteSet(MadeTo(n)') /\ Cardinality(MadeTo(n)') \in Nat
      /\ Demand(n)' = Cardinality(MadeTo(n)') * size(xfer)
  <2>1. MadeTo(n)' \in SUBSET Req
    BY DEF MadeTo
  <2>2. IsFiniteSet(MadeTo(n)') /\ Cardinality(MadeTo(n)') \in Nat
    BY <2>1, ReqFinite, FS_Subset, FS_CardinalityType
  <2>3. QED
    BY <2>2 DEF Demand, MadeTo
<1>3. /\ Cardinality(MadeTo(n)) \in Nat /\ size(xfer) \in Nat
      /\ Demand(n) = Cardinality(MadeTo(n)) * size(xfer)
  BY Counted
<1>4. Cardinality(MadeTo(n)) <= Cardinality(MadeTo(n)')
  BY <1>1, <1>2, FS_Subset
<1>5. \A i, j, l \in Nat : i <= j => i * l <= j * l
  OBVIOUS
<1>6. Demand(n) <= Demand(n)' /\ Demand(n) \in Nat /\ Demand(n)' \in Nat
  <2>1. \A i, j \in Nat : i * j \in Nat
    OBVIOUS
  <2>2. QED
    BY <1>2, <1>3, <1>4, <1>5, <2>1
<1>7. QED
  BY <1>6, BulkAssumption
-----------------------------------------------------------------------------
(***************************************************************************)
(* The steps.                                                              *)
(***************************************************************************)

\* The buffers of a node are untouched.
LEMMA BuffersStay ==
  ASSUME BulkInv, TypeOK', xfer' = xfer, buf' = buf, used' = used,
         \A r \in Req : req[r] # "idle" => req'[r] # "idle"
  PROVE  UsedInv' /\ NullInv'
<1>1. \A n \in Node : Allocated(n)' = Allocated(n)
  BY DEF Allocated
<1>2. UsedInv'
  BY <1>1 DEF BulkInv, UsedInv
<1>3. \A n \in Node : Demand(n) > Memory => Demand(n)' > Memory
  BY DemandGrows DEF BulkInv
<1>4. \A r \in Req : r.node \in Node
  BY DEF Req
<1>5. NullInv'
  BY <1>3, <1>4 DEF BulkInv, NullInv
<1>6. QED
  BY <1>2, <1>5

\* No process ends.
LEMMA NobodyEnds ==
  ASSUME BulkInv, TypeOK', xfer' = xfer, async' = async, dead' = dead,
         \A r \in Req : req[r] # "idle" => req'[r] # "idle"
  PROVE  DaemonsSurvive'
<1>1. \A n \in Node : Demand(n) > Memory => Demand(n)' > Memory
  BY DemandGrows DEF BulkInv
<1>2. dead \subseteq Node
  BY DEF BulkInv, TypeOK
<1>3. QED
  BY <1>1, <1>2 DEF BulkInv, DaemonsSurvive

\* The process of n ends for want of memory, or is the sender's after another.
LEMMA OneEnds ==
  ASSUME BulkInv, TypeOK', UNCHANGED <<xfer, async, req>>,
         NEW n \in Node, dead' = dead \cup {n},
         ~async => \/ Demand(n) > Memory
                   \/ n = Sender /\ \E q \in dead : q # Sender
  PROVE  DaemonsSurvive'
<1>1. \A q \in Node : Demand(q)' = Demand(q)
  BY DEF Demand
<1>2. dead \subseteq Node
  BY DEF BulkInv, TypeOK
<1>3. QED
  BY <1>1, <1>2 DEF BulkInv, DaemonsSurvive

\* A request is made.
LEMMA IoCallKeeps ==
  ASSUME BulkInv, NEW r \in Req, IoCall(r)
  PROVE  BulkInv'
<1> USE DEF BulkInv
<1> DEFINE s == IF Alive(r.node) THEN "queued" ELSE "failed"
<1>1. /\ frame = NoReq /\ req[r] = "idle" /\ frame' = r
      /\ Sender \notin dead
      /\ req' = [req EXCEPT ![r] = s] /\ s \in {"queued", "failed"}
      /\ s = "failed" => r.node \in dead
      /\ UNCHANGED <<xfer, io_flag, async, buf, used, dead>>
  BY DEF IoCall, Alive, args
<1> HIDE DEF s
<1>2. TypeOK'
  BY <1>1 DEF TypeOK
<1>3. req \in [Req -> Statuses]
  BY DEF TypeOK, Statuses
<1>4. req'[r] = s /\ \A q \in Req : q # r => req'[q] = req[q]
  BY <1>1, <1>3
<1>5. BufferInv'
  <2>1. /\ Vectors' = Vectors /\ \A q \in Req : Wild(q)' = Wild(q)
        /\ Planned(xfer, DT_WRITE)' = Planned(xfer, DT_WRITE)
    BY <1>1 DEF Vectors, Wild, Planned, Selected, Bytes
  <2>2. QED
    BY <1>1, <1>4, <2>1 DEF BufferInv
<1>6. UsedInv' /\ NullInv' /\ DaemonsSurvive'
  BY <1>1, <1>2, <1>4, BuffersStay, NobodyEnds
<1>7. SyncInv'
  <2>1. ASSUME ~async PROVE \A q \in Req : q # r => req[q] \in {"idle", "ok", "failed"}
    <3>1. NoReq \notin Req
      BY DEF NoReq, Req, Node
    <3>2. QED
      BY <1>1, <2>1, <3>1 DEF SyncInv, Open
  <2>2. QED
    BY <1>1, <1>4, <2>1 DEF SyncInv, Open
<1>8. DataArrives'
  BY <1>1, <1>4 DEF DataArrives, Selected
<1>9. QED
  BY <1>2, <1>5, <1>6, <1>7, <1>8

\* IoCall returns.
LEMMA IoReturnKeeps ==
  ASSUME BulkInv, IoReturn
  PROVE  BulkInv'
<1> USE DEF BulkInv
<1>1. /\ frame # NoReq /\ frame' = NoReq /\ (async \/ req[frame] = "ok")
      /\ UNCHANGED <<xfer, io_flag, async, req, buf, used, dead>>
  BY DEF IoReturn, args
<1>2. TypeOK'
  BY <1>1 DEF TypeOK
<1>3. BufferInv'
  BY <1>1 DEF BufferInv, Vectors, Wild, Planned, Selected, Bytes
<1>4. UsedInv' /\ NullInv' /\ DaemonsSurvive'
  BY <1>1, <1>2, BuffersStay, NobodyEnds
<1>5. SyncInv'
  BY <1>1 DEF SyncInv, Open
<1>6. DataArrives'
  BY <1>1 DEF DataArrives, Selected
<1>7. QED
  BY <1>2, <1>3, <1>4, <1>5, <1>6

\* The sender ends after a failed request.
LEMMA IoThrowKeeps ==
  ASSUME BulkInv, NEW r \in Req, IoThrow(r)
  PROVE  BulkInv'
<1> USE DEF BulkInv
<1>1. /\ Sender \notin dead /\ req[r] = "failed"
      /\ frame = r \/ (frame = NoReq /\ \A q \in Req : req[q] # "idle")
      /\ dead' = dead \cup {Sender}
      /\ UNCHANGED <<xfer, io_flag, async, req, buf, used, frame>>
  BY DEF IoThrow, Alive, args
<1>2. Sender \in Node
  BY BulkAssumption DEF Sender, Node
<1>3. TypeOK'
  BY <1>1, <1>2 DEF TypeOK
<1>4. BufferInv'
  BY <1>1 DEF BufferInv, Vectors, Wild, Planned, Selected, Bytes
<1>5. UsedInv' /\ NullInv'
  BY <1>1, <1>3, BuffersStay
<1>6. r.node \in dead /\ r.node # Sender
  BY <1>1 DEF SyncInv
<1>7. DaemonsSurvive'
  BY <1>1, <1>2, <1>3, <1>6, OneEnds
<1>8. SyncInv'
  <2>1. ASSUME ~async PROVE Open = {}
    <3>1. NoReq \notin Req /\ r \notin Open
      BY <1>1 DEF NoReq, Req, Node, Open
    <3>2. QED
      BY <1>1, <2>1, <3>1 DEF SyncInv, Open
  <2>2. QED
    BY <1>1, <2>1 DEF SyncInv, Open
<1>9. DataArrives'
  BY <1>1 DEF DataArrives, Selected
<1>10. QED
  BY <1>3, <1>4, <1>5, <1>7, <1>8, <1>9

\* A request is answered, forgotten by a broken connection, or moves on in its
\* daemon while nothing else changes.
LEMMA StatusKeeps ==
  ASSUME BulkInv, NEW r \in Req, NEW s \in Statuses,
         req[r] # "idle", s \notin {"idle", "queued", "alloc"},
         req' = [req EXCEPT ![r] = s],
         UNCHANGED <<xfer, io_flag, async, frame, buf, used, dead>>,
         s # "failed" => /\ buf[r] \in Vectors
                         /\ r \in Open,
         s = "failed" => r.node \in dead,
         s = "bulk" => Wild(r) = {} /\ Planned(xfer, DT_WRITE) # 0,
         s \in {"pulled", "replied", "ok"} =>
           \A k \in Selected(xfer, io_flag) :
             xfer[k].data_size_ > 0 => buf[r][k] = "data"
  PROVE  BulkInv'
<1> USE DEF BulkInv
<1>1. TypeOK'
  BY DEF TypeOK, Statuses
<1>2. req \in [Req -> Statuses]
  BY DEF TypeOK, Statuses
<1>3. req'[r] = s /\ \A q \in Req : q # r => req'[q] = req[q]
  BY <1>2
<1>4. BufferInv'
  BY <1>3 DEF BufferInv, Vectors, Wild, Planned, Selected, Bytes
<1>5. UsedInv' /\ NullInv' /\ DaemonsSurvive'
  BY <1>1, <1>3, BuffersStay, NobodyEnds
<1>6. SyncInv'
  BY <1>3 DEF SyncInv, Open
<1>7. DataArrives'
  BY <1>3 DEF DataArrives, Selected
<1>8. QED
  BY <1>1, <1>4, <1>5, <1>6, <1>7

\* The sender gets the response, or an error, and the daemon responds.
LEMMA AnswersKeep ==
  ASSUME BulkInv, NEW r \in Req,
         Receive(r) \/ Disconnect(r) \/ RpcTaskSubmit(r)
  PROVE  BulkInv'
<1> USE DEF BulkInv
<1>1. CASE Receive(r)
  <2>1. /\ req[r] = "replied" /\ req' = [req EXCEPT ![r] = "ok"]
        /\ UNCHANGED <<xfer, io_flag, async, frame, buf, used, dead>>
    BY <1>1 DEF Receive, args
  <2>2. QED
    BY <2>1, StatusKeeps DEF Statuses, Open, BufferInv, DataArrives
<1>2. CASE Disconnect(r)
  <2>1. /\ r \in Open /\ r.node \in dead /\ req' = [req EXCEPT ![r] = "failed"]
        /\ UNCHANGED <<xfer, io_flag, async, frame, buf, used, dead>>
    BY <1>2 DEF Disconnect, Alive, args
  <2>2. QED
    BY <2>1, StatusKeeps DEF Statuses, Open
<1>3. CASE RpcTaskSubmit(r)
  <2>1. /\ req[r] = "pulled" /\ req' = [req EXCEPT ![r] = "replied"]
        /\ UNCHANGED <<xfer, io_flag, async, frame, buf, used, dead>>
    BY <1>3 DEF RpcTaskSubmit, args
  <2>2. QED
    BY <2>1, StatusKeeps DEF Statuses, Open, BufferInv, DataArrives
<1>4. QED
  BY <1>1, <1>2, <1>3

\* An address among the pulled ones that is none comes from a failed malloc.
LEMMA BadTargetMeans ==
  ASSUME BulkInv, NEW r \in Req, req[r] \in {"alloc", "bulk"}, Wild(r) = {},
         BadTarget(r)
  PROVE  Demand(r.node) > Memory
<1>1. buf[r] \in Vectors
  BY DEF BulkInv, BufferInv
<1>2. PICK k \in Selected(xfer, DT_WRITE) : buf[r][k] \in {"null", "wild"}
  BY DEF BadTarget
<1>3. k \in DOMAIN buf[r]
  BY <1>1, <1>2 DEF Selected, Vectors
<1>4. buf[r][k] = "null"
  BY <1>2, <1>3 DEF Wild
<1>5. QED
  BY <1>3, <1>4 DEF BulkInv, NullInv

\* A process ends in the handler of request r.
LEMMA HandlerEnds ==
  ASSUME BulkInv, NEW r \in Req, r.node \notin dead,
         dead' = dead \cup {r.node},
         UNCHANGED <<xfer, io_flag, async, frame, req, buf, used>>,
         r \in Open,
         ~async => Demand(r.node) > Memory
  PROVE  BulkInv'
<1> USE DEF BulkInv
<1>1. r.node \in Node
  BY DEF Req
<1>2. TypeOK'
  BY <1>1 DEF TypeOK
<1>3. BufferInv'
  BY DEF BufferInv, Vectors, Wild, Planned, Selected, Bytes
<1>4. UsedInv' /\ NullInv'
  BY <1>2, BuffersStay
<1>5. DaemonsSurvive'
  BY <1>1, <1>2, OneEnds
<1>6. SyncInv'
  BY DEF SyncInv, Open
<1>7. DataArrives'
  BY DEF DataArrives, Selected
<1>8. QED
  BY <1>2, <1>3, <1>4, <1>5, <1>6, <1>7

\* The server makes its bulk, has nothing to pull, or ends.
LEMMA MakeBulkServerKeeps ==
  ASSUME BulkInv, NEW r \in Req, MakeBulkServer(r)
  PROVE  BulkInv'
<1>1. /\ req[r] = "alloc" /\ r.node \notin dead /\ Wild(r) = {}
      /\ UNCHANGED <<xfer, io_flag, async, frame, buf, used>>
  BY DEF MakeBulkServer, Alive, args
<1>2. r \in Open /\ buf[r] \in Vectors /\ xfer \in Xfers
      /\ io_flag \in {DT_EXPOSE, DT_WRITE}
  BY <1>1 DEF BulkInv, BufferInv, TypeOK, Open
<1>3. CASE Planned(xfer, DT_WRITE) = 0 /\ req' = [req EXCEPT ![r] = "pulled"]
           /\ UNCHANGED dead
  <2>1. \A k \in Selected(xfer, io_flag) : xfer[k].data_size_ = 0
    BY <1>2, <1>3, SameSelection, NothingPlanned
  <2>2. \A k \in Selected(xfer, io_flag) :
          xfer[k].data_size_ > 0 => buf[r][k] = "data"
    BY <2>1
  <2>3. QED
    BY <1>1, <1>2, <1>3, <2>2, StatusKeeps DEF Statuses
<1>4. CASE Planned(xfer, DT_WRITE) # 0 /\ req' = [req EXCEPT ![r] = "bulk"]
           /\ UNCHANGED dead
  BY <1>1, <1>2, <1>4, StatusKeeps DEF Statuses
<1>5. CASE BadTarget(r) /\ dead' = dead \cup {r.node} /\ UNCHANGED req
  BY <1>1, <1>2, <1>5, BadTargetMeans, HandlerEnds
<1>6. QED
  BY <1>3, <1>4, <1>5 DEF MakeBulkServer

\* A failed pull ends the daemon: for a synchronous sender, which still
\* exposes its segments, it fails only for want of a buffer.
LEMMA PullFailsKeeps ==
  ASSUME BulkInv, NEW r \in Req, PullFails(r)
  PROVE  BulkInv'
<1>1. /\ req[r] = "bulk" /\ r.node \notin dead /\ PullMayFail(r)
      /\ dead' = dead \cup {r.node}
      /\ UNCHANGED <<xfer, io_flag, async, frame, req, buf, used>>
  BY DEF PullFails, Alive, args
<1>2. r \in Open /\ Wild(r) = {} /\ Planned(xfer, DT_WRITE) # 0
  BY <1>1 DEF BulkInv, BufferInv, Open
<1>3. ASSUME ~async PROVE Demand(r.node) > Memory
  <2>1. frame = r /\ Sender \notin dead
    BY <1>1, <1>2, <1>3 DEF BulkInv, SyncInv
  <2>2. Planned(xfer, io_flag) = Planned(xfer, DT_WRITE)
    BY SameSelection DEF BulkInv, TypeOK, Planned
  <2>3. Planned(xfer, io_flag) \in Nat
    BY ByteFacts DEF BulkInv, TypeOK, Planned, Selected
  <2>4. Exposed(r)
    BY <1>2, <2>1, <2>2, <2>3 DEF Exposed, Alive
  <2>5. BadTarget(r)
    BY <1>1, <2>4 DEF PullMayFail
  <2>6. QED
    BY <1>1, <1>2, <2>5, BadTargetMeans
<1>4. QED
  BY <1>1, <1>2, <1>3, HandlerEnds

\* The request arrives: none of the addresses in it means anything here.
LEMMA DeserializeKeeps ==
  ASSUME BulkInv, NEW r \in Req, Deserialize(r)
  PROVE  BulkInv'
<1> USE DEF BulkInv
<1> DEFINE v == [k \in DOMAIN xfer |-> "wild"]
<1>1. /\ req[r] = "queued" /\ req' = [req EXCEPT ![r] = "alloc"]
      /\ buf' = [buf EXCEPT ![r] = v]
      /\ UNCHANGED <<xfer, io_flag, async, frame, used, dead>>
  BY DEF Deserialize, args
<1>2. v \in Vectors /\ DOMAIN v = DOMAIN xfer
      /\ \A k \in DOMAIN xfer : v[k] = "wild"
  BY DEF Vectors
<1> HIDE DEF v
<1>3. TypeOK'
  BY <1>1, <1>2 DEF TypeOK, Vectors
<1>4. /\ req'[r] = "alloc" /\ \A q \in Req : q # r => req'[q] = req[q]
      /\ buf'[r] = v /\ \A q \in Req : q # r => buf'[q] = buf[q]
  BY <1>1 DEF TypeOK
<1>5. BufferInv'
  <2>1. Vectors' = Vectors
    BY <1>1 DEF Vectors
  <2>2. Planned(xfer, DT_WRITE)' = Planned(xfer, DT_WRITE)
    BY <1>1 DEF Planned, Selected, Bytes
  <2>3. \A q \in Req : q # r => Wild(q)' = Wild(q)
    BY <1>4 DEF Wild
  <2>4. QED
    BY <1>2, <1>4, <2>1, <2>2, <2>3 DEF BufferInv
<1>6. buf[r] = <<>>
  BY <1>1 DEF BufferInv
<1>7. \A n \in Node : Allocated(n)' = Allocated(n)
  <2> SUFFICES ASSUME NEW n \in Node, NEW b \in Req \X Bytes(xfer, DOMAIN xfer)
               PROVE  b \in Allocated(n)' <=> b \in Allocated(n)
    BY <1>1 DEF Allocated
  <2>1. CASE b[1] = r
    BY <1>1, <1>2, <1>4, <1>6, <2>1 DEF Allocated, Given
  <2>2. CASE b[1] # r
    BY <1>1, <1>4, <2>2 DEF Allocated
  <2>3. QED
    BY <2>1, <2>2
<1>8. UsedInv'
  BY <1>1, <1>7 DEF UsedInv
<1>9. \A q \in Req : req[q] # "idle" => req'[q] # "idle"
  BY <1>4
<1>10. DaemonsSurvive'
  BY <1>1, <1>3, <1>9, NobodyEnds
<1>11. NullInv'
  <2>1. \A n \in Node : Demand(n) > Memory => Demand(n)' > Memory
    BY <1>1, <1>3, <1>9, DemandGrows
  <2>2. \A q \in Req : q.node \in Node
    BY DEF Req
  <2>3. QED
    BY <1>2, <1>4, <2>1, <2>2 DEF NullInv
<1>12. SyncInv'
  BY <1>1, <1>4 DEF SyncInv, Open
<1>13. DataArrives'
  BY <1>1, <1>4 DEF DataArrives, Selected
<1>14. QED
  BY <1>3, <1>5, <1>8, <1>10, <1>11, <1>12, <1>13

\* One malloc: its bytes are counted, or those of all requests do not fit.
LEMMA AllocateBulksServerKeeps ==
  ASSUME BulkInv, NEW r \in Req, AllocateBulksServer(r)
  PROVE  BulkInv'
<1> USE DEF BulkInv
<1> DEFINE n == r.node
           k == Min(Wild(r))
           fits == used[n] + xfer[k].data_size_ <= Memory
           v == IF fits THEN "junk" ELSE "null"
<1>1. /\ req[r] = "alloc" /\ Wild(r) # {}
      /\ buf' = [buf EXCEPT ![r][k] = v]
      /\ used' = IF fits THEN [used EXCEPT ![n] = @ + xfer[k].data_size_] ELSE used
      /\ UNCHANGED <<xfer, io_flag, async, frame, req, dead>>
  BY DEF AllocateBulksServer, args
<1>2. n \in Node /\ xfer \in Xfers /\ Memory \in Nat
      /\ buf[r] \in Vectors /\ r \in DOMAIN buf
  BY <1>1, BulkAssumption DEF Req, TypeOK, BufferInv
<1>3. k \in Wild(r)
  <2>1. DOMAIN xfer \subseteq Nat
    BY <1>2, BulkAssumption
  <2>2. Wild(r) \in SUBSET Nat
    BY <1>2, <2>1 DEF Wild, Vectors
  <2>3. QED
    BY <1>1, <2>2, LeastExists
<1>4. k \in DOMAIN xfer /\ k \in DOMAIN buf[r] /\ buf[r][k] = "wild"
  BY <1>2, <1>3 DEF Wild, Vectors
<1>5. used[n] \in Nat /\ used[n] <= Memory /\ xfer[k].data_size_ \in Nat
  BY <1>2, <1>4, Segments DEF TypeOK
<1> HIDE DEF k
<1>6. /\ v \in {"junk", "null"} /\ (fits <=> v = "junk")
  OBVIOUS
<1> HIDE DEF v, fits
<1>7. /\ buf'[r] = [buf[r] EXCEPT ![k] = v]
      /\ \A q \in Req : q # r => buf'[q] = buf[q]
      /\ DOMAIN buf' = Req
  BY <1>1 DEF TypeOK
<1>8. /\ buf'[r] \in Vectors /\ DOMAIN buf'[r] = DOMAIN xfer /\ buf'[r][k] = v
      /\ \A j \in DOMAIN xfer : j # k => buf'[r][j] = buf[r][j]
  BY <1>2, <1>4, <1>6, <1>7 DEF Vectors
<1>9. /\ \A m \in Node : m # n => used'[m] = used[m]
      /\ used'[n] = IF fits THEN used[n] + xfer[k].data_size_ ELSE used[n]
      /\ used' \in [Node -> 0 .. Memory]
  <2>1. used \in [Node -> 0 .. Memory]
    BY DEF TypeOK
  <2>2. CASE fits
    <3>1. used[n] + xfer[k].data_size_ \in 0 .. Memory
      BY <1>2, <1>5, <2>2 DEF fits
    <3>2. QED
      BY <1>1, <1>2, <2>1, <2>2, <3>1
  <2>3. CASE ~fits
    BY <1>1, <1>2, <2>1, <2>3
  <2>4. QED
    BY <2>2, <2>3
<1>10. Vectors' = Vectors
  BY <1>1 DEF Vectors
<1>11. TypeOK'
  <2>1. \A q \in Req : buf'[q] \in {<<>>} \cup Vectors
    BY <1>7, <1>8 DEF TypeOK, Vectors
  <2>2. buf' \in [Req -> {<<>>} \cup Vectors]
    BY <1>1, <2>1 DEF TypeOK
  <2>3. QED
    BY <1>1, <1>9, <2>2 DEF TypeOK, Vectors
<1>12. BufferInv'
  <2>1. \A q \in Req : q # r => Wild(q)' = Wild(q)
    BY <1>7 DEF Wild
  <2>2. Planned(xfer, DT_WRITE)' = Planned(xfer, DT_WRITE)
    BY <1>1 DEF Planned, Selected, Bytes
  <2>3. QED
    BY <1>1, <1>7, <1>8, <1>10, <2>1, <2>2 DEF BufferInv
<1>13. \A m \in Node : m # n => Allocated(m)' = Allocated(m)
  <2> SUFFICES ASSUME NEW m \in Node, m # n,
                      NEW b \in Req \X Bytes(xfer, DOMAIN xfer)
               PROVE  b \in Allocated(m)' <=> b \in Allocated(m)
    BY <1>1 DEF Allocated
  <2>1. CASE b[1] = r
    BY <2>1 DEF Allocated
  <2>2. CASE b[1] # r
    BY <1>1, <1>7, <2>2 DEF Allocated
  <2>3. QED
    BY <2>1, <2>2
<1>14. Allocated(n)' = IF fits THEN Allocated(n) \cup Block(r, k) ELSE Allocated(n)
  <2>1. Block(r, k) \subseteq Req \X Bytes(xfer, DOMAIN xfer)
    BY <1>2, <1>4, ByteFacts DEF Block
  <2>2. \A b \in Req \X Bytes(xfer, DOMAIN xfer) :
          b \in Block(r, k) <=> b[1] = r /\ b[2][1] = k
    <3>1. ASSUME NEW c \in Bytes(xfer, DOMAIN xfer)
          PROVE  c \in Bytes(xfer, {k}) <=> c[1] = k
      BY DEF Bytes
    <3>2. QED
      BY <3>1 DEF Block
  <2>3. ASSUME NEW b \in Req \X Bytes(xfer, DOMAIN xfer)
        PROVE  b \in Allocated(n)' <=>
                 b \in Allocated(n) \/ (fits /\ b \in Block(r, k))
    <3>1. CASE b[1] # r
      BY <1>1, <1>7, <2>2, <3>1 DEF Allocated
    <3>2. CASE b[1] = r /\ b[2][1] # k
      BY <1>1, <1>2, <1>8, <2>2, <3>2 DEF Allocated, Vectors
    <3>3. CASE b[1] = r /\ b[2][1] = k
      <4>1. b \notin Allocated(n)
        BY <1>4, <3>3 DEF Allocated, Given
      <4>2. b \in Allocated(n)' <=> v \in Given
        BY <1>1, <1>4, <1>8, <3>3 DEF Allocated, Given
      <4>3. v \in Given <=> fits
        BY <1>6 DEF Given
      <4>4. QED
        BY <2>2, <3>3, <4>1, <4>2, <4>3
    <3>4. QED
      BY <3>1, <3>2, <3>3
  <2>4. Allocated(n)' \subseteq Req \X Bytes(xfer, DOMAIN xfer)
        /\ Allocated(n) \subseteq Req \X Bytes(xfer, DOMAIN xfer)
    BY <1>1 DEF Allocated
  <2>5. QED
    BY <2>1, <2>3, <2>4
<1>15. /\ Cardinality(Allocated(n) \cup Block(r, k)) =
            Cardinality(Allocated(n)) + xfer[k].data_size_
       /\ Cardinality(Allocated(n)) + xfer[k].data_size_ <= Demand(n)
  <2>1. ~(k \in DOMAIN buf[r] /\ buf[r][k] \in Given) /\ req[r] # "idle"
    BY <1>1, <1>4 DEF Given
  <2>2. QED
    BY <1>4, <2>1, Room
<1>16. used[n] = Cardinality(Allocated(n))
  BY <1>2 DEF UsedInv
<1>17. UsedInv'
  <2>1. \A m \in Node : m # n => used'[m] = Cardinality(Allocated(m)')
    BY <1>9, <1>13 DEF UsedInv
  <2>2. used'[n] = Cardinality(Allocated(n)')
    BY <1>9, <1>14, <1>15, <1>16
  <2>3. QED
    BY <2>1, <2>2 DEF UsedInv
<1>18. \A m \in Node : Demand(m)' = Demand(m)
  BY <1>1 DEF Demand, size, Bytes
<1>19. ASSUME ~fits PROVE Demand(n) > Memory
  <2>1. ~(used[n] + xfer[k].data_size_ <= Memory)
    BY <1>19 DEF fits
  <2>2. used[n] + xfer[k].data_size_ <= Demand(n)
    BY <1>15, <1>16
  <2>3. Demand(n) \in Nat
    BY <1>2, Counted
  <2>4. QED
    BY <1>2, <1>5, <2>1, <2>2, <2>3
<1>20. NullInv'
  <2> SUFFICES ASSUME NEW q \in Req, NEW j \in DOMAIN buf'[q], buf'[q][j] = "null"
               PROVE  Demand(q.node)' > Memory
    BY DEF NullInv
  <2>1. q.node \in Node
    BY DEF Req
  <2>2. CASE q = r /\ j = k
    BY <1>2, <1>6, <1>8, <1>18, <1>19, <2>2
  <2>3. CASE q # r
    <3>1. j \in DOMAIN buf[q] /\ buf[q][j] = "null"
      BY <1>7, <2>3
    <3>2. QED
      BY <1>18, <2>1, <3>1 DEF NullInv
  <2>4. CASE q = r /\ j # k
    <3>1. j \in DOMAIN buf[q] /\ buf[q][j] = "null"
      BY <1>2, <1>8, <2>4 DEF Vectors
    <3>2. QED
      BY <1>18, <2>1, <3>1 DEF NullInv
  <2>5. QED
    BY <2>2, <2>3, <2>4
<1>21. SyncInv'
  BY <1>1 DEF SyncInv, Open
<1>22. DaemonsSurvive'
  BY <1>1, <1>11, NobodyEnds
<1>23. DataArrives'
  BY <1>1, <1>7 DEF DataArrives, Selected
<1>24. QED
  BY <1>11, <1>12, <1>17, <1>20, <1>21, <1>22, <1>23

\* The pull: both sides have selected the same segments, and every selected
\* buffer was malloc'ed before.
LEMMA PullKeeps ==
  ASSUME BulkInv, NEW r \in Req, Pull(r)
  PROVE  BulkInv'
<1> USE DEF BulkInv
<1> DEFINE S == Selected(xfer, DT_WRITE)
           v == [k \in DOMAIN xfer |-> IF k \in S THEN "data" ELSE buf[r][k]]
<1>1. /\ req[r] = "bulk" /\ ~BadTarget(r)
      /\ req' = [req EXCEPT ![r] = "pulled"]
      /\ UNCHANGED <<xfer, io_flag, async, frame, used, dead>>
  BY DEF Pull, PullMustFail, args
<1>2. buf[r] \in Vectors /\ r \in Open /\ S \subseteq DOMAIN xfer
      /\ Selected(xfer, io_flag) = S
  BY <1>1, SameSelection DEF BufferInv, TypeOK, Open, Selected
<1>3. buf' = [buf EXCEPT ![r] = v]
  BY <1>2 DEF Pull
<1>4. v \in Vectors /\ DOMAIN v = DOMAIN xfer
      /\ \A k \in DOMAIN xfer : /\ k \in S => v[k] = "data"
                                /\ k \notin S => v[k] = buf[r][k]
  BY <1>2 DEF Vectors
<1>5. \A k \in S : buf[r][k] \in Given
  BY <1>1, <1>2 DEF BadTarget, Vectors, Given
<1> HIDE DEF S, v
<1>6. /\ req'[r] = "pulled" /\ \A q \in Req : q # r => req'[q] = req[q]
      /\ buf'[r] = v /\ \A q \in Req : q # r => buf'[q] = buf[q]
  BY <1>1, <1>3 DEF TypeOK
<1>7. Vectors' = Vectors
  BY <1>1 DEF Vectors
<1>8. TypeOK'
  <2>1. buf' \in [Req -> {<<>>} \cup Vectors]
    BY <1>3, <1>4 DEF TypeOK, Vectors
  <2>2. QED
    BY <1>1, <2>1 DEF TypeOK, Vectors
<1>9. BufferInv'
  <2>1. Planned(xfer, DT_WRITE)' = Planned(xfer, DT_WRITE)
    BY <1>1 DEF Planned, Selected, Bytes
  <2>2. \A q \in Req : q # r => Wild(q)' = Wild(q)
    BY <1>6 DEF Wild
  <2>3. QED
    BY <1>4, <1>6, <1>7, <2>1, <2>2 DEF BufferInv
<1>10. \A n \in Node : Allocated(n)' = Allocated(n)
  <2> SUFFICES ASSUME NEW n \in Node, NEW b \in Req \X Bytes(xfer, DOMAIN xfer)
               PROVE  b \in Allocated(n)' <=> b \in Allocated(n)
    BY <1>1 DEF Allocated
  <2>1. CASE b[1] = r
    <3>1. DOMAIN buf[r] = DOMAIN xfer
      BY <1>2 DEF Vectors
    <3>2. \A k \in DOMAIN xfer : v[k] \in Given <=> buf[r][k] \in Given
      BY <1>4, <1>5 DEF Given
    <3>3. QED
      BY <1>1, <1>4, <1>6, <2>1, <3>1, <3>2 DEF Allocated
  <2>2. CASE b[1] # r
    BY <1>1, <1>6, <2>2 DEF Allocated
  <2>3. QED
    BY <2>1, <2>2
<1>11. UsedInv'
  BY <1>1, <1>10 DEF UsedInv
<1>12. \A q \in Req : req[q] # "idle" => req'[q] # "idle"
  BY <1>6
<1>13. DaemonsSurvive'
  BY <1>1, <1>8, <1>12, NobodyEnds
<1>14. NullInv'
  <2>1. \A n \in Node : Demand(n) > Memory => Demand(n)' > Memory
    BY <1>1, <1>8, <1>12, DemandGrows
  <2>2. \A q \in Req : q.node \in Node
    BY DEF Req
  <2>3. \A k \in DOMAIN v : v[k] = "null" => k \in DOMAIN buf[r] /\ buf[r][k] = "null"
    BY <1>2, <1>4 DEF Vectors
  <2>4. QED
    BY <1>6, <2>1, <2>2, <2>3 DEF NullInv
<1>15. SyncInv'
  BY <1>1, <1>2, <1>6 DEF SyncInv, Open
<1>16. DataArrives'
  <2>1. Selected(xfer, io_flag)' = S
    BY <1>1, <1>2 DEF Selected
  <2>2. QED
    BY <1>1, <1>2, <1>4, <1>6, <2>1 DEF DataArrives
<1>17. QED
  BY <1>8, <1>9, <1>11, <1>13, <1>14, <1>15, <1>16
-----------------------------------------------------------------------------
(***************************************************************************)
(* The theorems.                                                           *)
(***************************************************************************)

\* Nothing is made, allocated or ended at first.
LEMMA BulkInit ==
  ASSUME Init
  PROVE  BulkInv
<1> USE DEF Init
<1>1. TypeOK
  BY BulkAssumption DEF TypeOK
<1>2. BufferInv /\ NullInv /\ SyncInv /\ DataArrives /\ DaemonsSurvive
  BY DEF BufferInv, NullInv, SyncInv, Open, DataArrives, DaemonsSurvive
<1>3. \A n \in Node : Allocated(n) = {}
  BY DEF Allocated
<1>4. UsedInv
  BY <1>3, FS_EmptySet DEF UsedInv
<1>5. QED
  BY <1>1, <1>2, <1>4 DEF BulkInv

\* The inductive invariant holds.
THEOREM BulkInvHolds == Spec => []BulkInv
<1>1. BulkInv /\ [Next]_vars => BulkInv'
  <2> SUFFICES ASSUME BulkInv, [Next]_vars
               PROVE  BulkInv'
    OBVIOUS
  <2>1. CASE IoReturn
    BY <2>1, IoReturnKeeps
  <2>2. ASSUME NEW r \in Req, Step(r)
        PROVE  BulkInv'
    BY <2>2, IoCallKeeps, IoThrowKeeps, AnswersKeep, DeserializeKeeps,
       AllocateBulksServerKeeps, MakeBulkServerKeeps, PullFailsKeeps, PullKeeps
       DEF Step
  <2>3. ASSUME NEW r \in Req, Disconnect(r)
        PROVE  BulkInv'
    BY <2>3, AnswersKeep
  <2>4. CASE UNCHANGED vars
    <3>1. UNCHANGED <<xfer, io_flag, async, frame, req, buf, used, dead>>
      BY <2>4 DEF vars, args
    <3>2. TypeOK' /\ SyncInv'
      BY <3>1 DEF BulkInv, TypeOK, SyncInv, Open
    <3>3. BufferInv'
      BY <3>1 DEF BulkInv, BufferInv, Vectors, Wild, Planned, Selected, Bytes
    <3>4. UsedInv' /\ NullInv' /\ DaemonsSurvive'
      BY <3>1, <3>2, BuffersStay, NobodyEnds
    <3>5. DataArrives'
      BY <3>1 DEF BulkInv, DataArrives, Selected
    <3>6. QED
      BY <3>2, <3>3, <3>4, <3>5 DEF BulkInv
  <2>5. QED
    BY <2>1, <2>2, <2>3, <2>4 DEF Next
<1>2. QED
  BY <1>1, BulkInit, PTL DEF Spec

\* BulkTransfer's variables keep their types: malloc never hands out more than
\* the node has.
THEOREM TypeCorrect == Spec => []TypeOK
<1>1. BulkInv => TypeOK
  BY DEF BulkInv
<1>2. QED
  BY <1>1, BulkInvHolds, PTL

\* Every byte of the segments IoCall selects is in the server's buffers once
\* IoCallServerWrite has returned, whichever of the two flags IoCall got.
THEOREM SelectedDataArrives == Spec => []DataArrives
<1>1. BulkInv => DataArrives
  BY DEF BulkInv
<1>2. QED
  BY <1>1, BulkInvHolds, PTL

\* Synchronous I/O ends a daemon only once the buffers of all the requests it
\* got exceed its memory, HELOG(kFatal) of the pull having no other cause; the
\* sender's process may end too, after another node's daemon.
THEOREM DaemonsOutliveIo == Spec => []DaemonsSurvive
<1>1. BulkInv => DaemonsSurvive
  BY DEF BulkInv
<1>2. QED
  BY <1>1, BulkInvHolds, PTL
=============================================================================
