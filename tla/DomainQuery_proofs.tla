-------------------------- MODULE DomainQuery_proofs -------------------------
(***************************************************************************)
(* Theorems about DomainQuery: for every set of subdomains, words and      *)
(* iteration flags, what is read from a query is what its call asked for.  *)
(***************************************************************************)
EXTENDS DomainQuery, TLAPS

\* What a reader finds in a query.
Reading(q) == <<Scope(q), q.sub_id, Selection(q), GetIterFlags(q)>>

\* What is to be read where the bits of a scope or a kind of selection are on.
ScopeName(scope) ==
  IF scope = kLocal THEN "local"
  ELSE IF scope = kGlobal THEN "global" ELSE "direct"
Chosen(kind, lo, hi) ==
  IF kind = kId THEN <<"id", lo>>
  ELSE IF kind = kHash THEN <<"hash", lo>>
  ELSE IF kind = kRange THEN <<"range", lo, hi>> ELSE <<"">>

\* A filled slot holds one of the queries its call may have returned.
MadeInv ==
  \A s \in Slot :
    query[s] # NoQuery => /\ made[s] \in Calls
                          /\ query[s] \in Results(made[s])

QueryInv == TypeOK /\ MadeInv
-----------------------------------------------------------------------------
\* The fields of a query that a function returns.
LEMMA FillFacts ==
  ASSUME NEW flags, NEW g, NEW los, NEW his, NEW q \in Fill(flags, g, los, his)
  PROVE  /\ q = [flags |-> q.flags, sub_id |-> q.sub_id,
                 lo |-> q.lo, hi |-> q.hi]
         /\ q.flags = flags /\ q.sub_id = g /\ q.lo \in los /\ q.hi \in his
<1>1. PICK l \in los, h \in his :
        q = [flags |-> flags, sub_id |-> g, lo |-> l, hi |-> h]
  BY DEF Fill
<1>2. QED
  BY <1>1

\* What is read of a query with the bits of a scope, a kind of selection and
\* iteration flags.
ReadsAs(q, scope, kind, iter) ==
  q.flags = scope \cup kind \cup iter =>
    /\ q.flags \subseteq Bits
    /\ Scope(q) = ScopeName(scope)
    /\ Selection(q) = Chosen(kind, q.lo, q.hi)
    /\ GetIterFlags(q) = iter

Scopes == {kLocal, kGlobal, kDirect}
Kinds == {kId, kHash, kRange, {}}

\* Scope, kind and iteration flags are different bits, so that each is read
\* back from their union.
LEMMA BitsRead ==
  ASSUME NEW scope \in Scopes, NEW kind \in Kinds, NEW iter \in SUBSET Iters,
         NEW q
  PROVE  ReadsAs(q, scope, kind, iter)
<1> SUFFICES ASSUME q.flags = scope \cup kind \cup iter
             PROVE  /\ q.flags \subseteq Bits
                    /\ Scope(q) = ScopeName(scope)
                    /\ Selection(q) = Chosen(kind, q.lo, q.hi)
                    /\ GetIterFlags(q) = iter
  BY DEF ReadsAs
<1> USE DEF Scopes, Kinds
<1> DEFINE bits == scope \cup kind \cup iter
<1>1. bits \subseteq Bits
  BY DEF Bits, kLocal, kGlobal, kDirect, kId, kHash, kRange
<1>2. \A b \in iter : b \in {15, 17, 18, 19}
  BY DEF Iters, kBroadcast, kRepUntilSuccess, kChooseOne, kForwardToLeader
<1>3. /\ 1 \in bits <=> scope = kLocal
      /\ 3 \in bits <=> scope = kGlobal
      /\ 2 \in bits <=> scope = kDirect
  BY <1>2 DEF kLocal, kGlobal, kDirect, kId, kHash, kRange
<1>4. /\ 4 \in bits <=> kind = kId
      /\ 5 \in bits <=> kind = kHash
      /\ 6 \in bits <=> kind = kRange
  BY <1>2 DEF kLocal, kGlobal, kDirect, kId, kHash, kRange
<1>5. Scope(q) = ScopeName(scope)
  BY <1>3 DEF Scope, ScopeName, kLocal, kGlobal, kDirect
<1>6. Selection(q) = Chosen(kind, q.lo, q.hi)
  BY <1>4 DEF Selection, Chosen, kId, kHash, kRange
<1>7. GetIterFlags(q) = iter
  <2>1. scope \cap Iters = {} /\ kind \cap Iters = {}
    BY DEF Iters, kBroadcast, kRepUntilSuccess, kChooseOne, kForwardToLeader,
       kLocal, kGlobal, kDirect, kId, kHash, kRange
  <2>2. bits \cap Iters = iter
    BY <2>1
  <2>3. QED
    BY <2>2 DEF GetIterFlags
<1>8. QED
  BY <1>1, <1>5, <1>6, <1>7

\* The names of scopes and kinds are different sets.
LEMMA FlagsDiffer ==
  /\ kLocal # kGlobal /\ kLocal # kDirect /\ kGlobal # kDirect
  /\ kId # kHash /\ kId # kRange /\ kHash # kRange
  /\ kId # {} /\ kHash # {} /\ kRange # {}
<1>1. 1 \in kLocal /\ 1 \notin kGlobal /\ 1 \notin kDirect /\ 3 \in kGlobal
      /\ 3 \notin kDirect
  BY DEF kLocal, kGlobal, kDirect
<1>2. 4 \in kId /\ 4 \notin kHash /\ 4 \notin kRange /\ 5 \in kHash
      /\ 5 \notin kRange /\ 6 \in kRange
  BY DEF kId, kHash, kRange
<1>3. QED
  BY <1>1, <1>2

\* The six functions: every query they may return is a query and reads back
\* what the call asked for, whatever the words on the stack.
LEMMA ResultsRead ==
  ASSUME NEW c \in Calls, NEW q \in Results(c)
  PROVE  q \in Query /\ Reading(q) = Asked(c)
<1> /\ kGlobalContainers \in Group /\ IterSets \subseteq SUBSET Iters
    /\ {} \in SUBSET Iters /\ kBroadcast \in SUBSET Iters
  BY QueryAssumption DEF Iters
<1>1. CASE c \in [op : {"LocalId"}, sub_id : Group, x : Word, iter : {{}}]
  <2>1. c.op = "LocalId" /\ c.sub_id \in Group /\ c.x \in Word
    BY <1>1
  <2>2. q \in Fill(kLocal \cup kId, c.sub_id, {c.x}, Word)
    BY <2>1 DEF Results, GetLocalId
  <2>3. /\ q = [flags |-> q.flags, sub_id |-> q.sub_id, lo |-> q.lo, hi |-> q.hi]
        /\ q.flags = kLocal \cup kId /\ q.sub_id = c.sub_id
        /\ q.lo \in {c.x} /\ q.hi \in Word
    BY <2>2, FillFacts
  <2>4. /\ q.flags \subseteq Bits /\ Scope(q) = ScopeName(kLocal)
        /\ Selection(q) = Chosen(kId, q.lo, q.hi) /\ GetIterFlags(q) = {}
    <3>1. PICK none \in SUBSET Iters : none = {}
      OBVIOUS
    <3>2. q.flags = kLocal \cup kId \cup none
      BY <2>3, <3>1
    <3>3. kLocal \in Scopes /\ kId \in Kinds
      BY DEF Scopes, Kinds
    <3>4. ReadsAs(q, kLocal, kId, none)
      BY <3>1, <3>3, BitsRead
    <3>5. QED
      BY <3>1, <3>2, <3>4 DEF ReadsAs
  <2>5. q \in Query
    BY <2>1, <2>3, <2>4 DEF Query
  <2>6. QED
    BY <2>1, <2>3, <2>4, <2>5, FlagsDiffer
    DEF Asked, Reading, ScopeName, Chosen
<1>2. CASE c \in [op : {"Global"}, sub_id : Group, iter : IterSets]
  <2>1. c.op = "Global" /\ c.sub_id \in Group /\ c.iter \in SUBSET Iters
    BY <1>2
  <2>2. q \in Fill(kGlobal \cup c.iter, c.sub_id, Word, Word)
    BY <2>1 DEF Results, GetGlobal
  <2>3. /\ q = [flags |-> q.flags, sub_id |-> q.sub_id, lo |-> q.lo, hi |-> q.hi]
        /\ q.flags = kGlobal \cup c.iter /\ q.sub_id = c.sub_id
        /\ q.lo \in Word /\ q.hi \in Word
    BY <2>2, FillFacts
  <2>4. /\ q.flags \subseteq Bits /\ Scope(q) = ScopeName(kGlobal)
        /\ Selection(q) = Chosen({}, q.lo, q.hi) /\ GetIterFlags(q) = c.iter
    <3>1. q.flags = kGlobal \cup {} \cup c.iter
      BY <2>3
    <3>2. c.iter \in SUBSET Iters
      BY <2>1
    <3>3. kGlobal \in Scopes /\ {} \in Kinds
      BY DEF Scopes, Kinds
    <3>4. ReadsAs(q, kGlobal, {}, c.iter)
      BY <3>2, <3>3, BitsRead
    <3>5. QED
      BY <3>1, <3>4 DEF ReadsAs
  <2>5. q \in Query
    BY <2>1, <2>3, <2>4 DEF Query
  <2>6. QED
    BY <2>1, <2>3, <2>4, <2>5, FlagsDiffer
    DEF Asked, Reading, ScopeName, Chosen
<1>3. CASE c \in [op : {"Range"}, sub_id : Group, x : Word, y : Word,
                  iter : IterSets]
  <2>1. c.op = "Range" /\ c.sub_id \in Group /\ c.x \in Word /\ c.y \in Word
        /\ c.iter \in SUBSET Iters
    BY <1>3
  <2>2. q \in Fill(kGlobal \cup kRange \cup c.iter, c.sub_id, {c.x}, {c.y})
    BY <2>1 DEF Results, GetRange
  <2>3. /\ q = [flags |-> q.flags, sub_id |-> q.sub_id, lo |-> q.lo, hi |-> q.hi]
        /\ q.flags = kGlobal \cup kRange \cup c.iter /\ q.sub_id = c.sub_id
        /\ q.lo \in {c.x} /\ q.hi \in {c.y}
    BY <2>2, FillFacts
  <2>4. /\ q.flags \subseteq Bits /\ Scope(q) = ScopeName(kGlobal)
        /\ Selection(q) = Chosen(kRange, q.lo, q.hi) /\ GetIterFlags(q) = c.iter
    <3>1. q.flags = kGlobal \cup kRange \cup c.iter
      BY <2>3
    <3>2. c.iter \in SUBSET Iters
      BY <2>1
    <3>3. kGlobal \in Scopes /\ kRange \in Kinds
      BY DEF Scopes, Kinds
    <3>4. ReadsAs(q, kGlobal, kRange, c.iter)
      BY <3>2, <3>3, BitsRead
    <3>5. QED
      BY <3>1, <3>4 DEF ReadsAs
  <2>5. q \in Query
    BY <2>1, <2>3, <2>4 DEF Query
  <2>6. QED
    BY <2>1, <2>3, <2>4, <2>5, FlagsDiffer
    DEF Asked, Reading, ScopeName, Chosen
<1>4. CASE c \in [op : {"GlobalBcast"}]
  <2>1. c.op = "GlobalBcast"
    BY <1>4
  <2>2. q \in Fill(kGlobal \cup kBroadcast, kGlobalContainers, Word, Word)
    BY <2>1 DEF Results, GetGlobalBcast
  <2>3. /\ q = [flags |-> q.flags, sub_id |-> q.sub_id, lo |-> q.lo, hi |-> q.hi]
        /\ q.flags = kGlobal \cup kBroadcast /\ q.sub_id = kGlobalContainers
        /\ q.lo \in Word /\ q.hi \in Word
    BY <2>2, FillFacts
  <2>4. /\ q.flags \subseteq Bits /\ Scope(q) = ScopeName(kGlobal)
        /\ Selection(q) = Chosen({}, q.lo, q.hi) /\ GetIterFlags(q) = kBroadcast
    <3>1. q.flags = kGlobal \cup {} \cup kBroadcast
      BY <2>3
    <3>2. kBroadcast \in SUBSET Iters
      BY <2>1
    <3>3. kGlobal \in Scopes /\ {} \in Kinds
      BY DEF Scopes, Kinds
    <3>4. ReadsAs(q, kGlobal, {}, kBroadcast)
      BY <3>2, <3>3, BitsRead
    <3>5. QED
      BY <3>1, <3>4 DEF ReadsAs
  <2>5. q \in Query
    BY <2>1, <2>3, <2>4 DEF Query
  <2>6. QED
    BY <2>1, <2>3, <2>4, <2>5, FlagsDiffer
    DEF Asked, Reading, ScopeName, Chosen
<1>5. CASE c \in [op : {"DirectId", "DirectHash"}, sub_id : Group, x : Word,
                  iter : IterSets] /\ c.op = "DirectId"
  <2>1. c.op = "DirectId" /\ c.sub_id \in Group /\ c.x \in Word /\ c.iter \in SUBSET Iters
    BY <1>5
  <2>2. q \in Fill(kDirect \cup kId \cup c.iter, c.sub_id, {c.x}, Word)
    BY <2>1 DEF Results, GetDirectId
  <2>3. /\ q = [flags |-> q.flags, sub_id |-> q.sub_id, lo |-> q.lo, hi |-> q.hi]
        /\ q.flags = kDirect \cup kId \cup c.iter /\ q.sub_id = c.sub_id
        /\ q.lo \in {c.x} /\ q.hi \in Word
    BY <2>2, FillFacts
  <2>4. /\ q.flags \subseteq Bits /\ Scope(q) = ScopeName(kDirect)
        /\ Selection(q) = Chosen(kId, q.lo, q.hi) /\ GetIterFlags(q) = c.iter
    <3>1. q.flags = kDirect \cup kId \cup c.iter
      BY <2>3
    <3>2. c.iter \in SUBSET Iters
      BY <2>1
    <3>3. kDirect \in Scopes /\ kId \in Kinds
      BY DEF Scopes, Kinds
    <3>4. ReadsAs(q, kDirect, kId, c.iter)
      BY <3>2, <3>3, BitsRead
    <3>5. QED
      BY <3>1, <3>4 DEF ReadsAs
  <2>5. q \in Query
    BY <2>1, <2>3, <2>4 DEF Query
  <2>6. QED
    BY <2>1, <2>3, <2>4, <2>5, FlagsDiffer
    DEF Asked, Reading, ScopeName, Chosen
<1>6. CASE c \in [op : {"DirectId", "DirectHash"}, sub_id : Group, x : Word,
                  iter : IterSets] /\ c.op = "DirectHash"
  <2>1. c.op = "DirectHash" /\ c.sub_id \in Group /\ c.x \in Word /\ c.iter \in SUBSET Iters
    BY <1>6
  <2>2. q \in Fill(kDirect \cup kHash \cup c.iter, c.sub_id, {c.x}, Word)
    BY <2>1 DEF Results, GetDirectHash
  <2>3. /\ q = [flags |-> q.flags, sub_id |-> q.sub_id, lo |-> q.lo, hi |-> q.hi]
        /\ q.flags = kDirect \cup kHash \cup c.iter /\ q.sub_id = c.sub_id
        /\ q.lo \in {c.x} /\ q.hi \in Word
    BY <2>2, FillFacts
  <2>4. /\ q.flags \subseteq Bits /\ Scope(q) = ScopeName(kDirect)
        /\ Selection(q) = Chosen(kHash, q.lo, q.hi) /\ GetIterFlags(q) = c.iter
    <3>1. q.flags = kDirect \cup kHash \cup c.iter
      BY <2>3
    <3>2. c.iter \in SUBSET Iters
      BY <2>1
    <3>3. kDirect \in Scopes /\ kHash \in Kinds
      BY DEF Scopes, Kinds
    <3>4. ReadsAs(q, kDirect, kHash, c.iter)
      BY <3>2, <3>3, BitsRead
    <3>5. QED
      BY <3>1, <3>4 DEF ReadsAs
  <2>5. q \in Query
    BY <2>1, <2>3, <2>4 DEF Query
  <2>6. QED
    BY <2>1, <2>3, <2>4, <2>5, FlagsDiffer
    DEF Asked, Reading, ScopeName, Chosen
<1>7. QED
  BY <1>1, <1>2, <1>3, <1>4, <1>5, <1>6 DEF Calls

\* The constructor's empty query is none that a function returns.
LEMMA NoQueryIsNone == NoQuery \notin Query
<1>1. DOMAIN NoQuery = {"flags"}
  BY DEF NoQuery
<1>2. \A q \in Query : DOMAIN q = {"flags", "sub_id", "lo", "hi"}
  BY DEF Query
<1>3. QED
  BY <1>1, <1>2
-----------------------------------------------------------------------------
\* Making and copying queries keeps QueryInv.
LEMMA QueryInvHolds == Spec => []QueryInv
<1>1. Init => QueryInv
  BY DEF Init, QueryInv, TypeOK, MadeInv
<1>2. QueryInv /\ [Next]_vars => QueryInv'
  <2> SUFFICES ASSUME QueryInv, [Next]_vars PROVE QueryInv'
    OBVIOUS
  <2> USE DEF QueryInv, TypeOK, MadeInv
  <2>1. ASSUME NEW s \in Slot, NEW c \in Calls, Make(s, c) PROVE QueryInv'
    <3>1. PICK q \in Results(c) :
            query' = [query EXCEPT ![s] = q]
      BY <2>1 DEF Make
    <3>2. q \in Query
      BY ResultsRead
    <3>3. made' = [made EXCEPT ![s] = c]
      BY <2>1 DEF Make
    <3>4. query'[s] = q /\ made'[s] = c
      BY <3>1, <3>3
    <3>5. \A t \in Slot : t # s => query'[t] = query[t] /\ made'[t] = made[t]
      BY <3>1, <3>3
    <3>6. TypeOK'
      BY <3>1, <3>2, <3>3
    <3>7. MadeInv'
      BY <3>4, <3>5
    <3>8. QED
      BY <3>6, <3>7
  <2>2. ASSUME NEW s \in Slot, NEW t \in Slot, Copy(s, t) PROVE QueryInv'
    <3>1. /\ query' = [query EXCEPT ![t] = query[s]]
          /\ made' = [made EXCEPT ![t] = made[s]]
          /\ query[s] # NoQuery
      BY <2>2 DEF Copy
    <3>2. TypeOK'
      BY <3>1
    <3>3. \A u \in Slot : query'[u] = query[IF u = t THEN s ELSE u]
                          /\ made'[u] = made[IF u = t THEN s ELSE u]
      BY <3>1
    <3>4. MadeInv'
      BY <3>3
    <3>5. QED
      BY <3>2, <3>4
  <2>3. CASE UNCHANGED vars
    BY <2>3 DEF vars
  <2>4. QED
    BY <2>1, <2>2, <2>3 DEF Next
<1>3. QED
  BY <1>1, <1>2, PTL DEF Spec

\* TypeOK of DomainQuery: every function, copy and move leaves queries of the
\* struct's fields in the slots.
THEOREM TypeCorrect == Spec => []TypeOK
<1>1. QueryInv => TypeOK
  BY DEF QueryInv
<1>2. QED
  BY <1>1, QueryInvHolds, PTL

\* ReadsBack: scope, subdomain, selection and iteration flags of a query are
\* those of the GetXxx call that made it, after any copies.
THEOREM QueriesReadBack == Spec => []ReadsBack
<1>1. QueryInv => ReadsBack
  BY ResultsRead DEF QueryInv, MadeInv, ReadsBack, Filled, Reading
<1>2. QED
  BY <1>1, QueryInvHolds, PTL

\* EqualIsSafe: queries that operator== takes for one were asked for alike and
\* hash alike.
THEOREM EqualQueriesAgree == Spec => []EqualIsSafe
<1>1. QueryInv => EqualIsSafe
  <2> SUFFICES ASSUME QueryInv,
                      NEW s \in Filled, NEW t \in Filled,
                      Same(query[s], query[t])
               PROVE  /\ Asked(made[s]) = Asked(made[t])
                      /\ Hash(query[s]) = Hash(query[t])
    BY DEF EqualIsSafe
  <2>1. /\ made[s] \in Calls /\ query[s] \in Results(made[s])
        /\ made[t] \in Calls /\ query[t] \in Results(made[t])
    BY DEF QueryInv, MadeInv, Filled
  <2>2. /\ Reading(query[s]) = Asked(made[s])
        /\ Reading(query[t]) = Asked(made[t])
    BY <2>1, ResultsRead
  <2>3. Reading(query[s]) = Reading(query[t])
    BY DEF Same, Reading, Scope, Selection, GetIterFlags
  <2>4. Hash(query[s]) = Hash(query[t])
    BY DEF Same, Hash
  <2>5. QED
    BY <2>2, <2>3, <2>4
<1>2. QED
  BY <1>1, QueryInvHolds, PTL
=============================================================================
