---------------------------- MODULE DomainQuery -----------------------------
(***************************************************************************)
(* struct DomainQuery of chimaera_types.h: the scheduling domain of a      *)
(* task, made by one of six static functions, copied, compared, hashed and *)
(* printed.  Its selection is a union of a 64-bit integer, a 32-bit word   *)
(* (id or hash) and a range of two words; a function that sets no word, or *)
(* one of the two, leaves the others as they are on the stack.             *)
(*                                                                         *)
(* flags is the set of bits that are on.                                   *)
(* An operator F_Variant next to an operator F is a plausible defect of F. *)
(***************************************************************************)
EXTENDS Naturals

CONSTANTS
  Slot,     \* variables of the program that hold a query
  Group,    \* subdomains to consider, kGlobalContainers among them
  Word,     \* values of a 32-bit word to consider
  IterSets  \* arguments iter_flags to consider, as sets of bits

kLocal == {1}
kDirect == {2}
kGlobal == {3}
kId == {4}
kHash == {5}
kRange == {6}
kBroadcast == {15}
kForwardToLeader == {17}
kRepUntilSuccess == {18}
kChooseOne == {19}
kGlobalContainers == 1

Iters == kBroadcast \cup kRepUntilSuccess \cup kChooseOne \cup kForwardToLeader
Bits == Iters \cup kLocal \cup kDirect \cup kGlobal
              \cup kId \cup kHash \cup kRange

ASSUME QueryAssumption ==
  /\ kGlobalContainers \in Group
  /\ IterSets \subseteq SUBSET Iters

VARIABLES
  query,  \* query[s]: the query in slot s, or NoQuery
  made    \* history: made[s], the call that made it

vars == <<query, made>>

Query == [flags : SUBSET Bits, sub_id : Group, lo : Word, hi : Word]
NoQuery == [flags |-> {}]

\* A call of one of the functions: iter is {} where there is no argument.
Calls ==
  [op : {"LocalId"}, sub_id : Group, x : Word, iter : {{}}]
  \cup [op : {"Global"}, sub_id : Group, iter : IterSets]
  \cup [op : {"Range"}, sub_id : Group, x : Word, y : Word, iter : IterSets]
  \cup [op : {"GlobalBcast"}]
  \cup [op : {"DirectId", "DirectHash"}, sub_id : Group, x : Word,
        iter : IterSets]

Init ==
  /\ query = [s \in Slot |-> NoQuery]
  /\ made = [s \in Slot |-> [op |-> "none"]]
-----------------------------------------------------------------------------
\* The queries each function may return, stack words included.
Fill(flags, sub_id, los, his) ==
  {[flags |-> flags, sub_id |-> sub_id, lo |-> l, hi |-> h] :
     l \in los, h \in his}

GetLocalId(sub_id, id) == Fill(kLocal \cup kId, sub_id, {id}, Word)

GetGlobal(sub_id, iter) == Fill(kGlobal \cup iter, sub_id, Word, Word)

GetRange_End(sub_id, off, count, iter) ==
  Fill(kGlobal \cup kRange \cup iter, sub_id, {off}, {off + count})

GetRange(sub_id, off, count, iter) ==
  Fill(kGlobal \cup kRange \cup iter, sub_id, {off}, {count})

GetGlobalBcast == Fill(kGlobal \cup kBroadcast, kGlobalContainers, Word, Word)

GetDirectId(sub_id, id, iter) ==
  Fill(kDirect \cup kId \cup iter, sub_id, {id}, Word)

GetDirectHash_AsId(sub_id, hash, iter) ==
  Fill(kDirect \cup kId \cup iter, sub_id, {hash}, Word)

GetDirectHash(sub_id, hash, iter) ==
  Fill(kDirect \cup kHash \cup iter, sub_id, {hash}, Word)

Results(c) ==
  CASE c.op = "LocalId" -> GetLocalId(c.sub_id, c.x)
    [] c.op = "Global" -> GetGlobal(c.sub_id, c.iter)
    [] c.op = "Range" -> GetRange(c.sub_id, c.x, c.y, c.iter)
    [] c.op = "GlobalBcast" -> GetGlobalBcast
    [] c.op = "DirectId" -> GetDirectId(c.sub_id, c.x, c.iter)
    [] c.op = "DirectHash" -> GetDirectHash(c.sub_id, c.x, c.iter)

Make(s, c) ==
  /\ query' \in {[query EXCEPT ![s] = q] : q \in Results(c)}
  /\ made' = [made EXCEPT ![s] = c]

\* Copy and move, by constructor or assignment: all three members.
Copy(s, t) ==
  /\ query[s] # NoQuery
  /\ query' = [query EXCEPT ![t] = query[s]]
  /\ made' = [made EXCEPT ![t] = made[s]]

Next ==
  \/ \E s \in Slot, c \in Calls : Make(s, c)
  \/ \E s, t \in Slot : Copy(s, t)

Spec == Init /\ [][Next]_vars
-----------------------------------------------------------------------------
Same_NoSel(p, q) == p.flags = q.flags /\ p.sub_id = q.sub_id

\* operator== and Hash: the hash depends on these values.
Same(p, q) ==
  /\ p.flags = q.flags
  /\ p.sub_id = q.sub_id
  /\ p.lo = q.lo /\ p.hi = q.hi
Hash(q) == <<q.flags, q.sub_id, q.lo, q.hi>>

\* GetIterFlags.
GetIterFlags(q) == q.flags \cap Iters

\* operator<<: scope, kind of selection and what it prints of the selection.
Scope(q) ==
  IF kLocal \subseteq q.flags THEN "local"
  ELSE IF kGlobal \subseteq q.flags THEN "global"
  ELSE IF kDirect \subseteq q.flags THEN "direct" ELSE ""
Selection(q) ==
  IF kId \subseteq q.flags THEN <<"id", q.lo>>
  ELSE IF kHash \subseteq q.flags THEN <<"hash", q.lo>>
  ELSE IF kRange \subseteq q.flags THEN <<"range", q.lo, q.hi>> ELSE <<"">>
-----------------------------------------------------------------------------
\* What a call asks for: scope, subdomain, selection and iteration.
Asked(c) ==
  CASE c.op = "LocalId" -> <<"local", c.sub_id, <<"id", c.x>>, {}>>
    [] c.op = "Global" -> <<"global", c.sub_id, <<"">>, c.iter>>
    [] c.op = "Range" -> <<"global", c.sub_id, <<"range", c.x, c.y>>, c.iter>>
    [] c.op = "GlobalBcast" ->
         <<"global", kGlobalContainers, <<"">>, kBroadcast>>
    [] c.op = "DirectId" -> <<"direct", c.sub_id, <<"id", c.x>>, c.iter>>
    [] c.op = "DirectHash" -> <<"direct", c.sub_id, <<"hash", c.x>>, c.iter>>

Filled == {s \in Slot : query[s] # NoQuery}

\* Type invariant of the queries and the calls that made them.
TypeOK ==
  /\ query \in [Slot -> Query \cup {NoQuery}]
  /\ made \in [Slot -> Calls \cup {[op |-> "none"]}]

\* A reader of a query, after any number of copies, finds what the call asked
\* for and never a word of the stack.
ReadsBack ==
  \A s \in Filled :
    <<Scope(query[s]), query[s].sub_id, Selection(query[s]),
      GetIterFlags(query[s])>> = Asked(made[s])

\* operator== never takes queries for one that ask for different things, and
\* equal queries hash alike, as std::unordered_map requires.
EqualIsSafe ==
  \A s, t \in Filled :
    Same(query[s], query[t]) =>
      /\ Asked(made[s]) = Asked(made[t])
      /\ Hash(query[s]) = Hash(query[t])
-----------------------------------------------------------------------------
\* "Equality operator": queries that ask for the same are equal.
SameIsEqual ==
  \A s, t \in Filled :
    Asked(made[s]) = Asked(made[t]) => Same(query[s], query[t])
=============================================================================
