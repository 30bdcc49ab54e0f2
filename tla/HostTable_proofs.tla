------------------------- MODULE HostTable_proofs --------------------------
(***************************************************************************)
(* Theorems about HostTable for any number of machines, any host files and *)
(* any resolver.                                                           *)
(***************************************************************************)
EXTENDS HostTable, TLAPS

\* What each machine's loops have established so far.  Resolving: a line's
\* address is an answer for that line.  Searching: no earlier line is local.
\* Found: the machine's own line is in the table and is local; except in a
\* local test, the table is the whole host file.
TableOf(m) ==
  /\ pc[m] = "resolve" => nodeId[m] = 1
  /\ (pc[m] = "ready" /\ localOnly) => Len(hosts[m]) = 1
  /\ (pc[m] # "ready" \/ ~localOnly) =>
       \A i \in 1 .. Len(hosts[m]) : hosts[m][i].ip \in Answers[file[i]]
  /\ (pc[m] \in {"find", "reset"} \/ (pc[m] = "ready" /\ ~localOnly)) =>
       Len(hosts[m]) = Len(file)
  /\ pc[m] \in {"reset", "ready"} =>
       /\ nodeId[m] \in 1 .. Len(hosts[m])
       /\ hosts[m][nodeId[m]].ip \in Local[m]
  /\ (pc[m] \in {"find", "reset"} \/ (pc[m] = "ready" /\ ~localOnly)) =>
       \A i \in 1 .. Len(hosts[m]) :
         hosts[m][i].ip \in Local[m] => nodeId[m] <= i

TableInv == \A m \in Machine : TableOf(m)

ShapeInv ==
  /\ file \in Seq(Name)
  /\ TypeOK
  /\ pc \in [Machine -> {"resolve", "find", "reset", "ready", "fatal"}]
  /\ hosts \in [Machine -> Seq(Host)]
  /\ nodeId \in [Machine -> Nat]

IInv == ShapeInv /\ TableInv

\* The invariant of the loops holds initially and is kept by each of them.
LEMMA IInvInductive ==
  /\ Init => IInv
  /\ IInv /\ [Next]_vars => IInv'
<1> USE HostAssumption
<1>1. Init => IInv
  <2> SUFFICES ASSUME Init
               PROVE  IInv
    OBVIOUS
  <2>1. file \in Seq(Name)
    BY DEF Init
  <2>2. ShapeInv
    BY <2>1 DEF Init, ShapeInv, TypeOK, ShapeOK
  <2> QED BY <2>2 DEF Init, IInv, TableInv, TableOf
<1>2. ASSUME IInv, [Next]_vars
      PROVE  IInv'
  <2> USE <1>2 DEF IInv, ShapeInv, TypeOK, ShapeOK
  <2>1. ASSUME NEW m \in Machine, Resolve(m)
        PROVE  IInv'
    <3> DEFINE k == Len(hosts[m]) + 1
    <3>1. /\ pc[m] = "resolve"
          /\ k \in 1 .. Len(file)
          /\ file[k] \in Name
          /\ UNCHANGED <<file, localOnly, nodeId>>
      BY <2>1 DEF Resolve
    <3>2. CASE UNCHANGED hosts /\ pc' = [pc EXCEPT ![m] = "fatal"]
      <4>1. ShapeInv'
        BY <3>1, <3>2
      <4>2. TableInv'
        BY <3>1, <3>2 DEF TableInv, TableOf
      <4> QED BY <4>1, <4>2
    <3>3. ASSUME NEW a \in Answers[file[k]], UNCHANGED pc,
                 hosts' = [hosts EXCEPT ![m] =
                   Append(hosts[m],
                          [hostname |-> file[k], ip |-> a, id |-> k])]
          PROVE  IInv'
      <4> DEFINE h == [hostname |-> file[k], ip |-> a, id |-> k]
      <4>1. a \in Addr /\ h \in Host
        BY <3>1 DEF Host
      <4>2. /\ hosts'[m] \in Seq(Host)
            /\ Len(hosts'[m]) = k
            /\ hosts'[m][k] = h
            /\ \A i \in 1 .. Len(hosts[m]) : hosts'[m][i] = hosts[m][i]
        BY <3>3, <4>1
      <4>3. /\ \A q \in Machine : q # m => hosts'[q] = hosts[q]
            /\ hosts' \in [Machine -> Seq(Host)]
        BY <3>3, <4>2
      <4>4. ShapeInv'
        BY <3>1, <3>3, <4>2, <4>3
      <4>5. TableInv'
        BY <3>1, <3>3, <4>2, <4>3 DEF TableInv, TableOf
      <4> QED BY <4>4, <4>5
    <3> QED BY <2>1, <3>1, <3>2, <3>3 DEF Resolve, Goto
  <2>2. ASSUME NEW m \in Machine, Resolved(m)
        PROVE  IInv'
    <3>1. ShapeInv'
      BY <2>2 DEF Resolved, Goto
    <3>2. TableInv'
      BY <2>2 DEF Resolved, Goto, TableInv, TableOf
    <3> QED BY <3>1, <3>2
  <2>3. ASSUME NEW m \in Machine, FindThisHost(m)
        PROVE  IInv'
    <3> DEFINE i == nodeId[m]
    <3>2. /\ pc[m] = "find"
          /\ i \in Nat
          /\ Len(hosts[m]) \in Nat
          /\ Len(file) \in Nat
          /\ UNCHANGED <<file, localOnly, hosts>>
      BY <2>3 DEF FindThisHost
    <3>1. ShapeInv'
      <4>1. /\ UNCHANGED nodeId \/ (/\ i <= Len(hosts[m])
                                    /\ nodeId' = [nodeId EXCEPT ![m] = i + 1])
            /\ pc' \in [Machine -> {"resolve", "find", "reset", "ready", "fatal"}]
        BY <2>3 DEF FindThisHost, Goto
      <4>2. i <= Len(hosts[m]) => i + 1 \in 1 .. Len(file) + 1
        BY <3>2
      <4>3. /\ nodeId' \in [Machine -> Nat]
            /\ \A q \in Machine : nodeId'[q] \in 1 .. Len(file) + 1
        <5>1. CASE UNCHANGED nodeId
          BY <5>1
        <5>2. CASE /\ i <= Len(hosts[m])
                   /\ nodeId' = [nodeId EXCEPT ![m] = i + 1]
          <6>1. i + 1 \in Nat /\ i + 1 \in 1 .. Len(file) + 1
            BY <5>2, <3>2, <4>2
          <6>2. \A q \in Machine :
                  nodeId'[q] = IF q = m THEN i + 1 ELSE nodeId[q]
            BY <5>2
          <6>3. nodeId' \in [Machine -> Nat]
            BY <5>2, <6>1
          <6> HIDE DEF i
          <6> QED BY <6>1, <6>2, <6>3
        <5> QED BY <4>1, <5>1, <5>2
      <4>4. \A q \in Machine :
              /\ Len(hosts'[q]) <= Len(file')
              /\ \A j \in 1 .. Len(hosts'[q]) : hosts'[q][j].id = j
              /\ nodeId'[q] \in 1 .. Len(file') + 1
        BY <3>2, <4>3
      <4> QED BY <3>2, <4>1, <4>3, <4>4
    <3>3. CASE UNCHANGED nodeId /\ pc' = [pc EXCEPT ![m] = "fatal"]
      <4>1. TableInv'
        BY <3>2, <3>3 DEF TableInv, TableOf
      <4> QED BY <3>1, <4>1
    <3>4. CASE /\ i <= Len(hosts[m])
               /\ hosts[m][i].ip \in Local[m]
               /\ UNCHANGED nodeId
               /\ pc' = [pc EXCEPT ![m] = "reset"]
      <4>1. i \in 1 .. Len(hosts[m])
        BY <3>2, <3>4
      <4>2. TableInv'
        BY <3>2, <3>4, <4>1 DEF TableInv, TableOf
      <4> QED BY <3>1, <4>2
    <3>5. CASE /\ i <= Len(hosts[m])
               /\ hosts[m][i].ip \notin Local[m]
               /\ nodeId' = [nodeId EXCEPT ![m] = i + 1]
               /\ UNCHANGED pc
      <4>1. \A j \in 1 .. Len(hosts[m]) :
              hosts[m][j].ip \in Local[m] => i + 1 <= j
        <5> SUFFICES ASSUME NEW j \in 1 .. Len(hosts[m]),
                            hosts[m][j].ip \in Local[m]
                     PROVE  i + 1 <= j
          OBVIOUS
        <5>1. i <= j
          BY <3>2 DEF TableInv, TableOf
        <5>2. i # j
          BY <3>5
        <5> QED BY <5>1, <5>2, <3>2
      <4>2. TableInv'
        BY <3>2, <3>5, <4>1 DEF TableInv, TableOf
      <4> QED BY <3>1, <4>2
    <3> QED BY <2>3, <3>3, <3>4, <3>5 DEF FindThisHost, Goto
  <2>4. ASSUME NEW m \in Machine, ResetIds(m)
        PROVE  IInv'
    <3>1. /\ pc[m] = "reset"
          /\ nodeId[m] \in 1 .. Len(hosts[m])
          /\ hosts[m][nodeId[m]].ip \in Local[m]
          /\ pc' = [pc EXCEPT ![m] = "ready"]
          /\ UNCHANGED <<file, localOnly>>
      BY <2>4 DEF ResetIds, Goto, TableInv, TableOf
    <3>2. CASE ~localOnly
      <4>1. UNCHANGED <<hosts, nodeId>>
        BY <2>4, <3>2 DEF ResetIds
      <4> QED BY <3>1, <3>2, <4>1 DEF TableInv, TableOf
    <3>3. CASE localOnly
      <4> DEFINE h == [hosts[m][nodeId[m]] EXCEPT !.id = 1]
      <4>1. /\ hosts' = [hosts EXCEPT ![m] = <<h>>]
            /\ nodeId' = [nodeId EXCEPT ![m] = 1]
        BY <2>4, <3>3 DEF ResetIds
      <4>2. hosts[m][nodeId[m]] \in Host
        BY <3>1
      <4>3. h \in Host /\ h.id = 1 /\ h.ip \in Local[m]
        BY <4>2, <3>1 DEF Host
      <4>4. /\ <<h>> \in Seq(Host)
            /\ Len(<<h>>) = 1
            /\ <<h>>[1] = h
            /\ Len(file) \in Nat
            /\ Len(hosts[m]) <= Len(file)
            /\ Len(hosts[m]) \in Nat
        BY <4>3
      <4> HIDE DEF h
      <4>5. /\ hosts'[m] = <<h>>
            /\ nodeId'[m] = 1
            /\ \A q \in Machine : q # m => /\ hosts'[q] = hosts[q]
                                           /\ nodeId'[q] = nodeId[q]
                                           /\ pc'[q] = pc[q]
            /\ pc'[m] = "ready"
        BY <3>1, <4>1
      <4>6. ShapeInv'
        <5>1. hosts' \in [Machine -> Seq(Host)]
          BY <4>1, <4>4
        <5>2. nodeId' \in [Machine -> Nat]
          BY <4>1
        <5>3. \A q \in Machine :
                /\ Len(hosts'[q]) <= Len(file)
                /\ \A j \in 1 .. Len(hosts'[q]) : hosts'[q][j].id = j
                /\ nodeId'[q] \in 1 .. Len(file) + 1
          <6> TAKE q \in Machine
          <6>1. CASE q = m
            <7>1. Len(<<h>>) <= Len(file) /\ 1 \in 1 .. Len(file) + 1
              BY <3>1, <4>4
            <7>2. \A j \in 1 .. Len(<<h>>) : <<h>>[j].id = j
              BY <4>3, <4>4
            <7> QED BY <6>1, <4>5, <7>1, <7>2
          <6>2. CASE q # m
            BY <6>2, <4>5
          <6> QED BY <6>1, <6>2
        <5> QED BY <3>1, <5>1, <5>2, <5>3
      <4>7. 1 \in 1 .. Len(<<h>>) /\ <<h>>[1].ip \in Local[m]
        BY <4>3, <4>4
      <4>8. localOnly' /\ file' = file
        BY <3>1, <3>3
      <4>9. TableInv'
        <5> SUFFICES ASSUME NEW q \in Machine
                     PROVE  TableOf(q)'
          BY DEF TableInv
        <5>1. CASE q = m
          BY <5>1, <4>4, <4>5, <4>7, <4>8 DEF TableOf
        <5>2. CASE q # m
          <6>1. TableOf(q)
            BY DEF TableInv
          <6>2. /\ hosts'[q] = hosts[q]
                /\ nodeId'[q] = nodeId[q]
                /\ pc'[q] = pc[q]
                /\ UNCHANGED <<file, localOnly>>
            BY <5>2, <4>5, <3>1
          <6> QED BY <6>1, <6>2 DEF TableOf
        <5> QED BY <5>1, <5>2
      <4> QED BY <4>6, <4>9
    <3> QED BY <3>2, <3>3
  <2>5. CASE UNCHANGED vars
    BY <2>5 DEF vars, TableInv, TableOf
  <2> QED BY <2>1, <2>2, <2>3, <2>4, <2>5 DEF Next
<1> QED BY <1>1, <1>2

\* With a sane host file the machines' tables agree on every machine's address.
LEMMA SameAnswer ==
  ASSUME IInv, Sane, ~localOnly,
         NEW m \in Machine, NEW q \in Machine, Ready(m), Ready(q)
  PROVE  hosts[m][nodeId[q]].ip = hosts[q][nodeId[q]].ip
<1> DEFINE k == nodeId[q]
<1>1. k \in 1 .. Len(file) /\ Len(hosts[m]) = Len(file)
                          /\ Len(hosts[q]) = Len(file)
  BY DEF IInv, TableInv, TableOf, Ready
<1>2. hosts[m][k].ip \in Answers[file[k]] /\ hosts[q][k].ip \in Answers[file[k]]
  BY <1>1 DEF IInv, TableInv, TableOf, Ready
<1>3. \A a, b \in Answers[file[k]] : a = b
  BY <1>1 DEF Sane
<1> HIDE DEF k
<1>4. hosts[m][k].ip = hosts[q][k].ip
  BY <1>2, <1>3
<1> QED BY <1>4 DEF k

\* A call to a node id goes to the machine that has that id.
THEOREM CallsReachTheirNode == Spec => []RoutesToSelf
<1>1. Spec => []IInv
  BY IInvInductive, PTL DEF Spec
<1>2. ASSUME IInv
      PROVE  RoutesToSelf
  <2> SUFFICES ASSUME NEW m \in Machine, Ready(m)
               PROVE  /\ nodeId[m] <= NumHosts(m)
                      /\ GetIpAddressFromNodeId(m, nodeId[m]) \in Local[m]
                      /\ (Sane /\ ~localOnly) =>
                           \A q \in Machine : Ready(q) =>
                             GetIpAddressFromNodeId(m, nodeId[q]) \in Local[q]
    BY DEF RoutesToSelf
  <2>1. /\ nodeId[m] \in 1 .. Len(hosts[m])
        /\ hosts[m][nodeId[m]].ip \in Local[m]
    BY <1>2 DEF IInv, TableInv, TableOf, Ready
  <2>2. ASSUME Sane, ~localOnly, NEW q \in Machine, Ready(q)
        PROVE  hosts[m][nodeId[q]].ip = hosts[q][nodeId[q]].ip
    BY <1>2, <2>2, SameAnswer DEF IInv, TableInv, TableOf, Ready
  <2>3. ASSUME NEW q \in Machine, Ready(q)
        PROVE  hosts[q][nodeId[q]].ip \in Local[q]
    BY <1>2, <2>3 DEF IInv, TableInv, TableOf, Ready
  <2>4. nodeId[m] <= NumHosts(m)
    BY <2>1 DEF NumHosts
  <2> QED BY <2>1, <2>2, <2>3, <2>4 DEF GetIpAddressFromNodeId
<1> QED BY <1>1, <1>2, PTL

\* No two machines of a sane host file have the same id.
THEOREM IdsAreUnique == Spec => []UniqueIds
<1>1. Spec => []IInv
  BY IInvInductive, PTL DEF Spec
<1>2. ASSUME IInv
      PROVE  UniqueIds
  <2> SUFFICES ASSUME Sane, ~localOnly, NEW m \in Machine, NEW q \in Machine,
                      Ready(m), Ready(q), nodeId[m] = nodeId[q]
               PROVE  m = q
    BY DEF UniqueIds
  <2> DEFINE k == nodeId[m]
  <2>1. /\ k \in 1 .. Len(file)
        /\ hosts[m][k].ip \in Answers[file[k]]
        /\ hosts[m][k].ip \in Local[m]
        /\ hosts[q][k].ip \in Local[q]
    BY <1>2 DEF IInv, TableInv, TableOf, Ready
  <2>2. hosts[m][k].ip = hosts[q][k].ip
    BY <1>2, SameAnswer
  <2>3. \A a \in Answers[file[k]] : a \in Local[m] /\ a \in Local[q] => m = q
    BY <2>1 DEF Sane
  <2> QED BY <2>1, <2>2, <2>3
<1> QED BY <1>1, <1>2, PTL

\* Every machine's table and counter stay well formed while its loops run.
THEOREM TablesWellFormed == Spec => []TypeOK
<1>1. Spec => []IInv
  BY IInvInductive, PTL DEF Spec
<1>2. IInv => TypeOK
  BY DEF IInv, ShapeInv
<1> QED BY <1>1, <1>2, PTL

\* _FindThisHost returns the first line of the host file that is local, so a
\* machine with several lines is one node.
THEOREM FirstLineIsTaken == Spec => []FirstLineWins
<1>1. Spec => []IInv
  BY IInvInductive, PTL DEF Spec
<1>2. ASSUME IInv
      PROVE  FirstLineWins
  <2> SUFFICES ASSUME NEW m \in Machine, Ready(m), ~localOnly,
                      NEW i \in 1 .. NumHosts(m),
                      GetIpAddressFromNodeId(m, i) \in Local[m]
               PROVE  nodeId[m] <= i
    BY DEF FirstLineWins
  <2>1. TableOf(m) /\ i \in 1 .. Len(hosts[m]) /\ hosts[m][i].ip \in Local[m]
    BY <1>2 DEF IInv, TableInv, NumHosts, GetIpAddressFromNodeId
  <2> QED BY <2>1 DEF TableOf, Ready
<1> QED BY <1>1, <1>2, PTL
=============================================================================
