-------------------------- MODULE HostSetup_proofs ---------------------------
(***************************************************************************)
(* Theorems about NetFind and HostSetup for any number of ranks on any     *)
(* machines: what chi_net_find leaves in the host file, and which machine  *)
(* takes which node id from it.  What ServerInit does with a host file is  *)
(* HostTable's; its invariant is used as HostTable_proofs has proved it.   *)
(***************************************************************************)
EXTENDS HostSetup, FiniteSetTheorems, SequenceTheorems, WellFoundedInduction, TLAPS

\* Table again, with all that is proved of it.
Nodes == INSTANCE HostTable_proofs WITH
  file <- HostNames,
  localOnly <- args.local,
  Name <- Addr \cup {Localhost},
  Answers <- [n \in Addr \cup {Localhost} |->
                IF n = Localhost THEN {Loopback} ELSE {n}],
  HostFiles <- Seq(Addr \cup {Localhost})

\* The ranks below i that have an address.
Listed(i) == {q \in Rank : q < i /\ ip[q] # NoAddr}

\* An address is one of the fabric asked for on the rank's machine.
FoundInv ==
  \A r \in Rank : ip[r] # NoAddr =>
    /\ stage[r] # "find"
    /\ \E k \in DOMAIN infos[home[r]] :
         infos[home[r]][k].wanted /\ infos[home[r]][k].addr = ip[r]

\* Rank 0 writes when all addresses are there.
StageInv ==
  /\ \A r \in Rank : stage[r] = "write" => r = 0
  /\ stage[0] \in {"find", "gather"} => line = 0 /\ ~opened
  /\ stage[0] \in {"write", "done"} => \A r \in Rank : stage[r] # "find"
  /\ stage[0] = "done" => line = Size

\* The lines written so far are the addresses of the ranks up to line, each
\* on the line that counts them.
FileInv ==
  (stage[0] \in {"write", "done"} /\ opened) =>
    /\ Len(outfile) = Cardinality(Listed(line))
    /\ \A r \in Listed(line) :
         LineOf(r) \in 1 .. Len(outfile) /\ outfile[LineOf(r)] = ip[r]
    /\ \A k \in 1 .. Len(outfile) :
         \E r \in Listed(line) : LineOf(r) = k

\* A file that has not been opened is as it was.
OldInv == ~opened => outfile \in OldFiles

FindInv == FindTypeOK /\ FoundInv /\ StageInv /\ FileInv /\ OldInv

\* No machine starts its program before chi_net_find is done.
NotStarted ==
  /\ pc = [m \in Machine |-> IF args.complete THEN "resolve" ELSE "fatal"]
  /\ hosts = [m \in Machine |-> <<>>]
  /\ nodeId = [m \in Machine |-> 1]

\* Every address of a table is a line of the host file.
FromFile ==
  args.path =>
    \A m \in Machine : \A i \in 1 .. Len(hosts[m]) :
      \E k \in 1 .. Len(outfile) : hosts[m][i].ip = outfile[k]

\* A program is not fatal on a machine that has a line and its fabric.
StaysUp ==
  /\ OwnAddresses /\ opened /\ args.complete /\ args.path
  => \A r \in Rank :
       (ip[r] # NoAddr /\ home[r] \notin NoFabric) => pc[home[r]] # "fatal"

TablesInv == Nodes!IInv /\ FromFile /\ StaysUp

SetupInv ==
  /\ FindInv
  /\ args \in Args
  /\ ~FindDone => NotStarted
  /\ FindDone => TablesInv
-----------------------------------------------------------------------------
\* A set of natural numbers has a least element.
LEMMA LeastExists ==
  ASSUME NEW S \in SUBSET Nat, S # {}
  PROVE  Min(S) \in S
<1>1. PICK x \in S : \A y \in S : ~(<<y, x>> \in OpToRel(<, Nat))
  BY NatLessThanWellFounded, WFMin
<1>2. \A y \in S : ~(y < x)
  BY <1>1 DEF OpToRel
<1>3. \A y \in S : x <= y
  BY <1>2
<1>4. QED
  BY <1>3 DEF Min

\* What find_ip_from_fabric returns is an address of the list, on the fabric
\* asked for, or the empty string.
LEMMA FoundIsWanted ==
  ASSUME NEW list \in Seq(Entry), NEW a, a = find_ip_from_fabric(list)
  PROVE  /\ a \in Addr \cup {NoAddr}
         /\ a # NoAddr =>
              \E k \in DOMAIN list : list[k].wanted /\ list[k].addr = a
<1>1. CASE Hits(list) = {}
  BY <1>1 DEF find_ip_from_fabric
<1>2. CASE Hits(list) # {}
  <2>1. Hits(list) \in SUBSET Nat
    BY DEF Hits
  <2>2. Min(Hits(list)) \in Hits(list)
    BY <1>2, <2>1, LeastExists
  <2>3. PICK k \in DOMAIN list :
          list[k].wanted /\ list[k].addr # NoAddr /\ a = list[k].addr
    BY <1>2, <2>2 DEF find_ip_from_fabric, Hits
  <2>4. list[k] \in Entry
    BY <2>3
  <2>5. QED
    BY <2>3, <2>4 DEF Entry
<1>3. QED
  BY <1>1, <1>2

\* The ranks with an address are counted one by one.
LEMMA Counting ==
  ASSUME ip \in [Rank -> Addr \cup {NoAddr}]
  PROVE  /\ \A i \in 0 .. Size : /\ IsFiniteSet(Listed(i))
                                 /\ Cardinality(Listed(i)) \in Nat
         /\ Listed(0) = {} /\ Cardinality(Listed(0)) = 0
         /\ \A r \in Rank : LineOf(r) = Cardinality(Listed(r + 1))
         /\ \A i, j \in 0 .. Size :
              i <= j => Cardinality(Listed(i)) <= Cardinality(Listed(j))
         /\ \A r \in Rank :
              IF ip[r] = NoAddr
                THEN Listed(r + 1) = Listed(r)
                ELSE /\ Listed(r + 1) = Listed(r) \cup {r}
                     /\ LineOf(r) = Cardinality(Listed(r)) + 1
<1> USE FindAssumption
<1>1. IsFiniteSet(Rank)
  BY FS_Interval DEF Rank
<1>2. ASSUME NEW i \in 0 .. Size
      PROVE  IsFiniteSet(Listed(i)) /\ Cardinality(Listed(i)) \in Nat
  <2>1. Listed(i) \subseteq Rank
    BY DEF Listed
  <2>2. QED
    BY <1>1, <2>1, FS_Subset, FS_CardinalityType
<1>3. Listed(0) = {}
  BY DEF Listed, Rank
<1>4. Cardinality(Listed(0)) = 0
  BY <1>3, FS_EmptySet
<1>5. ASSUME NEW r \in Rank
      PROVE  LineOf(r) = Cardinality(Listed(r + 1))
  <2>1. {q \in 0 .. r : ip[q] # NoAddr} = Listed(r + 1)
    BY DEF Listed, Rank
  <2>2. QED
    BY <2>1 DEF LineOf
<1>6. ASSUME NEW i \in 0 .. Size, NEW j \in 0 .. Size, i <= j
      PROVE  Cardinality(Listed(i)) <= Cardinality(Listed(j))
  <2>1. Listed(i) \subseteq Listed(j)
    BY <1>6 DEF Listed, Rank
  <2>2. QED
    BY <1>2, <2>1, FS_Subset
<1>7. ASSUME NEW r \in Rank, ip[r] = NoAddr
      PROVE  Listed(r + 1) = Listed(r)
  BY <1>7 DEF Listed, Rank
<1>8. ASSUME NEW r \in Rank, ip[r] # NoAddr
      PROVE  /\ Listed(r + 1) = Listed(r) \cup {r}
             /\ LineOf(r) = Cardinality(Listed(r)) + 1
  <2>1. Listed(r + 1) = Listed(r) \cup {r}
    BY <1>8 DEF Listed, Rank
  <2>2. r \notin Listed(r)
    BY DEF Listed, Rank
  <2>3. IsFiniteSet(Listed(r))
    BY <1>2 DEF Rank
  <2>4. Cardinality(Listed(r) \cup {r}) = Cardinality(Listed(r)) + 1
    BY <2>2, <2>3, FS_AddElement
  <2>5. QED
    BY <1>5, <2>1, <2>4
<1>9. QED
  BY <1>2, <1>3, <1>4, <1>5, <1>6, <1>7, <1>8
-----------------------------------------------------------------------------
(***************************************************************************)
(* chi_net_find.                                                           *)
(***************************************************************************)

\* The ranks start with the invariant.
LEMMA FindStarts == FindInit => FindInv
<1> SUFFICES ASSUME FindInit PROVE FindInv
  OBVIOUS
<1> USE FindAssumption
<1>1. 0 \in Rank
  BY DEF Rank
<1>2. FindTypeOK
  <2>1. opened \in BOOLEAN
    BY Zenon DEF FindInit
  <2>2. QED
    BY <2>1 DEF FindInit, FindTypeOK
<1>3. FoundInv
  BY DEF FindInit, FoundInv
<1>4. StageInv /\ FileInv /\ OldInv
  BY <1>1 DEF FindInit, StageInv, FileInv, OldInv
<1>5. QED
  BY <1>2, <1>3, <1>4 DEF FindInv

\* A rank finds its address.
LEMMA FindIpKeeps ==
  ASSUME FindInv, NEW r \in Rank, FindIp(r)
  PROVE  FindInv'
<1> USE FindAssumption DEF FindInv
<1>1. /\ stage[r] = "find"
      /\ ip' = [ip EXCEPT ![r] = find_ip_from_fabric(infos[home[r]])]
      /\ stage' = [stage EXCEPT ![r] = "gather"]
      /\ UNCHANGED <<home, infos, line, opened, outfile>>
  BY DEF FindIp
<1>2. /\ stage \in [Rank -> {"find", "gather", "write", "done"}]
      /\ ip \in [Rank -> Addr \cup {NoAddr}]
      /\ home \in [Rank -> Machine] /\ infos \in [Machine -> Seq(Entry)]
  BY DEF FindTypeOK
<1>3. infos[home[r]] \in Seq(Entry)
  BY <1>2
<1>4. PICK a : a = find_ip_from_fabric(infos[home[r]])
  OBVIOUS
<1>5. /\ a \in Addr \cup {NoAddr}
      /\ a # NoAddr =>
           \E k \in DOMAIN infos[home[r]] :
             infos[home[r]][k].wanted /\ infos[home[r]][k].addr = a
  BY <1>3, <1>4, FoundIsWanted
<1>6. ip' = [ip EXCEPT ![r] = a]
  BY <1>1, <1>4
<1>7. 0 \in Rank
  BY DEF Rank
<1>8. stage[0] \notin {"write", "done"}
  BY <1>1, <1>7 DEF StageInv
<1>9. stage'[0] \notin {"write", "done"}
  BY <1>1, <1>2, <1>7, <1>8
<1>10. FindTypeOK'
  BY <1>1, <1>2, <1>5, <1>6 DEF FindTypeOK
<1>11. FoundInv'
  BY <1>1, <1>2, <1>5, <1>6 DEF FoundInv
<1>12. StageInv'
  <2>1. \A q \in Rank : stage'[q] = "write" => q = 0
    BY <1>1, <1>2 DEF StageInv
  <2>2. line' = 0 /\ ~opened'
    <3>1. stage[0] \in {"find", "gather"}
      BY <1>2, <1>7, <1>8
    <3>2. line = 0 /\ ~opened
      BY <3>1 DEF StageInv
    <3>3. opened' = opened /\ line' = line
      BY <1>1
    <3>4. QED
      BY <3>2, <3>3
  <2>3. QED
    BY <1>9, <2>1, <2>2 DEF StageInv
<1>13. FileInv' /\ OldInv'
  BY <1>1, <1>9 DEF FileInv, OldInv
<1>14. QED
  BY <1>10, <1>11, <1>12, <1>13

\* A rank hands over its address; rank 0 opens the file when it has all.
LEMMA GatherKeeps ==
  ASSUME FindInv, NEW r \in Rank, Gather(r)
  PROVE  FindInv'
<1> USE FindAssumption DEF FindInv
<1>1. /\ stage[r] = "gather" /\ UNCHANGED <<home, infos, ip, line>>
      /\ stage \in [Rank -> {"find", "gather", "write", "done"}]
      /\ ip \in [Rank -> Addr \cup {NoAddr}]
      /\ 0 \in Rank
  BY DEF Gather, FindTypeOK, Rank
<1>2. CASE r # 0
  <2>1. /\ stage' = [stage EXCEPT ![r] = "done"]
        /\ UNCHANGED <<opened, outfile>>
    BY <1>2 DEF Gather
  <2>2. stage'[0] = stage[0]
    BY <1>1, <1>2, <2>1
  <2>3. FindTypeOK'
    BY <1>1, <2>1 DEF FindTypeOK
  <2>4. FoundInv'
    BY <1>1, <2>1 DEF FoundInv
  <2>5. StageInv'
    BY <1>1, <1>2, <2>1, <2>2 DEF StageInv
  <2>6. FileInv' /\ OldInv'
    <3>1. Listed(line)' = Listed(line)
      BY <1>1 DEF Listed
    <3>2. \A q \in Rank : LineOf(q)' = LineOf(q)
      BY <1>1 DEF LineOf
    <3>3. Listed(line) \subseteq Rank
      BY DEF Listed
    <3>4. FileInv'
      BY <1>1, <2>1, <2>2, <3>1, <3>2, <3>3 DEF FileInv
    <3>5. OldInv'
      BY <2>1 DEF OldInv
    <3>6. QED
      BY <3>4, <3>5
  <2>7. QED
    BY <2>3, <2>4, <2>5, <2>6
<1>3. CASE r = 0
  <2>1. /\ \A q \in Rank : stage[q] # "find"
        /\ stage' = [stage EXCEPT ![0] = "write"]
        /\ OpenFile
    BY <1>1, <1>3 DEF Gather
  <2> DEFINE Opens == opened' = TRUE /\ outfile' = <<>>
             Fails == opened' = FALSE /\ outfile' = outfile
  <2>0. Opens \/ Fails
    <3>1. opened = FALSE
      <4>1. ~opened
        BY <1>1, <1>3 DEF StageInv
      <4>2. opened \in BOOLEAN
        BY DEF FindTypeOK
      <4>3. QED
        BY <4>1, <4>2, Zenon
    <3>2. QED
      BY <2>1, <3>1, Zenon DEF OpenFile
  <2>2. line = 0 /\ line' = 0
    BY <1>1, <1>3 DEF StageInv
  <2>3. FindTypeOK'
    <3>1. opened' \in BOOLEAN
      BY <2>0, Zenon
    <3>2. outfile' \in Seq(Addr)
      <4>1. outfile' = <<>> \/ outfile' = outfile
        BY <2>0, Zenon
      <4>2. outfile \in Seq(Addr)
        BY DEF FindTypeOK
      <4>3. <<>> \in Seq(Addr)
        OBVIOUS
      <4>4. QED
        BY <4>1, <4>2, <4>3, Zenon
    <3>3. QED
      BY <1>1, <2>1, <3>1, <3>2 DEF FindTypeOK
  <2>4. FoundInv'
    BY <1>1, <2>1 DEF FoundInv
  <2>5. StageInv'
    BY <1>1, <2>1, <2>2 DEF StageInv
  <2>6. FileInv' /\ OldInv'
    <3>1. Listed(0)' = Listed(0)
      BY <1>1 DEF Listed
    <3>2. Listed(line)' = {} /\ Cardinality(Listed(line)') = 0
      BY <1>1, <2>2, <3>1, Counting
    <3>3. FileInv'
      <4>1. CASE Opens
        BY <3>2, <4>1 DEF FileInv
      <4>2. CASE Fails
        BY <4>2, Zenon DEF FileInv
      <4>3. QED
        BY <2>0, <4>1, <4>2
    <3>4. OldInv'
      <4>1. CASE Opens
        BY <4>1, Zenon DEF OldInv
      <4>2. CASE Fails
        <5>1. outfile \in OldFiles
          BY <1>1, <1>3 DEF OldInv, StageInv
        <5>2. QED
          BY <4>2, <5>1 DEF OldInv
      <4>3. QED
        BY <2>0, <4>1, <4>2
    <3>5. QED
      BY <3>3, <3>4
  <2>7. QED
    BY <2>3, <2>4, <2>5, <2>6
<1>4. QED
  BY <1>2, <1>3

\* Rank 0 writes a line, or is done.
LEMMA WriteLineKeeps ==
  ASSUME FindInv, WriteLine
  PROVE  FindInv'
<1> USE FindAssumption DEF FindInv
<1>1. /\ stage[0] = "write" /\ UNCHANGED <<home, infos, ip, opened>>
      /\ stage \in [Rank -> {"find", "gather", "write", "done"}]
      /\ ip \in [Rank -> Addr \cup {NoAddr}]
      /\ line \in 0 .. Size /\ outfile \in Seq(Addr) /\ 0 \in Rank
  BY DEF WriteLine, FindTypeOK, Rank
<1>2. \A q \in Rank : LineOf(q)' = LineOf(q)
  BY <1>1 DEF LineOf
<1>3. \A i \in 0 .. Size : Listed(i)' = Listed(i) /\ Listed(i) \subseteq Rank
  BY <1>1 DEF Listed
<1>4. CASE line = Size /\ stage' = [stage EXCEPT ![0] = "done"]
           /\ UNCHANGED <<line, outfile>>
  <2>1. FindTypeOK'
    BY <1>1, <1>4 DEF FindTypeOK
  <2>2. FoundInv'
    BY <1>1, <1>4 DEF FoundInv
  <2>3. StageInv'
    BY <1>1, <1>4 DEF StageInv
  <2>4. FileInv' /\ OldInv'
    <3>1. Listed(line)' = Listed(line) /\ Listed(line) \subseteq Rank
      BY <1>1, <1>4 DEF Listed
    <3>2. FileInv'
      BY <1>1, <1>2, <1>4, <3>1 DEF FileInv
    <3>3. OldInv'
      BY <1>1, <1>4 DEF OldInv
    <3>4. QED
      BY <3>2, <3>3
  <2>5. QED
    BY <2>1, <2>2, <2>3, <2>4
<1>5. CASE /\ line < Size /\ line' = line + 1 /\ UNCHANGED stage
           /\ outfile' = IF opened /\ ip[line] # NoAddr
                            THEN Append(outfile, ip[line]) ELSE outfile
  <2>1. line \in Rank /\ line' \in 0 .. Size
    BY <1>1, <1>5 DEF Rank
  <2>2. FindTypeOK'
    <3>1. outfile' \in Seq(Addr)
      BY <1>1, <1>5, <2>1
    <3>2. QED
      BY <1>1, <1>5, <2>1, <3>1 DEF FindTypeOK
  <2>3. FoundInv'
    BY <1>1, <1>5 DEF FoundInv
  <2>4. StageInv'
    BY <1>1, <1>5 DEF StageInv
  <2>5. Listed(line)' = Listed(line + 1) /\ Listed(line + 1) \subseteq Rank
    BY <1>1, <1>5 DEF Listed
  <2>6. opened =>
          /\ Len(outfile) = Cardinality(Listed(line))
          /\ \A q \in Listed(line) :
               LineOf(q) \in 1 .. Len(outfile) /\ outfile[LineOf(q)] = ip[q]
          /\ \A k \in 1 .. Len(outfile) :
               \E q \in Listed(line) : LineOf(q) = k
    BY <1>1 DEF FileInv
  <2>7. FileInv'
    <3> SUFFICES ASSUME opened PROVE FileInv'
      BY <1>1 DEF FileInv
    <3>1. CASE ip[line] = NoAddr
      <4>1. Listed(line + 1) = Listed(line)
        BY <1>1, <2>1, <3>1, Counting
      <4>2. outfile' = outfile
        BY <1>5, <3>1
      <4>3. QED
        BY <1>1, <1>2, <2>5, <2>6, <4>1, <4>2 DEF FileInv
    <3>2. CASE ip[line] # NoAddr
      <4>1. /\ Listed(line + 1) = Listed(line) \cup {line}
            /\ LineOf(line) = Len(outfile) + 1
            /\ Cardinality(Listed(line + 1)) = LineOf(line)
        BY <1>1, <2>1, <2>6, <3>2, Counting
      <4>2. /\ Len(outfile') = Len(outfile) + 1
            /\ outfile'[Len(outfile) + 1] = ip[line]
            /\ \A k \in 1 .. Len(outfile) : outfile'[k] = outfile[k]
        BY <1>1, <1>5, <2>1, <3>2
      <4>3. \A q \in Listed(line + 1) :
              /\ LineOf(q) \in 1 .. Len(outfile')
              /\ outfile'[LineOf(q)] = ip[q]
        BY <1>1, <2>6, <4>1, <4>2
      <4>4. \A k \in 1 .. Len(outfile') :
              \E q \in Listed(line + 1) : LineOf(q) = k
        BY <1>1, <2>6, <4>1, <4>2
      <4>5. QED
        BY <1>1, <1>2, <2>5, <4>1, <4>2, <4>3, <4>4 DEF FileInv
    <3>3. QED
      BY <3>1, <3>2
  <2>8. OldInv'
    BY <1>1, <1>5 DEF OldInv
  <2>9. QED
    BY <2>2, <2>3, <2>4, <2>7, <2>8
<1>6. QED
  BY <1>4, <1>5 DEF WriteLine

\* Every step of chi_net_find keeps the invariant.
LEMMA FindKeeps == FindInv /\ FindNext => FindInv'
  BY FindIpKeeps, GatherKeeps, WriteLineKeeps DEF FindNext

\* Nothing else disturbs what chi_net_find has left.
LEMMA FindStutters ==
  ASSUME FindInv, UNCHANGED <<home, infos, stage, ip, line, opened, outfile>>
  PROVE  FindInv' /\ (FindDone' <=> FindDone)
<1> USE DEF FindInv
<1>1. FindTypeOK'
  BY DEF FindTypeOK
<1>2. FoundInv' /\ StageInv' /\ OldInv'
  BY DEF FoundInv, StageInv, OldInv
<1>3. Listed(line)' = Listed(line)
  BY DEF Listed
<1>4. \A r \in Rank : LineOf(r)' = LineOf(r)
  BY DEF LineOf
<1>5. FileInv'
  <2>1. Listed(line) \subseteq Rank
    BY DEF Listed
  <2>2. QED
    BY <1>3, <1>4, <2>1 DEF FileInv
<1>6. FindDone' <=> FindDone
  BY DEF FindDone
<1>7. QED
  BY <1>1, <1>2, <1>5, <1>6
-----------------------------------------------------------------------------
(***************************************************************************)
(* The programs that read the host file.                                   *)
(***************************************************************************)

Names == Addr \cup {Localhost}
Answer == [n \in Names |-> IF n = Localhost THEN {Loopback} ELSE {n}]
Hosts == [hostname : Names, ip : Addr, id : Nat]

\* The lines of the host file and the resolver are as HostTable assumes them.
LEMMA NodesAssumed == Nodes!HostAssumption
<1>1. Answer \in [Names -> SUBSET Addr]
  BY LocalhostAssumption DEF Answer, Names
<1>2. QED
  BY <1>1, LocalhostAssumption DEF Nodes!HostAssumption, Answer, Names

\* A step of the tables is one of HostTable as its theorems know it, and keeps
\* their invariant.
LEMMA NodesKeep ==
  ASSUME Nodes!IInv, Table!Next PROVE Nodes!IInv'
<1>1. Nodes!Next
  BY DEF Nodes!Next, Table!Next, Nodes!Resolve, Table!Resolve,
     Nodes!Resolved, Table!Resolved, Nodes!FindThisHost, Table!FindThisHost,
     Nodes!ResetIds, Table!ResetIds, Nodes!Goto, Table!Goto
<1>2. QED
  BY <1>1, NodesAssumed, Nodes!IInvInductive

\* Lists of names: the lines of the host file, or localhost.
LEMMA NameLists ==
  /\ \A list \in Seq(Addr) : list \in Seq(Names)
  /\ <<Localhost>> \in Seq(Names)
<1>1. \A list \in Seq(Addr) : list \in Seq(Names)
  BY SeqMonotonic DEF Names
<1>2. Localhost \in Names
  BY DEF Names
<1>3. QED
  BY <1>1, <1>2

\* The names in the host file.
LEMMA NamesTyped ==
  ASSUME FindTypeOK, args \in Args
  PROVE  /\ HostNames \in Seq(Names)
         /\ args.path => HostNames = outfile
         /\ ~args.path => HostNames = <<Localhost>>
         /\ outfile \in Seq(Addr)
<1>1. outfile \in Seq(Addr)
  BY DEF FindTypeOK
<1>2. HostNames \in Seq(Names)
  BY <1>1, NameLists DEF HostNames
<1>3. QED
  BY <1>1, <1>2 DEF HostNames

\* What the table invariant says of one machine.
LEMMA TableFacts ==
  ASSUME FindTypeOK, args \in Args, Nodes!IInv, NEW m \in Machine
  PROVE  /\ pc \in [Machine -> {"resolve", "find", "reset", "ready", "fatal"}]
         /\ hosts \in [Machine -> Seq(Hosts)]
         /\ nodeId \in [Machine -> Nat]
         /\ Len(hosts[m]) <= Len(HostNames)
         /\ (pc[m] = "ready" /\ args.local) => Len(hosts[m]) = 1
         /\ (pc[m] # "ready" \/ ~args.local) =>
              \A i \in 1 .. Len(hosts[m]) :
                hosts[m][i].ip \in Answer[HostNames[i]]
         /\ (pc[m] \in {"find", "reset"} \/ (pc[m] = "ready" /\ ~args.local)) =>
              /\ Len(hosts[m]) = Len(HostNames)
              /\ \A i \in 1 .. Len(hosts[m]) :
                   hosts[m][i].ip \in Local[m] => nodeId[m] <= i
         /\ pc[m] \in {"reset", "ready"} =>
              /\ nodeId[m] \in 1 .. Len(hosts[m])
              /\ hosts[m][nodeId[m]].ip \in Local[m]
  BY DEF Nodes!IInv, Nodes!ShapeInv, Nodes!TableInv, Nodes!TableOf,
     Nodes!TypeOK, Nodes!ShapeOK, Nodes!Host, Hosts, Names, Answer

\* Before the programs start, their tables are HostTable's initial ones.
LEMMA NodesStart ==
  ASSUME FindTypeOK', args' \in Args, NotStarted'
  PROVE  Nodes!IInv'
<1>1. HostNames' \in Seq(Names)
  <2>1. outfile' \in Seq(Addr)
    BY DEF FindTypeOK
  <2>2. QED
    BY <2>1, NameLists DEF HostNames
<1>2. args'.local \in BOOLEAN
  BY DEF Args
<1>3. /\ pc' \in [Machine -> {"resolve", "find", "reset", "ready", "fatal"}]
      /\ hosts' \in [Machine -> Seq(Hosts)]
      /\ nodeId' \in [Machine -> Nat]
      /\ \A m \in Machine : /\ pc'[m] \in {"resolve", "fatal"}
                            /\ hosts'[m] = <<>> /\ Len(hosts'[m]) = 0
                            /\ nodeId'[m] = 1
  BY DEF NotStarted
<1>4. Nodes!ShapeInv'
  <2>1. Len(HostNames') \in Nat /\ 1 \in 1 .. Len(HostNames') + 1
    BY <1>1
  <2>2. Nodes!ShapeOK'
    BY <1>2, <1>3, <2>1 DEF Nodes!ShapeOK, Nodes!Host, Hosts, Names
  <2>3. QED
    BY <1>1, <1>3, <2>2 DEF Nodes!ShapeInv, Nodes!TypeOK, Nodes!Host, Hosts,
       Names
<1>5. Nodes!TableInv'
  BY <1>3 DEF Nodes!TableInv, Nodes!TableOf
<1>6. QED
  BY <1>4, <1>5 DEF Nodes!IInv

\* A rank's address is one of its own machine only.
LEMMA OwnAddress ==
  ASSUME FindInv, OwnAddresses, NEW r \in Rank, ip[r] # NoAddr,
         NEW m \in Machine
  PROVE  ip[r] \in Local[m] <=> m = home[r]
<1>1. home[r] \in Machine /\ infos[home[r]] \in Seq(Entry)
  BY FindAssumption DEF FindInv, FindTypeOK
<1>2. PICK k \in DOMAIN infos[home[r]] :
        infos[home[r]][k].wanted /\ infos[home[r]][k].addr = ip[r]
  BY DEF FindInv, FoundInv
<1>3. k \in 1 .. Len(infos[home[r]])
  BY <1>1, <1>2
<1>4. QED
  BY <1>1, <1>2, <1>3 DEF OwnAddresses

\* When chi_net_find is done, every line of the file it could open is that of
\* the rank it counts.
LEMMA DoneFile ==
  ASSUME FindInv, FindDone, opened
  PROVE  /\ Len(outfile) = LineOf(Size - 1)
         /\ \A r \in Rank : ip[r] # NoAddr =>
              LineOf(r) \in 1 .. Len(outfile) /\ outfile[LineOf(r)] = ip[r]
         /\ \A k \in 1 .. Len(outfile) :
              \E r \in Rank : /\ ip[r] # NoAddr /\ LineOf(r) = k
                              /\ outfile[k] = ip[r]
<1> USE FindAssumption
<1>1. /\ stage[0] = "done" /\ line = Size /\ Size - 1 \in Rank
      /\ ip \in [Rank -> Addr \cup {NoAddr}]
  BY DEF FindDone, FindInv, StageInv, FindTypeOK, Rank
<1>2. \A r \in Rank : r \in Listed(line) <=> ip[r] # NoAddr
  BY <1>1 DEF Listed, Rank
<1>3. LineOf(Size - 1) = Cardinality(Listed((Size - 1) + 1))
  BY <1>1, Counting
<1>4. (Size - 1) + 1 = line
  BY <1>1
<1>5. Listed(line) \subseteq Rank
  BY DEF Listed
<1>6. /\ Len(outfile) = Cardinality(Listed(line))
      /\ \A q \in Listed(line) :
           LineOf(q) \in 1 .. Len(outfile) /\ outfile[LineOf(q)] = ip[q]
      /\ \A k \in 1 .. Len(outfile) : \E q \in Listed(line) : LineOf(q) = k
  BY <1>1 DEF FindInv, FileInv
<1>7. QED
  BY <1>2, <1>3, <1>4, <1>5, <1>6

\* A step of a machine's start-up keeps the tables to the file and the listed
\* machines going.
LEMMA TablesKeep ==
  ASSUME FindInv, args \in Args, TablesInv, TablePhase
  PROVE  TablesInv'
<1>1. /\ FindDone /\ Table!Next
      /\ args' = args /\ UNCHANGED <<home, infos, stage, ip, line, opened, outfile>>
  BY DEF TablePhase, findVars
<1>2. Nodes!IInv'
  BY <1>1, NodesKeep DEF TablesInv
<1>3. PICK p \in Machine : \/ Table!Resolve(p) \/ Table!Resolved(p)
                           \/ Table!FindThisHost(p) \/ Table!ResetIds(p)
  BY <1>1 DEF Table!Next
<1>4. FindTypeOK /\ Nodes!IInv
  BY DEF FindInv, TablesInv
<1>5. /\ pc \in [Machine -> {"resolve", "find", "reset", "ready", "fatal"}]
      /\ hosts \in [Machine -> Seq(Hosts)]
      /\ nodeId \in [Machine -> Nat]
  BY <1>3, <1>4, TableFacts
<1>6. \A a \in Addr : Answer[a] = {a}
  BY LocalhostAssumption DEF Answer, Names
<1>7. FromFile'
  <2> SUFFICES ASSUME args.path, NEW m \in Machine,
                      NEW i \in 1 .. Len(hosts'[m])
               PROVE  \E k \in 1 .. Len(outfile) : hosts'[m][i].ip = outfile[k]
    BY <1>1 DEF FromFile
  <2>1. HostNames = outfile /\ outfile \in Seq(Addr)
    BY <1>4, NamesTyped
  <2>2. \A j \in 1 .. Len(hosts[m]) :
          \E k \in 1 .. Len(outfile) : hosts[m][j].ip = outfile[k]
    BY DEF TablesInv, FromFile
  <2>3. CASE hosts'[m] = hosts[m]
    BY <2>2, <2>3
  <2>4. CASE Table!Resolve(p) /\ hosts'[m] # hosts[m]
    <3>1. PICK n, a :
            /\ n \in 1 .. Len(outfile) /\ n = Len(hosts[p]) + 1 /\ a \in Answer[outfile[n]]
            /\ hosts' = [hosts EXCEPT ![p] =
                 Append(@, [hostname |-> outfile[n], ip |-> a, id |-> n])]
      <4> DEFINE k == Len(hosts[p]) + 1
      <4>1. Len(hosts[p]) < Len(outfile) /\ Len(hosts[p]) \in Nat
            /\ Len(outfile) \in Nat
        BY <1>5, <2>1, <2>4 DEF Table!Resolve
      <4>2. \E b \in Answer[outfile[k]] :
              hosts' = [hosts EXCEPT ![p] =
                Append(@, [hostname |-> outfile[k], ip |-> b, id |-> k])]
        BY <2>1, <2>4 DEF Table!Resolve, Answer, Names
      <4>3. k \in 1 .. Len(outfile)
        BY <4>1
      <4>4. QED
        BY <4>2, <4>3
    <3>2. outfile[n] \in Addr /\ a = outfile[n]
      BY <1>6, <2>1, <3>1
    <3>3. m = p
      BY <1>5, <2>4, <3>1
    <3>4. /\ hosts'[m] = Append(hosts[m], [hostname |-> outfile[n],
                                           ip |-> outfile[n], id |-> n])
          /\ hosts[m] \in Seq(Hosts)
      BY <1>5, <3>1, <3>2, <3>3
    <3>5. i <= Len(hosts[m]) => hosts'[m][i] = hosts[m][i]
      BY <3>4
    <3>6. i > Len(hosts[m]) => hosts'[m][i].ip = outfile[n]
      BY <3>4
    <3>7. i <= Len(hosts[m]) => i \in 1 .. Len(hosts[m])
      BY <3>4
    <3>8. Len(hosts[m]) \in Nat /\ i \in Nat
      BY <3>4
    <3>9. QED
      BY <2>2, <3>1, <3>5, <3>6, <3>7, <3>8
  <2>5. CASE Table!ResetIds(p) /\ hosts'[m] # hosts[m]
    <3> DEFINE h == [hosts[p][nodeId[p]] EXCEPT !.id = 1]
    <3>1. pc[p] = "reset" /\ hosts' = [hosts EXCEPT ![p] = <<h>>]
      BY <2>5 DEF Table!ResetIds
    <3>2. nodeId[p] \in 1 .. Len(hosts[p])
      BY <1>4, <3>1, TableFacts
    <3>3. hosts[p] \in Seq(Hosts) /\ hosts[p][nodeId[p]] \in Hosts
      BY <1>5, <3>2
    <3>4. h.ip = hosts[p][nodeId[p]].ip
      BY <3>3 DEF Hosts
    <3> HIDE DEF h
    <3>5. m = p /\ hosts'[m] = <<h>>
      BY <1>5, <2>5, <3>1
    <3>6. i = 1 /\ hosts'[m][i].ip = hosts[m][nodeId[m]].ip
      BY <3>4, <3>5
    <3>7. QED
      BY <2>2, <3>2, <3>5, <3>6
  <2>6. CASE Table!Resolved(p) \/ Table!FindThisHost(p)
    BY <2>3, <2>6 DEF Table!Resolved, Table!FindThisHost
  <2>7. QED
    BY <1>3, <2>3, <2>4, <2>5, <2>6
<1>8. StaysUp'
  <2> SUFFICES ASSUME OwnAddresses, opened, args.complete, args.path,
                      NEW r \in Rank, ip[r] # NoAddr, home[r] \notin NoFabric
               PROVE  pc'[home[r]] # "fatal"
    BY <1>1 DEF StaysUp, OwnAddresses
  <2>1. /\ HostNames = outfile /\ outfile \in Seq(Addr)
        /\ home[r] \in Machine /\ pc[home[r]] # "fatal"
    BY <1>4, NamesTyped, FindAssumption DEF FindTypeOK, TablesInv, StaysUp
  <2>2. CASE p # home[r]
    BY <1>3, <1>5, <2>1, <2>2 DEF Table!Resolve, Table!Resolved,
       Table!FindThisHost, Table!ResetIds, Table!Goto
  <2>3. CASE p = home[r] /\ Table!Resolve(p)
    <3>1. Len(hosts[p]) + 1 \in 1 .. Len(outfile)
      BY <1>5, <2>1, <2>3 DEF Table!Resolve
    <3>2. outfile[Len(hosts[p]) + 1] \in Addr
      BY <2>1, <3>1
    <3>3. Answer[outfile[Len(hosts[p]) + 1]] # {}
      BY <1>6, <3>2
    <3>4. UNCHANGED pc
      BY <2>1, <2>3, <3>3 DEF Table!Resolve, Answer, Names
    <3>5. QED
      BY <2>1, <3>4
  <2>4. CASE p = home[r] /\ Table!FindThisHost(p)
    <3>1. pc[p] = "find" /\ Len(hosts[p]) = Len(outfile)
      BY <1>4, <2>1, <2>4, TableFacts DEF Table!FindThisHost
    <3>2. LineOf(r) \in 1 .. Len(outfile) /\ outfile[LineOf(r)] = ip[r]
      BY <1>1, DoneFile
    <3>3. hosts[p][LineOf(r)].ip \in Answer[outfile[LineOf(r)]]
      BY <1>4, <2>1, <3>1, <3>2, TableFacts
    <3>4. hosts[p][LineOf(r)].ip = ip[r]
      BY <1>6, <2>1, <3>2, <3>3
    <3>5. ip[r] \in Local[p]
      BY <2>1, <2>4, OwnAddress
    <3>6. nodeId[p] <= LineOf(r)
      BY <1>4, <3>1, <3>2, <3>4, <3>5, TableFacts
    <3>7. nodeId[p] <= Len(hosts[p])
      BY <1>5, <2>1, <3>1, <3>2, <3>6
    <3>8. pc'[p] \in {"find", "reset"}
      BY <1>5, <2>4, <3>7 DEF Table!FindThisHost, Table!Goto
    <3>9. QED
      BY <2>4, <3>8
  <2>5. CASE p = home[r] /\ (Table!Resolved(p) \/ Table!ResetIds(p))
    BY <1>5, <2>5 DEF Table!Resolved, Table!ResetIds, Table!Goto
  <2>6. QED
    BY <1>3, <2>2, <2>3, <2>4, <2>5
<1>9. QED
  BY <1>2, <1>7, <1>8 DEF TablesInv

\* The invariant of the whole set-up.
LEMMA SetupInvHolds == Spec => []SetupInv
<1> USE FindAssumption
<1>1. Init => SetupInv
  <2> SUFFICES ASSUME Init PROVE SetupInv
    OBVIOUS
  <2>1. FindInv
    BY FindStarts DEF Init
  <2>2. ~FindDone
    <3>1. 0 \in Rank
      BY DEF Rank
    <3>2. stage[0] # "done"
      BY <3>1 DEF Init, FindInit
    <3>3. QED
      BY <3>1, <3>2 DEF FindDone
  <2>3. QED
    BY <2>1, <2>2 DEF Init, SetupInv, NotStarted
<1>2. SetupInv /\ [Next]_vars => SetupInv'
  <2> SUFFICES ASSUME SetupInv, [Next]_vars PROVE SetupInv'
    OBVIOUS
  <2>1. CASE FindPhase
    <3>1. FindNext /\ args' = args /\ UNCHANGED <<pc, hosts, nodeId>>
      BY <2>1 DEF FindPhase, tableVars
    <3>2. FindInv'
      BY <3>1, FindKeeps DEF SetupInv
    <3>3. ~FindDone
      BY <3>1 DEF FindNext, FindIp, Gather, WriteLine, FindDone, Rank
    <3>4. NotStarted'
      BY <3>1, <3>3 DEF SetupInv, NotStarted
    <3>5. args' \in Args
      BY <3>1 DEF SetupInv
    <3>6. Nodes!IInv'
      BY <3>2, <3>4, <3>5, NodesStart DEF FindInv
    <3>7. FromFile'
      <4>1. \A m \in Machine : hosts'[m] = <<>> /\ Len(hosts'[m]) = 0
        BY <3>4 DEF NotStarted
      <4>2. QED
        BY <4>1 DEF FromFile
    <3>8. StaysUp'
      <4>1. home' \in [Rank -> Machine]
        BY <3>2 DEF FindInv, FindTypeOK
      <4>2. QED
        BY <3>4, <4>1 DEF StaysUp, NotStarted
    <3>9. QED
      BY <3>2, <3>4, <3>5, <3>6, <3>7, <3>8 DEF SetupInv, TablesInv
  <2>2. CASE TablePhase
    <3>1. FindDone /\ args' = args
          /\ UNCHANGED <<home, infos, stage, ip, line, opened, outfile>>
      BY <2>2 DEF TablePhase, findVars
    <3>2. TablesInv'
      BY <2>2, <3>1, TablesKeep DEF SetupInv
    <3>3. FindInv' /\ FindDone'
      BY <3>1, FindStutters DEF SetupInv
    <3>4. QED
      BY <3>1, <3>2, <3>3 DEF SetupInv
  <2>3. CASE UNCHANGED vars
    <3>1. /\ args' = args /\ UNCHANGED <<pc, hosts, nodeId>>
          /\ UNCHANGED <<home, infos, stage, ip, line, opened, outfile>>
      BY <2>3 DEF vars, findVars, tableVars
    <3>2. FindInv' /\ (FindDone' <=> FindDone)
      BY <3>1, FindStutters DEF SetupInv
    <3>3. NotStarted => NotStarted'
      BY <3>1 DEF NotStarted
    <3>4. TablesInv => TablesInv'
      <4>1. HostNames' = HostNames
        BY <3>1 DEF HostNames
      <4>2. Nodes!IInv => Nodes!IInv'
        BY <3>1, <4>1 DEF Nodes!IInv, Nodes!ShapeInv, Nodes!TableInv,
           Nodes!TableOf, Nodes!TypeOK, Nodes!ShapeOK
      <4>3. FromFile => FromFile'
        BY <3>1 DEF FromFile
      <4>4. StaysUp => StaysUp'
        BY <3>1 DEF StaysUp, OwnAddresses
      <4>5. QED
        BY <4>2, <4>3, <4>4 DEF TablesInv
    <3>5. QED
      BY <3>1, <3>2, <3>3, <3>4 DEF SetupInv
  <2>4. QED
    BY <2>1, <2>2, <2>3 DEF Next
<1>3. QED
  BY <1>1, <1>2, PTL DEF Spec
-----------------------------------------------------------------------------
\* TypeOK: the ranks of chi_net_find and the tables that ServerInit makes of
\* the file keep their types.
THEOREM TypeCorrect == Spec => []TypeOK
<1>1. SetupInv => TypeOK
  BY DEF SetupInv, TypeOK, FindInv, TablesInv, Nodes!IInv, Nodes!ShapeInv,
     Nodes!TypeOK, Nodes!ShapeOK, Table!ShapeOK, Nodes!Host, Table!Host
<1>2. QED
  BY <1>1, SetupInvHolds, PTL

\* FileListsRanks: chi_net_find leaves the addresses of this run in the order
\* of the ranks and nothing else, or the old file if it cannot open it.
THEOREM FileIsThatOfTheRun == Spec => []FileListsRanks
<1>1. SetupInv => FileListsRanks
  BY DoneFile DEF SetupInv, FindInv, FindTypeOK, OldInv, FileListsRanks
<1>2. QED
  BY <1>1, SetupInvHolds, PTL

\* UnlistedStaysOut: a machine without a line in the host file chi_net_find
\* has written never gets through ServerInit, unless the program runs without
\* a host file.
THEOREM OnlyListedMachinesRun == Spec => []UnlistedStaysOut
<1>1. SetupInv => UnlistedStaysOut
  <2> SUFFICES ASSUME SetupInv, NEW m \in Machine,
                      OwnAddresses, args.path => opened, pc[m] = "ready"
               PROVE  \/ ~args.path /\ Len(hosts[m]) = 1
                      \/ \E r \in Rank : home[r] = m /\ ip[r] # NoAddr
    BY DEF UnlistedStaysOut
  <2>1. FindDone /\ FindInv /\ TablesInv /\ args \in Args
    <3>1. ~FindDone => pc[m] # "ready"
      BY DEF SetupInv, NotStarted
    <3>2. QED
      BY <3>1 DEF SetupInv
  <2>2. FindTypeOK /\ Nodes!IInv
    BY <2>1 DEF FindInv, TablesInv
  <2>3. /\ nodeId[m] \in 1 .. Len(hosts[m])
        /\ hosts[m][nodeId[m]].ip \in Local[m]
    BY <2>1, <2>2, TableFacts
  <2>4. CASE args.path
    <3>1. PICK k \in 1 .. Len(outfile) : hosts[m][nodeId[m]].ip = outfile[k]
      BY <2>1, <2>3, <2>4 DEF TablesInv, FromFile
    <3>2. PICK r \in Rank : ip[r] # NoAddr /\ outfile[k] = ip[r]
      BY <2>1, <2>4, DoneFile
    <3>3. m = home[r]
      BY <2>1, <2>3, <3>1, <3>2, OwnAddress
    <3>4. QED
      BY <3>2, <3>3
  <2>5. CASE ~args.path
    <3>1. Len(HostNames) = 1
      BY <2>5 DEF HostNames
    <3>2. args.local \in BOOLEAN
      BY <2>1 DEF Args
    <3>3. Len(hosts[m]) = 1
      BY <2>1, <2>2, <3>1, <3>2, TableFacts
    <3>4. QED
      BY <2>5, <3>3
  <2>6. QED
    BY <2>4, <2>5
<1>2. QED
  BY <1>1, SetupInvHolds, PTL

\* EveryLineIsANode: with one rank per machine, every machine that chi_net_find
\* listed in the file it wrote and where fi_getinfo works again in ServerInit
\* gets through it, as the node whose line its rank wrote.
THEOREM EveryLineRuns == Spec => []EveryLineIsANode
<1>1. SetupInv => EveryLineIsANode
  <2> SUFFICES ASSUME SetupInv, OwnAddresses, OneRankPerMachine,
                      opened, args.complete, args.path, ~args.local,
                      NEW r \in Rank, Ended(home[r]), ip[r] # NoAddr,
                      home[r] \notin NoFabric
               PROVE  /\ pc[home[r]] = "ready"
                      /\ nodeId[home[r]] = LineOf(r)
    BY DEF EveryLineIsANode
  <2> DEFINE m == home[r]
  <2>1. FindInv /\ args \in Args /\ m \in Machine
    BY FindAssumption DEF SetupInv, FindInv, FindTypeOK
  <2>2. FindDone /\ TablesInv
    <3>1. ~FindDone => pc[m] = "resolve"
      BY <2>1 DEF SetupInv, NotStarted
    <3>2. QED
      BY <3>1 DEF SetupInv, Ended
  <2>3. FindTypeOK /\ Nodes!IInv
    BY <2>1, <2>2 DEF FindInv, TablesInv
  <2>4. pc[m] = "ready"
    BY <2>2 DEF TablesInv, StaysUp, Ended
  <2>5. /\ nodeId[m] \in 1 .. Len(hosts[m]) /\ Len(hosts[m]) = Len(HostNames)
        /\ hosts[m][nodeId[m]].ip \in Local[m]
        /\ hosts[m][nodeId[m]].ip \in Answer[HostNames[nodeId[m]]]
    BY <2>1, <2>3, <2>4, TableFacts
  <2>6. HostNames = outfile /\ outfile \in Seq(Addr)
    BY <2>1, <2>3, NamesTyped
  <2>7. outfile[nodeId[m]] \in Addr /\ nodeId[m] \in 1 .. Len(outfile)
    BY <2>5, <2>6
  <2>8. hosts[m][nodeId[m]].ip = outfile[nodeId[m]]
    BY <2>5, <2>6, <2>7, LocalhostAssumption DEF Answer, Names
  <2>9. PICK q \in Rank : /\ ip[q] # NoAddr /\ LineOf(q) = nodeId[m]
                          /\ outfile[nodeId[m]] = ip[q]
    BY <2>1, <2>2, <2>7, DoneFile
  <2>10. m = home[q]
    BY <2>1, <2>5, <2>8, <2>9, OwnAddress
  <2>11. q = r
    BY <2>10 DEF OneRankPerMachine
  <2>12. QED
    BY <2>4, <2>9, <2>11
<1>2. QED
  BY <1>1, SetupInvHolds, PTL
=============================================================================
