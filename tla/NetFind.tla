------------------------------ MODULE NetFind -------------------------------
(***************************************************************************)
(* chi_net_find.cc: an MPI program.  Every rank looks for the address of   *)
(* its machine on one fabric; rank 0 gathers the addresses and writes the  *)
(* host file the other programs read, one line per rank that has one.      *)
(*                                                                         *)
(* Values of stage[r]: "find", "gather", "write" (rank 0, in its loop),    *)
(* "done".  The ofstream of rank 0 may fail to open, which nothing checks: *)
(* the loop then writes into the void and the old file stays.              *)
(* An operator F_Variant next to an operator F is a plausible defect of F. *)
(***************************************************************************)
EXTENDS Naturals, Sequences, FiniteSets, FiniteSetsExt

CONSTANTS
  Size,     \* MPI_Comm_size
  Machine,
  Addr,
  NoAddr,   \* the empty string
  Layouts,  \* ways to place the ranks on machines
  Fabrics,  \* what fi_getinfo may list on each machine
  OldFiles  \* what the host file may hold before

Rank == 0 .. Size - 1
Entry == [wanted : BOOLEAN, addr : Addr \cup {NoAddr}]

ASSUME FindAssumption ==
  /\ Size \in Nat \ {0}
  /\ NoAddr \notin Addr
  /\ Layouts \subseteq [Rank -> Machine]
  /\ Fabrics \subseteq [Machine -> Seq(Entry)]
  /\ OldFiles \subseteq Seq(Addr)

VARIABLES
  home,    \* home[r]: the machine of rank r
  infos,   \* infos[m]: the list of fi_getinfo, empty if it fails
  stage,
  ip,      \* ip[r]: local_ip of rank r; all_ips once they are gathered
  line,    \* i of rank 0's loop
  opened,  \* outfile.is_open()
  outfile  \* the lines of the host file

findVars == <<home, infos, stage, ip, line, opened, outfile>>

FindInit ==
  /\ home \in Layouts
  /\ infos \in Fabrics
  /\ stage = [r \in Rank |-> "find"]
  /\ ip = [r \in Rank |-> NoAddr]
  /\ line = 0
  /\ opened = FALSE
  /\ outfile \in OldFiles

\* The entries that have a source address on the fabric asked for, and the
\* address of the first of them.
Hits_AnyFabric(list) == {k \in DOMAIN list : list[k].addr # NoAddr}

Hits(list) == {k \in DOMAIN list : list[k].wanted /\ list[k].addr # NoAddr}

find_ip_from_fabric(list) ==
  IF Hits(list) = {} THEN NoAddr ELSE list[Min(Hits(list))].addr

FindIp(r) ==
  /\ stage[r] = "find"
  /\ ip' = [ip EXCEPT ![r] = find_ip_from_fabric(infos[home[r]])]
  /\ stage' = [stage EXCEPT ![r] = "gather"]
  /\ UNCHANGED <<home, infos, line, opened, outfile>>

\* Rank 0 opens the file, which truncates it, or fails to.
OpenFile == \/ opened' = TRUE /\ outfile' = <<>>
            \/ UNCHANGED <<opened, outfile>>

\* MPI_Gather: a rank other than 0 is done when its address is on its way,
\* rank 0 goes on, and opens the file, when it has those of all.
Gather_Early(r) ==
  /\ stage[r] = "gather"
  /\ IF r = 0 THEN /\ OpenFile
                   /\ stage' = [stage EXCEPT ![r] = "write"]
              ELSE /\ stage' = [stage EXCEPT ![r] = "done"]
                   /\ UNCHANGED <<opened, outfile>>
  /\ UNCHANGED <<home, infos, ip, line>>

Gather_Appends(r) ==
  /\ stage[r] = "gather"
  /\ r = 0 => \A q \in Rank : stage[q] # "find"
  /\ stage' = [stage EXCEPT ![r] = IF r = 0 THEN "write" ELSE "done"]
  /\ opened' = (opened \/ r = 0)
  /\ UNCHANGED <<home, infos, ip, line, outfile>>

Gather(r) ==
  /\ stage[r] = "gather"
  /\ \/ /\ r # 0
        /\ stage' = [stage EXCEPT ![r] = "done"]
        /\ UNCHANGED <<opened, outfile>>
     \/ /\ r = 0
        /\ \A q \in Rank : stage[q] # "find"
        /\ OpenFile
        /\ stage' = [stage EXCEPT ![r] = "write"]
  /\ UNCHANGED <<home, infos, ip, line>>

WriteLine_KeepsEmpty ==
  /\ stage[0] = "write"
  /\ \/ /\ line < Size
        /\ outfile' = IF opened THEN Append(outfile, ip[line]) ELSE outfile
        /\ line' = line + 1
        /\ UNCHANGED stage
     \/ /\ line = Size
        /\ stage' = [stage EXCEPT ![0] = "done"]
        /\ UNCHANGED <<line, outfile>>
  /\ UNCHANGED <<home, infos, ip, opened>>

WriteLine_Stuck ==
  /\ stage[0] = "write"
  /\ \/ /\ line < Size
        /\ ip[line] # NoAddr
        /\ outfile' = IF opened THEN Append(outfile, ip[line]) ELSE outfile
        /\ line' = line + 1
        /\ UNCHANGED stage
     \/ /\ line = Size
        /\ stage' = [stage EXCEPT ![0] = "done"]
        /\ UNCHANGED <<line, outfile>>
  /\ UNCHANGED <<home, infos, ip, opened>>

\* One iteration of rank 0's loop, each line flushed; or its end.
WriteLine ==
  /\ stage[0] = "write"
  /\ \/ /\ line < Size
        /\ outfile' = IF opened /\ ip[line] # NoAddr
                         THEN Append(outfile, ip[line]) ELSE outfile
        /\ line' = line + 1
        /\ UNCHANGED stage
     \/ /\ line = Size
        /\ stage' = [stage EXCEPT ![0] = "done"]
        /\ UNCHANGED <<line, outfile>>
  /\ UNCHANGED <<home, infos, ip, opened>>

FindNext == WriteLine \/ \E r \in Rank : FindIp(r) \/ Gather(r)

FindDone == \A r \in Rank : stage[r] = "done"
-----------------------------------------------------------------------------
\* The part of the type invariant that chi_net_find keeps.
FindTypeOK ==
  /\ home \in Layouts
  /\ infos \in Fabrics
  /\ stage \in [Rank -> {"find", "gather", "write", "done"}]
  /\ ip \in [Rank -> Addr \cup {NoAddr}]
  /\ line \in 0 .. Size
  /\ opened \in BOOLEAN
  /\ outfile \in Seq(Addr)

\* The line of rank r, if it has an address: ranks without one have no line.
LineOf(r) == Cardinality({q \in 0 .. r : ip[q] # NoAddr})

\* The file that is left holds the addresses of this run in the order of the
\* ranks, each rank's on the line that counts the addresses up to its own,
\* and nothing else: neither a rank that was slow nor a line of an old file.
\* If it could not be opened it is the old file as it was, never a mixture.
FileListsRanks ==
  FindDone =>
    \/ /\ opened
       /\ Len(outfile) = LineOf(Size - 1)
       /\ \A r \in Rank : ip[r] # NoAddr => outfile[LineOf(r)] = ip[r]
    \/ ~opened /\ outfile \in OldFiles
=============================================================================
