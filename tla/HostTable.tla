----------------------------- MODULE HostTable -----------------------------
(***************************************************************************)
(* RpcContext::ServerInit of rpc.h, run by every machine of a job on its   *)
(* own: it resolves the lines of the host file into the table hosts_,      *)
(* finds its own node id by looking for the first line with one of its     *)
(* own addresses and, for a local test, reduces the table to that line.    *)
(* Nothing is exchanged: that the tables and ids of the machines fit       *)
(* together is up to the host file and the resolver.                       *)
(*                                                                         *)
(* An operator F_Variant next to an operator F is a plausible defect of F. *)
(***************************************************************************)
EXTENDS Naturals, Sequences

CONSTANTS
  Machine,
  Name,       \* lines a host file can have, host names or dotted addresses
  Addr,
  Local,      \* Local[m]: addresses of m's fabric interfaces, loopback too
  Answers,    \* Answers[n]: what the resolver may give for n; {}: unknown
  HostFiles,  \* the host files to consider
  NoFabric    \* machines on which fi_getinfo fails

ASSUME HostAssumption ==
  /\ Local \in [Machine -> SUBSET Addr]
  /\ Answers \in [Name -> SUBSET Addr]
  /\ HostFiles \subseteq Seq(Name)
  /\ NoFabric \subseteq Machine

VARIABLES
  file,     \* config_->rpc_.host_names_, the same for all machines
  localOnly,\* config_->local_only_
  pc,       \* pc[m]: "resolve", "find", "reset", "ready" or "fatal"
  hosts,    \* hosts[m]: hosts_
  nodeId    \* nodeId[m]: node_id_, also the counter of _FindThisHost

vars == <<file, localOnly, pc, hosts, nodeId>>

Host == [hostname : Name, ip : Addr, id : Nat]

Init ==
  /\ file \in HostFiles
  /\ localOnly \in BOOLEAN
  /\ pc = [m \in Machine |-> "resolve"]
  /\ hosts = [m \in Machine |-> <<>>]
  /\ nodeId = [m \in Machine |-> 1]

Goto(m, label) == pc' = [pc EXCEPT ![m] = label]

\* _GetIpAddress of the next line: the first address of the answer, or kFatal.
Resolve(m) ==
  /\ pc[m] = "resolve"
  /\ Len(hosts[m]) < Len(file)
  /\ LET k == Len(hosts[m]) + 1 IN
       \/ /\ \E a \in Answers[file[k]] :
               hosts' = [hosts EXCEPT ![m] =
                  Append(@, [hostname |-> file[k], ip |-> a, id |-> k])]
          /\ UNCHANGED pc
       \/ /\ Answers[file[k]] = {}
          /\ Goto(m, "fatal")
          /\ UNCHANGED hosts
  /\ UNCHANGED <<file, localOnly, nodeId>>

Resolved(m) ==
  /\ pc[m] = "resolve"
  /\ Len(hosts[m]) = Len(file)
  /\ Goto(m, "find")
  /\ UNCHANGED <<file, localOnly, hosts, nodeId>>

FindThisHost_Last(m) ==
  /\ pc[m] = "find"
  /\ LET mine == {i \in 1 .. Len(hosts[m]) : hosts[m][i].ip \in Local[m]} IN
       IF mine = {} \/ m \in NoFabric
         THEN Goto(m, "fatal") /\ UNCHANGED nodeId
         ELSE /\ nodeId' = [nodeId EXCEPT ![m] =
                   CHOOSE i \in mine : \A j \in mine : j <= i]
              /\ Goto(m, "reset")
  /\ UNCHANGED <<file, localOnly, hosts>>

FindThisHost_Default(m) ==
  /\ pc[m] = "find"
  /\ LET i == nodeId[m] IN
       IF i > Len(hosts[m])
         THEN /\ nodeId' = [nodeId EXCEPT ![m] = 1]
              /\ Goto(m, IF hosts[m] = <<>> THEN "fatal" ELSE "reset")
         ELSE IF hosts[m][i].ip \in Local[m]
           THEN Goto(m, "reset") /\ UNCHANGED nodeId
           ELSE nodeId' = [nodeId EXCEPT ![m] = i + 1] /\ UNCHANGED pc
  /\ UNCHANGED <<file, localOnly, hosts>>

\* One iteration of _FindThisHost: _IsAddressLocal of the next line, kFatal
\* without fabric or without a line that is local.
FindThisHost(m) ==
  /\ pc[m] = "find"
  /\ LET i == nodeId[m] IN
       \/ /\ i > Len(hosts[m]) \/ m \in NoFabric
          /\ Goto(m, "fatal")
          /\ UNCHANGED nodeId
       \/ /\ i <= Len(hosts[m]) /\ m \notin NoFabric
          /\ IF hosts[m][i].ip \in Local[m]
               THEN Goto(m, "reset") /\ UNCHANGED nodeId
               ELSE /\ nodeId' = [nodeId EXCEPT ![m] = i + 1]
                    /\ UNCHANGED pc
  /\ UNCHANGED <<file, localOnly, hosts>>

ResetIds_First(m) ==
  /\ pc[m] = "reset"
  /\ IF localOnly
       THEN /\ hosts' = [hosts EXCEPT ![m] = <<[Head(@) EXCEPT !.id = 1]>>]
            /\ nodeId' = [nodeId EXCEPT ![m] = 1]
       ELSE UNCHANGED <<hosts, nodeId>>
  /\ Goto(m, "ready")
  /\ UNCHANGED <<file, localOnly>>

ResetIds_KeepsId(m) ==
  /\ pc[m] = "reset"
  /\ IF localOnly
       THEN /\ hosts' = [hosts EXCEPT ![m] = <<@[nodeId[m]]>>]
            /\ nodeId' = [nodeId EXCEPT ![m] = 1]
       ELSE UNCHANGED <<hosts, nodeId>>
  /\ Goto(m, "ready")
  /\ UNCHANGED <<file, localOnly>>

\* "Reset the node ids": a local test keeps this host only, as node 1.
ResetIds(m) ==
  /\ pc[m] = "reset"
  /\ IF localOnly
       THEN /\ hosts' = [hosts EXCEPT ![m] =
                           <<[@[nodeId[m]] EXCEPT !.id = 1]>>]
            /\ nodeId' = [nodeId EXCEPT ![m] = 1]
       ELSE UNCHANGED <<hosts, nodeId>>
  /\ Goto(m, "ready")
  /\ UNCHANGED <<file, localOnly>>

Next ==
  \E m \in Machine :
    Resolve(m) \/ Resolved(m) \/ FindThisHost(m) \/ ResetIds(m)

Spec == Init /\ [][Next]_vars
-----------------------------------------------------------------------------
\* NumHosts and GetIpAddressFromNodeId, as machine m sees them: the latter
\* throws outside 1 .. NumHosts(m).
NumHosts(m) == Len(hosts[m])
GetIpAddressFromNodeId(m, id) == hosts[m][id].ip

Ready(m) == pc[m] = "ready"

\* The resolver gives one answer per line and no answer is an address of two
\* machines: no loopback, no shared service address.
Sane ==
  \A k \in 1 .. Len(file) :
    /\ \A a, b \in Answers[file[k]] : a = b
    /\ \A a \in Answers[file[k]], m, q \in Machine :
         (a \in Local[m] /\ a \in Local[q]) => m = q
-----------------------------------------------------------------------------
\* Every table and counter is well formed; the ids are the line numbers.
ShapeOK ==
  /\ localOnly \in BOOLEAN
  /\ pc \in [Machine -> {"resolve", "find", "reset", "ready", "fatal"}]
  /\ \A m \in Machine :
       /\ hosts[m] \in Seq(Host)
       /\ Len(hosts[m]) <= Len(file)
       /\ \A i \in 1 .. Len(hosts[m]) : hosts[m][i].id = i
       /\ nodeId[m] \in 1 .. Len(file) + 1

\* Type invariant of the machines' tables and counters.
TypeOK == file \in HostFiles /\ ShapeOK

\* A call reaches whom it names: the address a machine has for its own id is
\* its own, and with a sane host file every other machine that is node i is
\* where this machine sends calls to node i.
RoutesToSelf ==
  \A m \in Machine : Ready(m) =>
    /\ nodeId[m] <= NumHosts(m)
    /\ GetIpAddressFromNodeId(m, nodeId[m]) \in Local[m]
    /\ (Sane /\ ~localOnly) =>
         \A q \in Machine : Ready(q) =>
           GetIpAddressFromNodeId(m, nodeId[q]) \in Local[q]

\* With a sane host file no two machines take themselves for the same node,
\* so that there is one caller and one daemon per other id.
UniqueIds ==
  (Sane /\ ~localOnly) =>
    \A m, q \in Machine :
      (Ready(m) /\ Ready(q) /\ nodeId[m] = nodeId[q]) => m = q

\* A machine listed twice answers for its first line only: two lines never
\* make one machine two nodes.
FirstLineWins ==
  \A m \in Machine : (Ready(m) /\ ~localOnly) =>
    \A i \in 1 .. NumHosts(m) :
      GetIpAddressFromNodeId(m, i) \in Local[m] => nodeId[m] <= i
=============================================================================
