----------------------------- MODULE HostSetup ------------------------------
(***************************************************************************)
(* From a cluster to node ids: chi_net_find writes the host file, and when *)
(* it is done every machine starts chi_net_bench or chi_net_ping, which    *)
(* read it as ServerConfig's BenchmarkInit or PingInit says and build the  *)
(* table of hosts (RpcContext::ServerInit).  Which machine is which node   *)
(* is decided by all three.                                                *)
(***************************************************************************)
EXTENDS NetFind

CONSTANTS
  Local,     \* Local[m]: addresses of m's fabric interfaces, as HostTable's
  Localhost, \* the host name "localhost"
  Loopback,  \* the address it stands for
  NoFabric   \* machines on which fi_getinfo fails in _IsAddressLocal

ASSUME LocalhostAssumption ==
  /\ Localhost \notin Addr /\ Loopback \in Addr
  /\ Local \in [Machine -> SUBSET Addr]
  /\ NoFabric \subseteq Machine

VARIABLES
  args,                \* the command line, the same on every machine
  pc, hosts, nodeId    \* as HostTable's

tableVars == <<pc, hosts, nodeId>>
vars == <<args, findVars, tableVars>>

\* The program, whether the number of arguments is right, whether the host
\* file argument is not empty, and whether "local" is asked for, which
\* chi_net_bench has no argument for.
Args ==
  {a \in [program : {"bench", "ping"}, complete : BOOLEAN,
          path : BOOLEAN, local : BOOLEAN] : a.program = "bench" => ~a.local}

\* rpc_.host_names_: the lines of the host file, or localhost without one.
HostNames == IF args.path THEN outfile ELSE <<Localhost>>

\* A line that is a dotted address is returned by _GetIpAddress as it is.
Table == INSTANCE HostTable WITH
  file <- HostNames,
  localOnly <- args.local,
  Name <- Addr \cup {Localhost},
  Answers <- [n \in Addr \cup {Localhost} |->
                IF n = Localhost THEN {Loopback} ELSE {n}],
  HostFiles <- {}

Init ==
  /\ FindInit
  /\ args \in Args
  /\ pc = [m \in Machine |-> IF args.complete THEN "resolve" ELSE "fatal"]
  /\ hosts = [m \in Machine |-> <<>>]
  /\ nodeId = [m \in Machine |-> 1]

FindPhase == FindNext /\ UNCHANGED <<args, tableVars>>

TablePhase ==
  /\ FindDone
  /\ UNCHANGED <<args, findVars>>
  /\ Table!Next

Next == FindPhase \/ TablePhase

Fairness == WF_vars(Next)

Spec == Init /\ [][Next]_vars
FairSpec == Spec /\ Fairness
-----------------------------------------------------------------------------
\* Type invariant of chi_net_find's ranks and of the tables.
TypeOK ==
  /\ FindTypeOK
  /\ args \in Args
  /\ FindDone => Table!ShapeOK

\* Each machine's interfaces on the fabric have addresses of their own.
OwnAddresses ==
  \A m \in Machine :
    \A k \in 1 .. Len(infos[m]) :
      infos[m][k].wanted /\ infos[m][k].addr # NoAddr =>
        \A q \in Machine : infos[m][k].addr \in Local[q] <=> q = m

OneRankPerMachine ==
  \A r, q \in Rank : home[r] = home[q] => r = q

Ended(m) == pc[m] \in {"ready", "fatal"}

\* With one rank per machine, the node ids are the machines: every line of
\* the file chi_net_find has written is the id of one machine, that of the
\* rank that wrote it.  Only a machine where fi_getinfo fails on the second
\* occasion does not become that node.
EveryLineIsANode ==
  /\ OwnAddresses /\ OneRankPerMachine
  /\ opened /\ args.complete /\ args.path /\ ~args.local
  => \A r \in Rank :
       (Ended(home[r]) /\ ip[r] # NoAddr /\ home[r] \notin NoFabric) =>
         /\ pc[home[r]] = "ready"
         /\ nodeId[home[r]] = LineOf(r)

\* A machine the file does not name never runs as a node: it would answer
\* under the id of another.  Only a program told to run without a host file
\* does, on a table of its own.  Of an old file that could not be replaced
\* nothing is claimed.
UnlistedStaysOut ==
  \A m \in Machine :
    (OwnAddresses /\ (args.path => opened) /\ pc[m] = "ready") =>
      \/ ~args.path /\ Len(hosts[m]) = 1
      \/ \E r \in Rank : home[r] = m /\ ip[r] # NoAddr

\* Every machine comes to an end of its start-up.
SetupEnds == <>(\A m \in Machine : Ended(m))
=============================================================================
