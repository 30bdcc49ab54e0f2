------------------------------ MODULE FullPing ------------------------------
(***************************************************************************)
(* fullping.cc (not built at present): a client that pings hosts and a     *)
(* server that listens, both directly over libfabric.  Each opens a ladder *)
(* of objects, any rung of which may fail, and has a list of statements    *)
(* for every failure that releases what is open by then.                   *)
(*                                                                         *)
(* Values of step: "main"; "hints"; "loop" (head of PingAll's loop); a     *)
(* rung; "release" (statements of todo are left to run); "returned".       *)
(* An operator F_Variant next to an operator F is a plausible defect of F. *)
(***************************************************************************)
EXTENDS Naturals, Sequences

CONSTANTS
  Modes,    \* values of the argument <mode> to consider
  MaxLines  \* the longest host file to consider

ASSUME FullPingAssumption == MaxLines \in Nat

VARIABLES
  mode,   \* argv[5]
  lines,  \* the number of hosts in the host file, which main reads and drops
  hosts,  \* hosts: how many there are, the name of one does not matter
  i,      \* the host PingAll is at
  step,
  held,   \* the objects that are open
  todo,   \* the objects the running list of releases has still to close
  resume, \* where control goes after the list
  status  \* what main returns

vars == <<mode, lines, hosts, i, step, held, todo, resume, status>>

Objects == {"hints", "info", "fabric", "domain", "ep", "pep"}

\* What an object was opened from, and must not outlive.
OpenedFrom == [fabric |-> "info", domain |-> "fabric", ep |-> "domain",
               pep |-> "fabric"]

\* The calls of PingAll and of LaunchServer, in order.
Rungs ==
  [client |-> <<"info", "fabric", "domain", "ep", "send", "recv">>,
   server |-> <<"info", "fabric", "domain", "pep", "listen">>]

\* What is released when a rung fails.
OnFail_NoFabric(m, rung) ==
  (IF rung = "info" THEN <<>> ELSE <<"info">>) \o
  (IF m = "server" THEN <<"hints">> ELSE <<>>)

OnFail_FabricFirst(m, rung) ==
  CASE rung = "info" -> <<>>
    [] rung = "fabric" -> <<"info">>
    [] rung = "domain" -> <<"fabric", "info">>
    [] OTHER -> <<"fabric", "domain", "info">>

OnFail_Itself(m, rung) ==
  IF rung = "info" THEN <<"info">> ELSE <<rung, "info">>

OnFail(m, rung) ==
  LET opened ==
        CASE rung = "info" -> <<>>
          [] rung = "fabric" -> <<"info">>
          [] rung = "domain" -> <<"fabric", "info">>
          [] rung \in {"ep", "pep"} -> <<"domain", "fabric", "info">>
          [] rung = "listen" -> <<"pep", "domain", "fabric", "info">>
  IN  IF m = "server" THEN Append(opened, "hints") ELSE opened

Init ==
  /\ mode \in Modes
  /\ lines \in 0 .. MaxLines
  /\ hosts = 0
  /\ i = 1
  /\ step = "main"
  /\ held = {}
  /\ todo = <<>>
  /\ resume = "main"
  /\ status = "none"
-----------------------------------------------------------------------------
\* main: the hosts ParseHostfile returns are dropped, so that the list is
\* empty and becomes the one host "localhost"; then the branch on mode.
Main ==
  /\ step = "main"
  /\ hosts' = 1
  /\ step' = IF mode \in {"client", "server"} THEN "hints" ELSE "returned"
  /\ status' = IF mode \in {"client", "server"} THEN status ELSE "0"
  /\ UNCHANGED <<mode, lines, i, held, todo, resume>>

\* fi_allocinfo: return 1 if it fails.
AllocHints ==
  /\ step = "hints"
  /\ \/ /\ held' = {"hints"}
        /\ step' = IF mode = "client" THEN "loop" ELSE "info"
        /\ UNCHANGED status
     \/ /\ step' = "returned"
        /\ status' = "1"
        /\ UNCHANGED held
  /\ UNCHANGED <<mode, lines, hosts, i, todo, resume>>

\* Run the statements of list, then go to label.
Release(list, label) ==
  /\ todo' = list
  /\ resume' = label
  /\ step' = "release"

Loop_NoEnd ==
  /\ step = "loop"
  /\ step' = "info"
  /\ UNCHANGED <<mode, lines, hosts, i, held, todo, resume, status>>

\* The loop of PingAll over the hosts; after it the hints, and return 0.
Loop ==
  /\ step = "loop"
  /\ \/ /\ i <= hosts
        /\ step' = "info"
        /\ UNCHANGED <<todo, resume, status>>
     \/ /\ i > hosts
        /\ Release(<<"hints">>, "returned")
        /\ status' = "0"
  /\ UNCHANGED <<mode, lines, hosts, i, held>>

\* A rung succeeds: on to the next, and after the last to the cleanup; the
\* server returns 0 with everything open.
Climb(m) ==
  \E k \in 1 .. Len(Rungs[m]) :
    /\ step = Rungs[m][k]
    /\ held' = IF step \in Objects THEN held \cup {step} ELSE held
    /\ \/ /\ k < Len(Rungs[m])
          /\ step' = Rungs[m][k + 1]
          /\ UNCHANGED <<todo, resume, i, status>>
       \/ /\ k = Len(Rungs[m])
          /\ IF m = "client"
               THEN /\ Release(<<"ep", "domain", "fabric", "info">>, "loop")
                    /\ i' = i + 1
                    /\ UNCHANGED status
               ELSE /\ step' = "returned"
                    /\ status' = "0"
                    /\ UNCHANGED <<todo, resume, i>>

\* A rung fails: PingAll goes to the next host ("continue"), or past a failed
\* send or receive; LaunchServer returns 1.
Fail(m) ==
  /\ step \in {Rungs[m][k] : k \in 1 .. Len(Rungs[m])} \ {"send", "recv"}
  /\ Release(OnFail(m, step), IF m = "client" THEN "loop" ELSE "returned")
  /\ i' = IF m = "client" THEN i + 1 ELSE i
  /\ status' = IF m = "client" THEN status ELSE "1"
  /\ UNCHANGED held

\* fi_close or fi_freeinfo of the next object on the list.
Close ==
  /\ step = "release"
  /\ \/ /\ todo # <<>>
        /\ held' = held \ {Head(todo)}
        /\ todo' = Tail(todo)
        /\ UNCHANGED step
     \/ /\ todo = <<>>
        /\ step' = resume
        /\ UNCHANGED <<held, todo>>
  /\ UNCHANGED <<mode, lines, hosts, i, resume, status>>

Ladder ==
  /\ mode \in {"client", "server"}
  /\ Climb(mode) \/ Fail(mode)
  /\ UNCHANGED <<mode, lines, hosts>>

Next == Main \/ AllocHints \/ Loop \/ Ladder \/ Close

Spec == Init /\ [][Next]_vars
-----------------------------------------------------------------------------
\* Type invariant; PingAll's loop stays within its list.
TypeOK ==
  /\ mode \in Modes
  /\ lines \in 0 .. MaxLines
  /\ hosts \in Nat
  /\ i \in 1 .. hosts + 1
  /\ held \subseteq Objects
  /\ todo \in Seq(Objects)
  /\ step \in {"main", "hints", "loop", "release", "returned", "info",
               "fabric", "domain", "ep", "pep", "send", "recv", "listen"}
  /\ resume \in {"main", "loop", "returned"}
  /\ status \in {"none", "0", "1"}

\* Whatever rung failed, nothing but the hints is open when PingAll goes to a
\* host, and nothing at all when it, or a server that failed, has returned.
NothingLeaks ==
  /\ step = "loop" => held = {"hints"}
  /\ (step = "returned" /\ (mode = "client" \/ status = "1")) => held = {}

\* Each statement of a release list finds its object open: none is closed
\* twice, none that was never opened.
ReleasesWhatIsOpen == step = "release" /\ todo # <<>> => Head(todo) \in held

\* An object is closed only after every object that was opened from it.
ChildrenFirst ==
  [][\A o \in DOMAIN OpenedFrom :
       (OpenedFrom[o] \in held /\ OpenedFrom[o] \notin held') =>
         o \notin held']_vars
=============================================================================
