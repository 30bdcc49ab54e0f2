---------------------------- MODULE DaemonGroup ----------------------------
(***************************************************************************)
(* What the servers of a test promise, without engines, threads or the     *)
(* order of the caller's loops: a group of daemons answers test calls, is  *)
(* told to stop once the test is over, and only then leaves.               *)
(*                                                                         *)
(*   - no test call is made once a daemon has been told to stop;           *)
(*   - a daemon is told to stop when the caller's manner allows it:        *)
(*       "thorough"   every daemon has answered, and every call was        *)
(*       "patient"    every call was answered or has failed                *)
(*       "impatient"  the caller may abandon calls                         *)
(*   - a call is answered at most once, by a daemon that is present;       *)
(*   - a daemon leaves only after it was told to and is done with the      *)
(*     calls it works on, unless it is one of mayVanish.                   *)
(***************************************************************************)
CONSTANTS
  Node,       \* the daemons
  TestCall,   \* the calls a test can make
  NodeOf(_)   \* the daemon a call is for

VARIABLES
  manner,     \* of the caller; never changes
  mayVanish,  \* daemons that can disappear at any time; never changes
  member,     \* member[n]: "out", "in", "leaving" or "gone"
  asked,      \* the test calls made
  busy,       \* the test calls a daemon works on
  served,     \* the test calls a daemon has answered
  settled,    \* the test calls that are over: the caller has the answer or
              \* the error, or no daemon has the call
  told        \* the daemons that were told to stop

rigid == <<manner, mayVanish>>
groupVars == <<rigid, member, asked, busy, served, settled, told>>

GroupInit ==
  /\ manner \in {"thorough", "patient", "impatient"}
  /\ mayVanish \subseteq Node
  /\ member = [n \in Node |-> "out"]
  /\ asked = {}
  /\ busy = {}
  /\ served = {}
  /\ settled = {}
  /\ told = {}

Join(n) ==
  /\ member[n] = "out"
  /\ member' = [member EXCEPT ![n] = "in"]
  /\ UNCHANGED <<rigid, asked, busy, served, settled, told>>

Ask(c) ==
  /\ told = {}
  /\ c \notin asked
  /\ member[NodeOf(c)] = "in"
  /\ asked' = asked \cup {c}
  /\ UNCHANGED <<rigid, member, busy, served, settled, told>>

\* The daemon is not there, and never has the call: the caller may learn it
\* from the call itself.
AskNobody(c) ==
  /\ told = {}
  /\ c \notin asked
  /\ member[NodeOf(c)] # "in"
  /\ asked' = asked \cup {c}
  /\ settled' = settled \cup {c}
  /\ UNCHANGED <<rigid, member, busy, served, told>>

Begin(c) ==
  /\ c \in asked \ (busy \cup served \cup settled)
  /\ member[NodeOf(c)] = "in"
  /\ busy' = busy \cup {c}
  /\ UNCHANGED <<rigid, member, asked, served, settled, told>>

Serve(c) ==
  /\ c \in busy
  /\ member[NodeOf(c)] \in {"in", "leaving"}
  /\ busy' = busy \ {c}
  /\ served' = served \cup {c}
  /\ UNCHANGED <<rigid, member, asked, settled, told>>

\* The caller has the answer, or knows that no answer will come.
Settle(c) ==
  /\ c \in asked \ settled
  /\ c \in served \/ member[NodeOf(c)] \in {"leaving", "gone"}
  /\ settled' = settled \cup {c}
  /\ busy' = busy \ {c}
  /\ UNCHANGED <<rigid, member, asked, served, told>>

Tell(n) ==
  /\ manner = "patient" => asked = settled
  /\ manner = "thorough" =>
       asked = served /\ Node = {NodeOf(c) : c \in served}
  /\ told' = told \cup {n}
  /\ UNCHANGED <<rigid, member, asked, busy, served, settled>>

Leave(n) ==
  /\ member[n] = "in"
  /\ n \in told
  /\ member' = [member EXCEPT ![n] = "leaving"]
  /\ UNCHANGED <<rigid, asked, busy, served, settled, told>>

Depart(n) ==
  /\ member[n] # "gone"
  /\ \/ member[n] = "leaving" /\ \A c \in busy : NodeOf(c) # n
     \/ n \in mayVanish
  /\ member' = [member EXCEPT ![n] = "gone"]
  /\ UNCHANGED <<rigid, asked, busy, served, settled, told>>

GroupNext ==
  \/ \E n \in Node : Join(n) \/ Tell(n) \/ Leave(n) \/ Depart(n)
  \/ \E c \in TestCall : Ask(c) \/ AskNobody(c) \/ Begin(c) \/ Serve(c)
                         \/ Settle(c)

GroupSpec == GroupInit /\ [][GroupNext]_groupVars
=============================================================================
