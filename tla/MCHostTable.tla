---------------------------- MODULE MCHostTable ----------------------------
(***************************************************************************)
(* Two machines, one address each and the loopback address of both; a name *)
(* that is in DNS with two addresses, one that is unknown, and all host    *)
(* files of at most MaxLines lines.                                        *)
(***************************************************************************)
EXTENDS HostTable, TLC

CONSTANTS m1, m2, a1, a2, loop, MaxLines

MCMachine == {m1, m2}
MCAddr == {a1, a2, loop}
MCName == {"one", "one-alias", "two", "localhost", "roaming", "unknown"}

MCLocal == m1 :> {a1, loop} @@ m2 :> {a2, loop}

MCAnswers ==
  "one" :> {a1} @@ "one-alias" :> {a1} @@ "two" :> {a2} @@
  "localhost" :> {loop} @@ "roaming" :> {a1, a2} @@ "unknown" :> {}

MCHostFiles == UNION {[1 .. n -> MCName] : n \in 0 .. MaxLines}
=============================================================================
