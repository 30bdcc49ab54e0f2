---------------------------- MODULE MCHostSetup -----------------------------
(***************************************************************************)
(* Three ranks: on a machine each, in two orders, or two on one machine    *)
(* and none on another, which starts the program all the same.  A machine  *)
(* is on the fabric, is on it besides another one, or is not, or           *)
(* fi_getinfo fails there; on m3 it fails when ServerInit asks again.      *)
(***************************************************************************)
EXTENDS HostSetup, TLC

CONSTANTS m1, m2, m3, a1, a2, a3, loop

MCMachine == {m1, m2, m3}
MCAddr == {a1, a2, a3, loop}
MCLocal == m1 :> {a1, loop} @@ m2 :> {a2, loop} @@ m3 :> {a3, loop}

MCLayouts ==
  {0 :> m1 @@ 1 :> m2 @@ 2 :> m3,
   0 :> m3 @@ 1 :> m1 @@ 2 :> m2,
   0 :> m1 @@ 1 :> m1 @@ 2 :> m3}

On(a) == [wanted |-> TRUE, addr |-> a]
Off(a) == [wanted |-> FALSE, addr |-> a]

MCLists(a) == {<<>>, <<On(a)>>, <<Off(loop), On(NoAddr), On(a)>>}

MCFabrics ==
  {m1 :> x @@ m2 :> y @@ m3 :> z :
     x \in MCLists(a1), y \in MCLists(a2), z \in MCLists(a3)}

MCOldFiles == {<<>>, <<a3, loop>>}
=============================================================================
