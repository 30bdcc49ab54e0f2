--------------------------- MODULE MCBulkTransfer ---------------------------
(***************************************************************************)
(* The vectors of chi_net_bench, with and without data, and vectors that   *)
(* mix the flags: a segment that is only exposed, one that is not part of  *)
(* the transfer, one that has nothing in it.                               *)
(***************************************************************************)
EXTENDS BulkTransfer

Seg(flags, n) == [flags_ |-> flags, data_size_ |-> n]

MCXfers ==
  {<<Seg(DT_WRITE, 1)>>,
   <<Seg(DT_WRITE, 0)>>,
   <<Seg({}, 2), Seg(DT_EXPOSE, 1)>>,
   <<Seg(DT_FREE_DATA, 1)>>,
   <<Seg(DT_WRITE \cup DT_FREE_DATA, 1), Seg(DT_EXPOSE, 0), Seg(DT_WRITE, 1)>>}
=============================================================================
