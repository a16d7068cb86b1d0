------------------------------ MODULE MCTrxcon ------------------------------
(* An instance of Trxcon for TLC: a scan of three ARFCNs, whose second has no *)
(* frequency, and a scan of two that have one.                               *)
EXTENDS Trxcon

Scans == {<<1, 3>>, <<3, 4>>}

\* Bound: once a repetition crossed its answer, of which the properties only
\* say that it happened, longer queues are not looked into.
FewOnceLate == late => Len(trx_ctrl_list) <= 1
=============================================================================
