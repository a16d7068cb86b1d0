------------------------------ MODULE MCTrxIf ------------------------------
(***************************************************************************)
(* An instance of TrxIf for TLC: one request of each kind that trx_if.c     *)
(* treats differently, a frequency that cannot be converted, and two        *)
(* measurements, which share a command name.                                *)
(***************************************************************************)
EXTENDS TrxIf

Convertible == {<<"arfcn", 1>>, <<"arfcn", 2>>}
Undefined   == {<<"arfcn", 3>>}
Advances    == {<<"ta", 0>>}

Req(t, a) == [type |-> t, arg |-> a]

Requests ==
  {Req("RESET", NoArg), Req("POWERON", NoArg),
   Req("SETFREQ_H1", <<"arfcn", 1>>), Req("SETFREQ_H0", <<"arfcn", 3>>),
   Req("SETTA", <<"ta", 0>>),
   Req("MEASURE", <<"arfcn", 1>>), Req("MEASURE", <<"arfcn", 2>>)}
=============================================================================
