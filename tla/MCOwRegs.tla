------------------------------ MODULE MCOwRegs ------------------------------
(***************************************************************************)
(* A scaled-down timer for TLC: three periods of three ticks at most.      *)
(***************************************************************************)
EXTENDS OwRegsProps

\* One slot, as many as fit, and one more than fit.
MCTables == {<<"zero">>, <<"zero", "one", "zero">>, <<"one", "zero", "zero", "one">>}

\* Nothing, less and more than a period, and more than the timer's reach.
MCWaits == {0, 1, 5, 10}
=============================================================================
