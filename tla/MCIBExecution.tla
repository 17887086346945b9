--------------------------- MODULE MCIBExecution ----------------------------
(* TLC instances of IBExecution.                                            *)
EXTENDS IBExecution, TLC

CONSTANTS e1, e2
MCEvents   == {e1, e2}
MCOneEvent == {e1}
MCOrders   == {0, 1}

\* No definition tells the events apart, so they may be permuted.
EventSymmetry == Permutations(MCEvents)

=============================================================================
