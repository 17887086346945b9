---------------------------- MODULE MCPaperTrader ----------------------------
(* TLC instances of PaperTrader.                                            *)
EXTENDS PaperTrader

CONSTANTS s1, s2, x
MCTwoTrades == {s1, s2}
MCWithOther == {s1, x}
MCBitcoin   == {s1}
MCOneShort  == {s2}

=============================================================================
