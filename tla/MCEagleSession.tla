--------------------------- MODULE MCEagleSession ---------------------------
(* TLC instance of EagleSession: four numbered frames, three sessions.      *)
EXTENDS EagleSession

MCEvents == 0 .. 4

=============================================================================
