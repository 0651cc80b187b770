------------------------------- MODULE UartMC -------------------------------
(* Values for TLC: a transmitter that tells of its last character, of its    *)
(* level, or of both.                                                        *)
EXTENDS ApbUart

MCControls == {{"TE", "TI"}, {"TE", "TF"}, {"TE", "TI", "TF"}}
=============================================================================
