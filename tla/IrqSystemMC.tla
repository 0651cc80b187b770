---------------------------- MODULE IrqSystemMC ----------------------------
(* Values for TLC: two regular lines beside the cascade, one extended line. *)
EXTENDS IrqSystem

MCLines   == {1, 2, 3, 16}
MCDevices == {2, 16}
MCWords   == {{}, {2}, {3}, {1, 2, 3, 16}}

\* software that leaves the cascade line alone
PlainWords == {{}, {2}, {2, 16}, {3}}

\* software that masks and forces with few values
LiveWords == {{}, {2, 3}}
=============================================================================
