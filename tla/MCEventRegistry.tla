--------------------------- MODULE MCEventRegistry ---------------------------
(***************************************************************************)
(* Model-checking instance of EventRegistry: one event id sent clean,      *)
(* padded with whitespace and followed by a NUL byte, the two cause codes  *)
(* with an icon and one without.                                           *)
(***************************************************************************)
EXTENDS EventRegistry

MCEvNoise == {"none", "ws", "nul"}
MCCauseCodes == {6, 7, 3}
=============================================================================
