--------------------------- MODULE MCDeviceChannel ---------------------------
(* DeviceChannel on instances small enough for TLC.                          *)
EXTENDS DeviceChannel, TLC

\* Session ids are drawn at random and only compared for equality.
SessionSymmetry == Permutations(Sessions)
=============================================================================
