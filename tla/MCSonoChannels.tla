--------------------------- MODULE MCSonoChannels ---------------------------
(* Instances of SonoChannels for TLC. *)
EXTENDS SonoChannels

CONSTANTS alice, bob
=============================================================================
