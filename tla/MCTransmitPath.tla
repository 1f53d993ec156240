--------------------------- MODULE MCTransmitPath ---------------------------
(* The transmit path with every attribute, for Transmit.cfg. *)
EXTENDS TransmitPath

MCAttributes == {End, Fixed, Variable}
=============================================================================
