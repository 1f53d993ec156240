------------------------------ MODULE MCDspApp ------------------------------
(***************************************************************************)
(* The receive path on a small instance.                                   *)
(***************************************************************************)
EXTENDS DspApp

MCSample == 0 .. MaxCapture

\* What an ARM program that never asks for the PA temperature sends.
MCCommands == {"LMX2571_TX", "LMX2571_RX", "RSSI_RD"}
MCAllCommands == Switches \union Requests
=============================================================================
