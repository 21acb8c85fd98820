-------------------------------- MODULE MCLed --------------------------------
(* Clients of the LED driver for TLC. Clients are alike, and so are ports. *)
EXTENDS LedClient, TLC

Alike == Permutations(Clients) \cup Permutations(Ports)
=============================================================================
