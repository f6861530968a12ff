---------------------------- MODULE MCCanTransport ----------------------------
(* Packets of two and of three fragments, with and without padding, which can  *)
(* stand in for one another's second fragment.                               *)
EXTENDS CanTransport

MCPackets == {<<1, 2, 3>>, <<1, 4, 3>>, <<1, 2, 3, 0>>, <<6, 2, 3, 0>>, <<5, 2, 3, 4, 5>>}

ASSUME MCMixturesTell == MixturesTell

=============================================================================
