--------------------------- MODULE MCUpdateSession ---------------------------
(* An image of two units, with bad vectors, a sound one of three, and the      *)
(* records of a blank board and of one provisioned with slot B.               *)
EXTENDS UpdateSession

MCImages == {<<0, 1>>, <<1, 1, 0>>}
MCBadVectors == {<<0, 1>>}
MCRecords == {InitDefault, FactoryRecord("B")}

=============================================================================
