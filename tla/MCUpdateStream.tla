---------------------------- MODULE MCUpdateStream ----------------------------
(* An empty packet; one of the greatest length with both bytes of the sync     *)
(* marker in it, but not the marker; one with the marker and too great a length *)
(* behind it, as the default session id makes it; and one whose payload looks   *)
(* like the beginning of a packet of its own length.                          *)
EXTENDS UpdateStream

MCPackets ==
  {<<9, 8, 0, 20>>, <<9, 8, 4, 9, 1, 3, 8, 22>>, <<9, 8, 3, 9, 8, 5, 23>>,
   <<9, 8, 3, 9, 8, 3, 21>>}

ASSUME MCCrcTells == CrcTells

=============================================================================
