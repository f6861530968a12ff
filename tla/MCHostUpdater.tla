---------------------------- MODULE MCHostUpdater ----------------------------
(* Images of one and of two blocks; the short one begins the long one.         *)
EXTENDS HostUpdater

MCImages == {<<1>>, <<1, 2>>}

=============================================================================
