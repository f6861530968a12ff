---------------------------- MODULE DurableRecord ----------------------------
(***************************************************************************)
(* What the boot-state store promises its callers: one record, replaced    *)
(* atomically by a record of the next generation.  A save that returns     *)
(* success has replaced it; one that fails, or that a reset cuts short,    *)
(* has replaced it completely or not at all.                               *)
(***************************************************************************)
EXTENDS BootState

VARIABLES
  durable,            \* the record load returns
  call                \* the save in progress: its status and its record

vars == <<durable, call>>

NoCall == [status |-> "idle", rec |-> NoRecord]

Init == durable \in BootRecord /\ call = NoCall

Begin ==
  /\ call.status = "idle"
  /\ call' \in [status : {"saving"}, rec : BootRecord]
  /\ call'.rec.generation = NextGeneration(durable.generation)
  /\ UNCHANGED durable

Commit ==
  /\ call.status = "saving"
  /\ durable' = call.rec
  /\ call' = [call EXCEPT !.status = "ok"]

Fail ==
  /\ call.status = "saving"
  /\ durable' \in {durable, call.rec}
  /\ call' = [call EXCEPT !.status = "failed"]

Return ==
  /\ call.status \in {"ok", "failed"}
  /\ call' = NoCall
  /\ UNCHANGED durable

\* A reset in the middle of a call: the caller never hears its outcome.
Reset ==
  /\ call' = NoCall
  /\ UNCHANGED durable

Next == Begin \/ Commit \/ Fail \/ Return \/ Reset

Spec == Init /\ [][Next]_vars

=============================================================================
