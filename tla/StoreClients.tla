----------------------------- MODULE StoreClients ----------------------------
(***************************************************************************)
(* The boot-state store with its callers around it: each one loads the     *)
(* record, changes it by one call of the policy and saves it.  main.c of   *)
(* the bootloader, update_session.c and boot_confirmation_store.c.         *)
(***************************************************************************)
EXTENDS BootStateStore

CONSTANTS
  ChecksResults,      \* TRUE: a caller goes on with the record in RAM only after
                      \* a save that succeeded, as in update_session.c and
                      \* boot_confirmation_store.c.  FALSE: it goes on whatever
                      \* the save returned, as in bootloader/src/main.c
  MaxGeneration       \* bound on the generations a caller starts from

ASSUME ClientsAssumption ==
  /\ ChecksResults \in BOOLEAN
  /\ MaxGeneration \in Nat
  /\ MaxGeneration < GenerationModulus   \* flash wears out long before the wrap

VARIABLE
  ram                 \* the caller's boot_state_record_t, or NoRecord

vars == <<copies, job, ram>>

\* The records one call of the policy turns a loaded record into.
Changes(state) ==
  ( {MarkSlotPending(state, s, i) : s \in Slots, i \in Images}
    \cup {SelectCandidate(state).state, MarkPendingBad(state)}
    \cup (IF HasPending(state) THEN {ConfirmPending(state)} ELSE {}) )
  \ {state}

LoadRecord ==
  /\ job = IdleJob
  /\ ram' = Load
  /\ UNCHANGED <<copies, job>>

ChangeAndSave ==
  /\ ram # NoRecord
  /\ ram.generation < MaxGeneration
  /\ \E r \in Changes(ram) : ram' = r /\ StartSave(r)

\* A caller drops the record it saved, or goes on with it: main.c saves it
\* again, changed once more, without a load in between.
SaveReturns ==
  /\ Returns
  /\ \/ ram' = NoRecord
     \/ ram' = ram /\ (ChecksResults => job.step = "ok")

Reset ==
  /\ StoreReset
  /\ ram' = NoRecord

Init == StoreInit /\ ram = NoRecord

Next ==
  \/ WriteRecord /\ UNCHANGED ram
  \/ LoadRecord
  \/ ChangeAndSave
  \/ SaveReturns
  \/ Reset

Spec == Init /\ [][Next]_vars

-----------------------------------------------------------------------------
(* Properties. *)

TypeOK ==
  /\ StoreTypeOK
  /\ ram \in BootRecord \cup {NoRecord}

\* A save that returned success is what every later load returns, until the
\* next save: an ACTIVATE that was acknowledged is not forgotten.
AcknowledgedIsLoaded == job.step = "ok" => Load = job.rec

\* The strengthening the proofs need.  The parity of a generation says which
\* copy holds it, and the record being saved succeeds the one load returns, so
\* the copy a save erases is never the one that counts.
StoreInv ==
  /\ TypeOK
  /\ \A c \in {0, 1} : copies[c] # NoRecord => CopyFor(copies[c]) = c
  /\ Busy => job.rec.generation = Load.generation + 1
  /\ job.step = "program" => copies[CopyFor(job.rec)] = NoRecord
  /\ AcknowledgedIsLoaded
  /\ job.step = "failed" => FlashErrors
  /\ job.step # "idle" => ram = job.rec
  /\ job.step = "idle" => /\ job.rec = NoRecord
                          /\ ram # NoRecord => ram.generation = Load.generation

\* The store implements the atomic record of DurableRecord.
Durable == INSTANCE DurableRecord WITH
  durable <- Load,
  call <- [status |-> IF Busy THEN "saving" ELSE job.step, rec |-> job.rec]

ImplementsDurableRecord == Durable!Spec

=============================================================================
