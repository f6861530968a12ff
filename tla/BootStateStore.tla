--------------------------- MODULE BootStateStore ----------------------------
(***************************************************************************)
(* The driver of the two-copy flash store of the boot-state record,        *)
(* shared/hal_impl/stm32l1/boot_state_store.c and its stm32f4 twin.        *)
(*                                                                         *)
(* A save erases the copy its generation's parity selects and then         *)
(* programs it word by word.  Every intermediate content of a copy fails   *)
(* boot_state_validate, so a copy is a record or NoRecord, and a reset     *)
(* between two words is a reset between EraseCopy and ProgramCopy.         *)
(***************************************************************************)
EXTENDS BootState

CONSTANT
  FlashErrors         \* may the flash controller report an erase or program error

ASSUME FlashErrorsAssumption == FlashErrors \in BOOLEAN

VARIABLES
  copies,             \* the flash: copy 0 (even generations) and copy 1 (odd)
  job                 \* write_record: its step and the record it writes

IdleJob == [step |-> "idle", rec |-> NoRecord]

Busy == job.step \in {"erase", "program"}
Returned == job.step \in {"ok", "failed"}

\* boot_state_store_load.
Load == LoadFrom(copies)

\* An erased flash, or what boot_state_image.py writes into the first copy.
FirstCopies == {NoRecord, InitDefault} \cup {FactoryRecord(s) : s \in Slots}

StoreInit ==
  /\ \E r \in FirstCopies :
       copies = [c \in {0, 1} |-> IF c = 0 THEN r ELSE NoRecord]
  /\ job = IdleJob

StoreTypeOK ==
  /\ copies \in [{0, 1} -> BootRecord \cup {NoRecord}]
  /\ job \in [step : {"idle", "erase", "program", "ok", "failed"},
              rec : BootRecord \cup {NoRecord}]
  /\ job.step # "idle" => job.rec \in BootRecord

-----------------------------------------------------------------------------
(* The steps of save_next.  A caller takes the result, step "ok" or "failed", *)
(* with Returns.                                                             *)

StartSave(rec) ==
  /\ job = IdleJob
  /\ job' = [step |-> "erase", rec |-> rec]
  /\ UNCHANGED copies

EraseCopy ==
  /\ job.step = "erase"
  /\ copies' = [copies EXCEPT ![CopyFor(job.rec)] = NoRecord]
  /\ job' = [job EXCEPT !.step = "program"]

ProgramCopy ==
  /\ job.step = "program"
  /\ copies' = [copies EXCEPT ![CopyFor(job.rec)] = job.rec]
  /\ job' = [job EXCEPT !.step = "ok"]

\* The controller refuses to unlock, or reports an error during the erase.
EraseFails ==
  /\ FlashErrors
  /\ job.step = "erase"
  /\ \/ UNCHANGED copies
     \/ copies' = [copies EXCEPT ![CopyFor(job.rec)] = NoRecord]
  /\ job' = [job EXCEPT !.step = "failed"]

\* An error at some word; the last words may already read as programmed.
ProgramFails ==
  /\ FlashErrors
  /\ job.step = "program"
  /\ \/ UNCHANGED copies
     \/ copies' = [copies EXCEPT ![CopyFor(job.rec)] = job.rec]
  /\ job' = [job EXCEPT !.step = "failed"]

WriteRecord == EraseCopy \/ ProgramCopy \/ EraseFails \/ ProgramFails

Returns ==
  /\ Returned
  /\ job' = IdleJob
  /\ UNCHANGED copies

\* A reset forgets the call; the flash keeps what it holds.
StoreReset ==
  /\ job' = IdleJob
  /\ UNCHANGED copies

-----------------------------------------------------------------------------
(* What the store is there for. *)

\* Once a copy holds a valid record one always does, so that the device never
\* falls back to the blank default, which would forget the confirmed image
\* (write_record erases one copy before it programs it).  Whether it holds is
\* up to the callers: which copy a save erases depends on the generation of the
\* record they pass alone.
SomeCopyIsValid == \E c \in {0, 1} : copies[c] # NoRecord

RecordIsNeverLost == [][SomeCopyIsValid => SomeCopyIsValid']_copies

=============================================================================
