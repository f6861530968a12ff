------------------------- MODULE StoreClients_proofs -------------------------
(***************************************************************************)
(* The two-copy store is an atomic record, for every set of images, every  *)
(* generation bound and every point at which a reset or a flash error cuts *)
(* a save short, as long as its callers are Disciplined: they look at what *)
(* a save returned, or the flash reports no errors.  main.c ignores the    *)
(* result, so with flash errors it is outside all of these theorems.       *)
(***************************************************************************)
EXTENDS StoreClients, BootState_proofs

Disciplined == ChecksResults \/ ~FlashErrors

\* Whatever policy call a caller makes, the record it then saves is well formed
\* and one generation ahead of the one it loaded.
LEMMA ChangesAdvance ==
  ASSUME NEW state \in BootRecord, state.generation < MaxGeneration,
         NEW r \in Changes(state)
  PROVE  r \in BootRecord /\ r.generation = state.generation + 1
  <1>1. NextGeneration(state.generation) = state.generation + 1
    BY NextGenerationIsSuccessor, ClientsAssumption, ModulusAssumption DEF BootRecord
  <1>2. r # state
    BY DEF Changes
  <1>3. CASE \E s \in Slots, i \in Images : r = MarkSlotPending(state, s, i)
    BY <1>1, <1>3, MarkSlotPendingType
  <1>4. CASE r = SelectCandidate(state).state
    BY <1>1, <1>2, <1>4, SelectCandidateType
  <1>5. CASE r = MarkPendingBad(state)
    BY <1>1, <1>2, <1>5, MarkPendingBadType
  <1>6. CASE HasPending(state) /\ r = ConfirmPending(state)
    BY <1>1, <1>6, ConfirmPendingType
  <1> QED BY <1>3, <1>4, <1>5, <1>6 DEF Changes

-----------------------------------------------------------------------------
\* A board as it is first flashed satisfies the invariant.
LEMMA InitEstablishesInv == Init => StoreInv
  <1> SUFFICES ASSUME Init PROVE StoreInv
    OBVIOUS
  <1>1. FirstCopies \subseteq BootRecord \cup {NoRecord}
    BY InitDefaultType, FactoryRecordType DEF FirstCopies
  <1>2. \A r \in FirstCopies : r # NoRecord => r.generation = 0
    BY DEF FirstCopies, InitDefault, FactoryRecord
  <1>3. TypeOK
    BY <1>1 DEF Init, StoreInit, IdleJob, TypeOK, StoreTypeOK
  <1>4. \A c \in {0, 1} : copies[c] # NoRecord => CopyFor(copies[c]) = c
    BY <1>2 DEF Init, StoreInit, CopyFor
  <1> QED
    BY <1>3, <1>4 DEF Init, StoreInit, IdleJob, StoreInv, AcknowledgedIsLoaded, Busy

\* Each step of the driver, and each call of a caller, keeps the invariant.
LEMMA StepKeepsInv ==
  ASSUME Disciplined
  PROVE  StoreInv /\ [Next]_vars => StoreInv'
  <1> SUFFICES ASSUME StoreInv, [Next]_vars PROVE StoreInv'
    OBVIOUS
  <1> USE DEF StoreInv
  <1>1. copies \in Flash /\ ParityHeld(copies) /\ Load \in BootRecord
    BY LoadFromType DEF TypeOK, StoreTypeOK, Flash, ParityHeld, Load
  <1>2. Load.generation \in Nat
    BY <1>1 DEF BootRecord
  <1>3. Busy => /\ job.rec \in BootRecord
                /\ job.rec.generation \in Nat
                /\ CopyFor(job.rec) \in {0, 1}
                /\ CopyFor(job.rec) = (Load.generation + 1) % 2
    BY <1>2, ParityAlternates DEF TypeOK, StoreTypeOK, Busy, BootRecord, CopyFor
  <1>4. LoadFrom(copies)' = LoadFrom(copies') /\ Load' = LoadFrom(copies')
    BY DEF LoadFrom, Load
  <1>5. CASE EraseCopy /\ UNCHANGED ram
    <2>1. Busy /\ job'.rec = job.rec /\ job'.step = "program"
      BY <1>5 DEF EraseCopy, Busy, TypeOK, StoreTypeOK
    <2>2. copies' = [copies EXCEPT ![CopyFor(job.rec)] = NoRecord]
      BY <1>5 DEF EraseCopy
    <2>3. Load' = Load
      BY <1>1, <1>3, <1>4, <2>1, <2>2, EraseKeepsLoad DEF Load
    <2>4. TypeOK'
      BY <1>5, <1>3, <2>1, <2>2 DEF EraseCopy, TypeOK, StoreTypeOK
    <2>5. \A c \in {0, 1} : copies'[c] # NoRecord => CopyFor(copies'[c]) = c
      BY <1>3, <2>1, <2>2 DEF TypeOK, StoreTypeOK
    <2>6. copies'[CopyFor(job'.rec)] = NoRecord
      BY <1>3, <2>1, <2>2 DEF TypeOK, StoreTypeOK
    <2> QED
      BY <1>5, <2>1, <2>3, <2>4, <2>5, <2>6
      DEF AcknowledgedIsLoaded, Busy, CopyFor
  <1>6. CASE ProgramCopy /\ UNCHANGED ram
    <2>1. Busy /\ job'.rec = job.rec /\ job'.step = "ok"
      BY <1>6 DEF ProgramCopy, Busy, TypeOK, StoreTypeOK
    <2>2. copies' = [copies EXCEPT ![CopyFor(job.rec)] = job.rec]
      BY <1>6 DEF ProgramCopy
    <2>3. Load' = job.rec
      BY <1>1, <1>3, <1>4, <1>6, <2>1, <2>2, ProgramSetsLoad
      DEF ProgramCopy, Load
    <2>4. TypeOK'
      BY <1>6, <1>3, <2>1, <2>2 DEF ProgramCopy, TypeOK, StoreTypeOK
    <2>5. \A c \in {0, 1} : copies'[c] # NoRecord => CopyFor(copies'[c]) = c
      BY <1>3, <2>1, <2>2 DEF TypeOK, StoreTypeOK
    <2> QED
      BY <1>6, <2>1, <2>3, <2>4, <2>5 DEF AcknowledgedIsLoaded, Busy
  <1>7. CASE EraseFails /\ UNCHANGED ram
    <2>1. Busy /\ job'.rec = job.rec /\ job'.step = "failed" /\ FlashErrors
      BY <1>7 DEF EraseFails, Busy, TypeOK, StoreTypeOK
    <2>2. TypeOK'
      BY <1>7, <1>3, <2>1 DEF EraseFails, TypeOK, StoreTypeOK
    <2>3. \A c \in {0, 1} : copies'[c] # NoRecord => CopyFor(copies'[c]) = c
      BY <1>3, <1>7, <2>1 DEF EraseFails, TypeOK, StoreTypeOK
    <2> QED
      BY <1>7, <2>1, <2>2, <2>3 DEF AcknowledgedIsLoaded, Busy
  <1>8. CASE ProgramFails /\ UNCHANGED ram
    <2>1. Busy /\ job'.rec = job.rec /\ job'.step = "failed" /\ FlashErrors
      BY <1>8 DEF ProgramFails, Busy, TypeOK, StoreTypeOK
    <2>2. TypeOK'
      BY <1>8, <1>3, <2>1 DEF ProgramFails, TypeOK, StoreTypeOK
    <2>3. \A c \in {0, 1} : copies'[c] # NoRecord => CopyFor(copies'[c]) = c
      BY <1>3, <1>8, <2>1 DEF ProgramFails, TypeOK, StoreTypeOK
    <2> QED
      BY <1>8, <2>1, <2>2, <2>3 DEF AcknowledgedIsLoaded, Busy
  <1>9. CASE LoadRecord
    <2>1. Load' = Load /\ ram' = Load /\ copies' = copies /\ job' = job
      BY <1>4, <1>9 DEF LoadRecord, Load
    <2>2. TypeOK'
      BY <1>1, <2>1 DEF TypeOK, StoreTypeOK
    <2> QED
      BY <1>9, <2>1, <2>2
      DEF LoadRecord, IdleJob, AcknowledgedIsLoaded, Busy, CopyFor
  <1>10. CASE ChangeAndSave
    <2>1. PICK r \in Changes(ram) : ram' = r /\ StartSave(r)
      BY <1>10 DEF ChangeAndSave
    <2>2. ram \in BootRecord /\ ram.generation < MaxGeneration
      BY <1>10 DEF ChangeAndSave, TypeOK, StoreTypeOK
    <2>3. r \in BootRecord /\ r.generation = ram.generation + 1
      BY <2>2, ChangesAdvance
    <2>4. ram.generation = Load.generation
      BY <2>1, <1>10 DEF StartSave, IdleJob, ChangeAndSave
    <2>5. /\ job'.step = "erase" /\ job'.rec = r /\ ram' = r
          /\ copies' = copies /\ Load' = Load
      BY <1>4, <2>1 DEF StartSave, Load
    <2>6. TypeOK'
      BY <2>1, <2>3, <2>5 DEF StartSave, TypeOK, StoreTypeOK
    <2> QED
      BY <2>3, <2>4, <2>5, <2>6 DEF AcknowledgedIsLoaded, Busy
  <1>11. CASE SaveReturns
    <2>1. Load' = Load /\ copies' = copies /\ job' = IdleJob
      BY <1>4, <1>11 DEF SaveReturns, Returns, Load
    <2>2. TypeOK'
      BY <1>11, <2>1 DEF SaveReturns, Returns, TypeOK, StoreTypeOK, IdleJob
    <2>3. ram' # NoRecord => ram'.generation = Load'.generation
      BY <1>11, <2>1
      DEF SaveReturns, Returns, Returned, Disciplined, AcknowledgedIsLoaded
    <2> QED
      BY <2>1, <2>2, <2>3 DEF IdleJob, AcknowledgedIsLoaded, Busy
  <1>12. CASE Reset
    <2>1. Load' = Load /\ copies' = copies /\ job' = IdleJob /\ ram' = NoRecord
      BY <1>4, <1>12 DEF Reset, StoreReset, Load
    <2>2. TypeOK'
      BY <2>1 DEF TypeOK, StoreTypeOK, IdleJob
    <2> QED
      BY <2>1, <2>2 DEF IdleJob, AcknowledgedIsLoaded, Busy
  <1>13. CASE UNCHANGED vars
    BY <1>4, <1>13 DEF vars, TypeOK, StoreTypeOK, Load, Busy, CopyFor, AcknowledgedIsLoaded
  <1> QED
    BY <1>5, <1>6, <1>7, <1>8, <1>9, <1>10, <1>11, <1>12, <1>13
    DEF Next, WriteRecord

\* The store's invariant, and with it type correctness, holds throughout.
THEOREM StoreInvariant ==
  ASSUME Disciplined
  PROVE  Spec => []StoreInv
  <1>1. Init => StoreInv
    BY InitEstablishesInv
  <1>2. StoreInv /\ [Next]_vars => StoreInv'
    BY StepKeepsInv
  <1> QED BY <1>1, <1>2, PTL DEF Spec

\* A save that returned success is what every later load returns, until the
\* next save.
THEOREM AcknowledgedSavesAreDurable ==
  ASSUME Disciplined
  PROVE  Spec => []AcknowledgedIsLoaded
  <1>1. StoreInv => AcknowledgedIsLoaded
    BY DEF StoreInv
  <1> QED BY <1>1, StoreInvariant, PTL

-----------------------------------------------------------------------------
\* A step never leaves both copies invalid when one of them was valid: if the
\* copy being erased were the only valid one, load would return the very
\* record whose parity selects the other copy.
THEOREM RecordSurvives ==
  ASSUME Disciplined
  PROVE  Spec => RecordIsNeverLost
  <1>1. StoreInv /\ [Next]_vars /\ SomeCopyIsValid /\ copies' # copies => SomeCopyIsValid'
    <2> SUFFICES ASSUME StoreInv, [Next]_vars, SomeCopyIsValid, copies' # copies
                 PROVE  SomeCopyIsValid'
      OBVIOUS
    <2>1. copies \in Flash /\ ParityHeld(copies)
      BY DEF StoreInv, TypeOK, StoreTypeOK, Flash, ParityHeld
    <2>2. Load.generation \in Nat
      BY <2>1, LoadFromType DEF Load, BootRecord
    <2>3. /\ Busy
          /\ \/ copies' = [copies EXCEPT ![CopyFor(job.rec)] = NoRecord]
             \/ copies' = [copies EXCEPT ![CopyFor(job.rec)] = job.rec]
      BY DEF Next, WriteRecord, EraseCopy, ProgramCopy, EraseFails, ProgramFails,
             LoadRecord, ChangeAndSave, StartSave, SaveReturns, Returns, Reset, StoreReset, vars, Busy
    <2>4. /\ job.rec \in BootRecord
          /\ CopyFor(job.rec) \in {0, 1}
          /\ CopyFor(job.rec) = (Load.generation + 1) % 2
      BY <2>2, <2>3, ParityAlternates DEF StoreInv, TypeOK, StoreTypeOK, Busy, CopyFor
    <2>5. \A rec \in {NoRecord, job.rec} :
            \E d \in {0, 1} : [copies EXCEPT ![CopyFor(job.rec)] = rec][d] # NoRecord
      BY <2>1, <2>4, WriteKeepsAValidCopy DEF Load, SomeCopyIsValid
    <2> QED BY <2>3, <2>5 DEF SomeCopyIsValid
  <1>2. StoreInv /\ [Next]_vars => [SomeCopyIsValid => SomeCopyIsValid']_copies
    BY <1>1
  <1> QED BY <1>2, StoreInvariant, PTL DEF Spec, RecordIsNeverLost

-----------------------------------------------------------------------------
(* The refinement. *)

\* The instance's copies of the definitions of BootState are the originals.
LEMMA SameRecords ==
  /\ Durable!BootRecord = BootRecord
  /\ \A g \in Nat : Durable!NextGeneration(g) = NextGeneration(g)
  BY DEF Durable!BootRecord, BootRecord, Durable!Slots, Slots, Durable!NoSlot, NoSlot,
         Durable!SlotStatus, SlotStatus, Durable!MaxPendingAttempts,
         MaxPendingAttempts, Durable!NextGeneration, NextGeneration

\* A blank or factory-flashed store starts as an atomic record at rest.
LEMMA InitRefines == Init => Durable!Init
  <1> SUFFICES ASSUME Init PROVE Durable!Init
    OBVIOUS
  <1>1. copies \in Flash
    BY InitEstablishesInv DEF StoreInv, TypeOK, StoreTypeOK, Flash
  <1> QED
    BY <1>1, LoadFromType, SameRecords
    DEF Init, StoreInit, IdleJob, Load, Busy, Durable!Init, Durable!NoCall

\* Every step of the store is a step of the atomic record or leaves it alone:
\* erasing is invisible, programming is the commit.
LEMMA StepRefines ==
  StoreInv /\ [Next]_vars => [Durable!Next]_(Durable!vars)
  <1> SUFFICES ASSUME StoreInv, [Next]_vars
               PROVE  [Durable!Next]_(Durable!vars)
    OBVIOUS
  <1> DEFINE call == [status |-> IF Busy THEN "saving" ELSE job.step,
                      rec |-> job.rec]
  <1>1. copies \in Flash /\ ParityHeld(copies) /\ Load \in BootRecord
    BY LoadFromType DEF StoreInv, TypeOK, StoreTypeOK, Flash, ParityHeld, Load
  <1>2. Load.generation \in Nat
    BY <1>1 DEF BootRecord
  <1>3. Busy => /\ job.rec \in BootRecord
                /\ job.rec.generation = Load.generation + 1
                /\ CopyFor(job.rec) \in {0, 1}
                /\ CopyFor(job.rec) = (Load.generation + 1) % 2
    BY <1>2, ParityAlternates DEF StoreInv, TypeOK, StoreTypeOK, Busy, BootRecord, CopyFor
  <1>4. Load' = LoadFrom(copies')
    BY DEF LoadFrom, Load
  <1>5. Busy => LoadFrom([copies EXCEPT ![CopyFor(job.rec)] = NoRecord]) = Load
    BY <1>1, <1>3, EraseKeepsLoad DEF Load
  <1>6. job.step = "program"
          => LoadFrom([copies EXCEPT ![CopyFor(job.rec)] = job.rec]) = job.rec
    BY <1>1, <1>3, ProgramSetsLoad DEF StoreInv, Busy, Load
  <1>7. copies' = copies => Load' = Load
    BY <1>4 DEF Load
  <1>8. job' = job /\ copies' = copies => UNCHANGED Durable!vars
    BY <1>7 DEF Durable!vars, Busy
  <1>9. CASE EraseCopy
    <2>1. Load' = Load /\ call' = call
      BY <1>4, <1>5, <1>9 DEF EraseCopy, Busy, StoreInv, TypeOK, StoreTypeOK
    <2> QED BY <2>1 DEF Durable!vars
  <1>10. CASE ProgramCopy
    <2>1. Load' = job.rec /\ Busy
      BY <1>4, <1>6, <1>10 DEF ProgramCopy, Busy
    <2>2. job'.step = "ok" /\ job'.rec = job.rec
      BY <1>10 DEF ProgramCopy, StoreInv, TypeOK, StoreTypeOK
    <2>3. Durable!Commit
      BY <2>1, <2>2 DEF Durable!Commit, Busy
    <2> QED BY <2>3 DEF Durable!Next
  <1>11. CASE EraseFails \/ ProgramFails
    <2>1. Busy /\ job'.step = "failed" /\ job'.rec = job.rec
      BY <1>11 DEF EraseFails, ProgramFails, Busy, StoreInv, TypeOK, StoreTypeOK
    <2>2. Load' \in {Load, job.rec}
      BY <1>4, <1>5, <1>6, <1>7, <1>11, <2>1 DEF EraseFails, ProgramFails
    <2>3. Durable!Fail
      BY <2>1, <2>2 DEF Durable!Fail, Busy
    <2> QED BY <2>3 DEF Durable!Next
  <1>12. CASE LoadRecord
    BY <1>8, <1>12 DEF LoadRecord
  <1>13. CASE ChangeAndSave
    <2>1. PICK r \in Changes(ram) : ram' = r /\ StartSave(r)
      BY <1>13 DEF ChangeAndSave
    <2>2. ram \in BootRecord /\ ram.generation < MaxGeneration
      BY <1>13 DEF ChangeAndSave, StoreInv, TypeOK, StoreTypeOK
    <2>3. r \in BootRecord /\ r.generation = ram.generation + 1
      BY <2>2, ChangesAdvance
    <2>4. ram.generation = Load.generation /\ job.step = "idle"
      BY <2>1, <1>13 DEF StartSave, IdleJob, ChangeAndSave, StoreInv
    <2>5. NextGeneration(Load.generation) = Load.generation + 1
      BY <1>2, <2>2, <2>4, NextGenerationIsSuccessor, ClientsAssumption,
         ModulusAssumption
    <2>6. job'.step = "erase" /\ job'.rec = r /\ Load' = Load
      BY <1>7, <2>1 DEF StartSave
    <2>7. Durable!Begin
      BY <1>2, <2>3, <2>4, <2>5, <2>6, SameRecords DEF Durable!Begin, Busy
    <2> QED BY <2>7 DEF Durable!Next
  <1>14. CASE SaveReturns
    <2>1. job' = IdleJob /\ Load' = Load /\ job.step \in {"ok", "failed"}
      BY <1>7, <1>14 DEF SaveReturns, Returns, Returned
    <2>2. Durable!Return
      BY <2>1 DEF Durable!Return, Durable!NoCall, IdleJob, Busy
    <2> QED BY <2>2 DEF Durable!Next
  <1>15. CASE Reset
    <2>1. job' = IdleJob /\ Load' = Load
      BY <1>7, <1>15 DEF Reset, StoreReset
    <2>2. Durable!Reset
      BY <2>1 DEF Durable!Reset, Durable!NoCall, IdleJob, Busy
    <2> QED BY <2>2 DEF Durable!Next
  <1>16. CASE UNCHANGED vars
    BY <1>8, <1>16 DEF vars
  <1> QED
    BY <1>9, <1>10, <1>11, <1>12, <1>13, <1>14, <1>15, <1>16 DEF Next, WriteRecord

\* The two-copy store implements the atomic record.
THEOREM StoreImplementsDurableRecord ==
  ASSUME Disciplined
  PROVE  Spec => ImplementsDurableRecord
  <1> QED BY InitRefines, StepRefines, StoreInvariant, PTL
      DEF Spec, ImplementsDurableRecord, Durable!Spec

=============================================================================
