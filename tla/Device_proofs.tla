----------------------------- MODULE Device_proofs ----------------------------
(***************************************************************************)
(* The device never loses its confirmed application, for every set of      *)
(* images, every content of the slots, every number of updates and every   *)
(* point at which a reset cuts a boot, an update or a save short, as long   *)
(* as the flash record reports no errors and the host does not begin an     *)
(* update while one awaits its confirmation (Careful).                     *)
(***************************************************************************)
EXTENDS Device, BootState_proofs

Careful == ~FlashErrors /\ ~BeginWhilePending

\* What DeviceInv says of the record load returns, of any record.
RecordHolds(rec, content, count) ==
  /\ HasPending(rec) => rec.slot_status[rec.pending_slot] = "PENDING"
  /\ rec.generation <= LastActivation + 1 + (IF HasPending(rec) THEN rec.pending_attempts ELSE 4)
  /\ rec.slot_status[rec.active_slot] = "CONFIRMED" =>
       /\ Sound(content[rec.active_slot])
       /\ rec.confirmed_image \in {NoImage, content[rec.active_slot]}
  /\ count <= IF HasPending(rec) THEN rec.pending_attempts ELSE MaxPendingAttempts
  /\ HasPending(rec) => content[rec.pending_slot] \in {rec.pending_image, NoImage}

-----------------------------------------------------------------------------
(* The changes of the record, field by field. *)

\* No generation the device reaches is the last one before the wrap.
LEMMA NoWrap ==
  ASSUME NEW g \in Nat, g <= LastActivation + 4
  PROVE  NextGeneration(g) = g + 1
  <1>1. LastActivation \in Nat /\ LastActivation + 5 < GenerationModulus
    BY DeviceAssumption
  <1> QED BY <1>1, NextGenerationIsSuccessor

\* select_candidate either leaves a record without a pending slot alone, or
\* counts one attempt, or gives the pending slot up; the slot it returns is the
\* one the record it returns calls pending, or else active.
LEMMA SelectCandidateCases ==
  ASSUME NEW rec \in BootRecord,
         HasPending(rec) => rec.slot_status[rec.pending_slot] = "PENDING"
  PROVE  /\ SelectCandidate(rec).slot = Selected(SelectCandidate(rec).state)
         /\ SelectCandidate(rec).boot_pending <=> HasPending(SelectCandidate(rec).state)
         /\ \/ ~HasPending(rec) /\ SelectCandidate(rec).state = rec
            \/ /\ HasPending(rec) /\ rec.pending_attempts < MaxPendingAttempts
               /\ SelectCandidate(rec).state = CountAttempt(rec)
            \/ /\ HasPending(rec)
               /\ SelectCandidate(rec).state = MarkPendingBad(rec)
  <1>1. CASE ~HasPending(rec)
    <2>1. SelectCandidate(rec)
            = [state |-> rec, slot |-> rec.active_slot, boot_pending |-> FALSE]
      BY <1>1 DEF SelectCandidate, PendingIsBootable
    <2> QED BY <1>1, <2>1 DEF Selected
  <1>2. CASE HasPending(rec) /\ Exhausted(rec)
    <2>1. ~HasPending(MarkPendingBad(rec)) /\ MarkPendingBad(rec).active_slot = rec.active_slot
      BY <1>2, MarkPendingBadType DEF MarkPendingBad, BootRecord
    <2>2. SelectCandidate(rec)
            = [state |-> MarkPendingBad(rec), slot |-> rec.active_slot,
               boot_pending |-> FALSE]
      BY <1>2, <2>1 DEF SelectCandidate, PendingIsBootable
    <2> QED BY <1>2, <2>1, <2>2 DEF Selected
  <1>3. CASE HasPending(rec) /\ ~Exhausted(rec)
    <2>1. CountAttempt(rec).pending_slot = rec.pending_slot
      BY DEF CountAttempt, BootRecord
    <2>2. SelectCandidate(rec)
            = [state |-> CountAttempt(rec), slot |-> rec.pending_slot,
               boot_pending |-> TRUE]
      BY <1>3 DEF SelectCandidate, PendingIsBootable
    <2>3. rec.pending_attempts < MaxPendingAttempts
      BY <1>3 DEF Exhausted, BootRecord, MaxPendingAttempts
    <2> QED BY <1>3, <2>1, <2>2, <2>3 DEF Selected, HasPending
  <1> QED BY <1>1, <1>2, <1>3

\* Counting an attempt changes the count and the generation only.
LEMMA CountAttemptFields ==
  ASSUME NEW rec \in BootRecord, rec.pending_attempts < MaxPendingAttempts,
         rec.generation <= LastActivation + 4
  PROVE  /\ CountAttempt(rec) \in BootRecord
         /\ CountAttempt(rec).generation = rec.generation + 1
         /\ CountAttempt(rec).active_slot = rec.active_slot
         /\ CountAttempt(rec).pending_slot = rec.pending_slot
         /\ CountAttempt(rec).pending_attempts = rec.pending_attempts + 1
         /\ CountAttempt(rec).slot_status = rec.slot_status
         /\ CountAttempt(rec).confirmed_image = rec.confirmed_image
         /\ CountAttempt(rec).pending_image = rec.pending_image
  <1>1. NextGeneration(rec.generation) = rec.generation + 1
    BY NoWrap DEF BootRecord
  <1>2. rec.generation + 1 \in Nat /\ rec.pending_attempts + 1 \in 0 .. MaxPendingAttempts
    BY DEF BootRecord, MaxPendingAttempts
  <1>3. CountAttempt(rec) = [rec EXCEPT !.pending_attempts = rec.pending_attempts + 1,
                                        !.generation = rec.generation + 1]
    BY <1>1 DEF CountAttempt, BootRecord
  <1>4. CountAttempt(rec) \in BootRecord
    BY <1>2, <1>3 DEF BootRecord
  <1> QED BY <1>2, <1>3, <1>4 DEF BootRecord

\* Giving the pending slot up leaves the active one as it is, unless it is the
\* pending one.
LEMMA MarkPendingBadFields ==
  ASSUME NEW rec \in BootRecord, HasPending(rec), rec.generation <= LastActivation + 4
  PROVE  /\ MarkPendingBad(rec) \in BootRecord
         /\ MarkPendingBad(rec).generation = rec.generation + 1
         /\ MarkPendingBad(rec).active_slot = rec.active_slot
         /\ ~HasPending(MarkPendingBad(rec))
         /\ \A s \in Slots : MarkPendingBad(rec).slot_status[s]
              = IF s = rec.pending_slot THEN "BAD" ELSE rec.slot_status[s]
         /\ MarkPendingBad(rec).confirmed_image = rec.confirmed_image
  <1>1. NextGeneration(rec.generation) = rec.generation + 1
    BY NoWrap DEF BootRecord
  <1>2. MarkPendingBad(rec) \in BootRecord /\ ~HasPending(MarkPendingBad(rec))
        /\ MarkPendingBad(rec).generation = NextGeneration(rec.generation)
    BY MarkPendingBadType
  <1>3. MarkPendingBad(rec).active_slot = rec.active_slot
        /\ MarkPendingBad(rec).confirmed_image = rec.confirmed_image
        /\ MarkPendingBad(rec).slot_status
             = [rec.slot_status EXCEPT ![rec.pending_slot] = "BAD"]
    BY DEF MarkPendingBad, BootRecord
  <1> QED BY <1>1, <1>2, <1>3 DEF BootRecord

\* ACTIVATE changes one slot's status and the pending words.
LEMMA MarkSlotPendingFields ==
  ASSUME NEW rec \in BootRecord, NEW slot \in Slots, NEW image \in Images,
         rec.generation <= LastActivation + 4
  PROVE  LET new == MarkSlotPending(rec, slot, image) IN
         /\ new \in BootRecord
         /\ new.generation = rec.generation + 1
         /\ new.active_slot = rec.active_slot
         /\ new.pending_slot = slot /\ HasPending(new)
         /\ new.pending_attempts = 0
         /\ \A s \in Slots : new.slot_status[s]
              = IF s = slot THEN "PENDING" ELSE rec.slot_status[s]
         /\ new.confirmed_image = rec.confirmed_image
         /\ new.pending_image = image
  <1>1. NextGeneration(rec.generation) = rec.generation + 1
    BY NoWrap DEF BootRecord
  <1>2. MarkSlotPending(rec, slot, image) \in BootRecord
    BY MarkSlotPendingType
  <1>3. slot # NoSlot
    BY DEF Slots, NoSlot
  <1> QED BY <1>1, <1>2, <1>3 DEF MarkSlotPending, HasPending, BootRecord

\* A confirmation makes the pending slot the active one, and the only one that
\* is confirmed.
LEMMA ConfirmPendingFields ==
  ASSUME NEW rec \in BootRecord, HasPending(rec), rec.generation <= LastActivation + 4
  PROVE  LET new == ConfirmPending(rec) IN
         /\ new \in BootRecord
         /\ new.generation = rec.generation + 1
         /\ new.active_slot = rec.pending_slot
         /\ ~HasPending(new)
         /\ \A s \in Slots : new.slot_status[s]
              = IF s = rec.pending_slot THEN "CONFIRMED" ELSE "VALID"
         /\ new.confirmed_image = rec.pending_image
  <1>1. NextGeneration(rec.generation) = rec.generation + 1
    BY NoWrap DEF BootRecord
  <1>2. ConfirmPending(rec) \in BootRecord
    BY ConfirmPendingType
  <1> QED BY <1>1, <1>2 DEF ConfirmPending, HasPending, BootRecord

-----------------------------------------------------------------------------
(* The record a save writes. *)

\* Facts every step starts from.
LEMMA StoreFacts ==
  ASSUME DeviceInv
  PROVE  /\ copies \in Flash /\ ParityHeld(copies)
         /\ Load \in BootRecord
         /\ RecordHolds(Load, slots, starts)
         /\ Load.active_slot \in Slots
         /\ HasPending(Load) => Load.pending_slot \in Slots
         /\ HasPending(Load) => Load.generation <= LastActivation + 4
         /\ Load.generation <= LastActivation + 5
  <1>1. copies \in Flash /\ ParityHeld(copies)
    BY DEF DeviceInv, TypeOK, StoreTypeOK, StoreIsSound, Flash, ParityHeld
  <1>2. Load \in BootRecord
    BY <1>1, LoadFromType DEF Load
  <1>3. RecordHolds(Load, slots, starts)
    BY DEF DeviceInv, StoreIsSound, ConfirmedImageIntact, Provisioned,
           StartsAreOnRecord, PendingIsValidated, RecordHolds
  <1>4. LastActivation \in Nat /\ Load.generation \in Nat /\ Load.pending_attempts \in 0 .. 3
    BY <1>2, DeviceAssumption DEF BootRecord, MaxPendingAttempts
  <1> QED BY <1>1, <1>2, <1>3, <1>4 DEF RecordHolds, BootRecord, HasPending

\* A save in progress writes a record that holds of the slots as they are: the
\* device may lose power before it or after it.
LEMMA SavedRecordHolds ==
  ASSUME DeviceInv, Busy
  PROVE  /\ job.rec \in BootRecord
         /\ job.rec.generation = Load.generation + 1
         /\ RecordHolds(job.rec, slots, starts)
         /\ Provisioned => job.rec.slot_status[job.rec.active_slot] = "CONFIRMED"
         /\ \A s \in Slots :
              job.rec.slot_status[s] = "CONFIRMED" /\ Load.slot_status[s] # "CONFIRMED"
                => pc = "app" /\ candidate.slot = s /\ Healthy
         /\ pc # "app" => job.rec.active_slot = Load.active_slot
         /\ pc = "app" => Selected(job.rec) = Selected(Load)
  <1> DEFINE Goal == /\ job.rec \in BootRecord
                     /\ RecordHolds(job.rec, slots, starts)
                     /\ Provisioned => job.rec.slot_status[job.rec.active_slot] = "CONFIRMED"
                     /\ \A s \in Slots :
                          job.rec.slot_status[s] = "CONFIRMED" /\ Load.slot_status[s] # "CONFIRMED"
                            => pc = "app" /\ candidate.slot = s /\ Healthy
                     /\ pc # "app" => job.rec.active_slot = Load.active_slot
                     /\ pc = "app" => Selected(job.rec) = Selected(Load)
  <1>1. /\ Load \in BootRecord /\ RecordHolds(Load, slots, starts)
        /\ Load.active_slot \in Slots
        /\ HasPending(Load) => Load.pending_slot \in Slots /\ Load.generation <= LastActivation + 4
    BY StoreFacts
  <1>2. /\ Load.generation \in Nat /\ Load.pending_attempts \in 0 .. 3
        /\ LastActivation \in Nat /\ starts \in 0 .. 4
    BY <1>1, DeviceAssumption DEF BootRecord, MaxPendingAttempts, DeviceInv, TypeOK
  <1>3. job.rec.generation = Load.generation + 1 /\ SavesItsChange
    BY DEF DeviceInv, StoreIsSound
  <1>4. ASSUME HasPending(Load), job.rec = MarkPendingBad(Load), pc # "app" PROVE Goal
    <2>1. /\ job.rec \in BootRecord
          /\ job.rec.generation = Load.generation + 1
          /\ job.rec.active_slot = Load.active_slot
          /\ ~HasPending(job.rec)
          /\ \A s \in Slots : job.rec.slot_status[s]
               = IF s = Load.pending_slot THEN "BAD" ELSE Load.slot_status[s]
          /\ job.rec.confirmed_image = Load.confirmed_image
      BY <1>1, <1>4, MarkPendingBadFields
    <2>2. RecordHolds(job.rec, slots, starts)
      BY <1>1, <1>2, <1>4, <2>1 DEF RecordHolds, MaxPendingAttempts
    <2>3. Provisioned => job.rec.slot_status[job.rec.active_slot] = "CONFIRMED"
      BY <1>1, <1>4, <2>1 DEF RecordHolds, Provisioned
    <2> QED BY <1>4, <2>1, <2>2, <2>3
  <1>5. CASE pc = "validate" /\ job.rec = SelectCandidate(Load).state
    <2>1. CASE HasPending(Load) /\ job.rec = MarkPendingBad(Load)
      BY <1>3, <1>4, <1>5, <2>1
    <2>2. CASE /\ HasPending(Load) /\ Load.pending_attempts < MaxPendingAttempts
               /\ job.rec = CountAttempt(Load)
      <3>1. /\ job.rec \in BootRecord
            /\ job.rec.generation = Load.generation + 1
            /\ job.rec.active_slot = Load.active_slot
            /\ job.rec.pending_slot = Load.pending_slot
            /\ job.rec.pending_attempts = Load.pending_attempts + 1
            /\ job.rec.slot_status = Load.slot_status
            /\ job.rec.confirmed_image = Load.confirmed_image
            /\ job.rec.pending_image = Load.pending_image
        BY <1>1, <2>2, CountAttemptFields
      <3>2. RecordHolds(job.rec, slots, starts)
        BY <1>1, <1>2, <2>2, <3>1 DEF RecordHolds, HasPending
      <3> QED BY <1>5, <3>1, <3>2 DEF Provisioned
    <2>3. job.rec # Load
      BY <1>2, <1>3
    <2> QED BY <1>1, <1>5, <2>1, <2>2, <2>3, SelectCandidateCases DEF RecordHolds
  <1>6. CASE pc \in {"fallback", "giveup"} /\ HasPending(Load) /\ job.rec = MarkPendingBad(Load)
    BY <1>3, <1>4, <1>6
  <1>7. CASE /\ pc = "app" /\ Healthy /\ HasPending(Load)
             /\ job.rec = ConfirmPending(Load)
    <2>1. /\ job.rec \in BootRecord
          /\ job.rec.generation = Load.generation + 1
          /\ job.rec.active_slot = Load.pending_slot
          /\ ~HasPending(job.rec)
          /\ \A s \in Slots : job.rec.slot_status[s]
               = IF s = Load.pending_slot THEN "CONFIRMED" ELSE "VALID"
          /\ job.rec.confirmed_image = Load.pending_image
      BY <1>1, <1>7, ConfirmPendingFields
    <2>2. /\ candidate.slot = Load.pending_slot
          /\ CandidateImage \in Images \ (BadVectors \cup BadRelocation)
      BY <1>7 DEF DeviceInv, BootIsOnRecord, Selected
    <2>3. Sound(slots[Load.pending_slot]) /\ slots[Load.pending_slot] = Load.pending_image
      BY <1>1, <1>7, <2>2, ImageAssumption DEF Sound, Healthy, CandidateImage, RecordHolds
    <2>4. RecordHolds(job.rec, slots, starts)
      BY <1>1, <1>2, <1>7, <2>1, <2>3 DEF RecordHolds, MaxPendingAttempts
    <2> QED BY <1>1, <1>7, <2>1, <2>2, <2>4 DEF Selected
  <1>8. CASE /\ pc = "update" /\ session.active /\ session.valid /\ starts = 0
             /\ Load.generation <= LastActivation
             /\ job.rec = MarkSlotPending(Load, session.target, session.expected)
    <2>1. /\ session.target \in Slots /\ session.expected \in Images
          /\ slots[session.target] \in {session.expected, NoImage}
          /\ Provisioned => session.target # Load.active_slot
      BY <1>8 DEF DeviceInv, TypeOK, SessionIsAside
    <2>2. /\ job.rec \in BootRecord
          /\ job.rec.active_slot = Load.active_slot
          /\ job.rec.pending_slot = session.target /\ HasPending(job.rec)
          /\ job.rec.pending_attempts = 0
          /\ \A s \in Slots : job.rec.slot_status[s]
               = IF s = session.target THEN "PENDING" ELSE Load.slot_status[s]
          /\ job.rec.confirmed_image = Load.confirmed_image
          /\ job.rec.pending_image = session.expected
      BY <1>1, <1>2, <1>8, <2>1, MarkSlotPendingFields
    <2>3. RecordHolds(job.rec, slots, starts)
      BY <1>1, <1>2, <1>3, <1>8, <2>1, <2>2 DEF RecordHolds
    <2> QED BY <1>1, <1>3, <1>8, <2>1, <2>2, <2>3 DEF Provisioned
  <1> QED BY <1>3, <1>5, <1>6, <1>7, <1>8 DEF SavesItsChange

-----------------------------------------------------------------------------
(* Steps that leave the flash record alone. *)

\* A step that writes neither copy leaves the store sound, whether it goes on
\* with a save, takes its result or starts one of a successor.
LEMMA StoreKept ==
  ASSUME DeviceInv, copies' = copies,
         \/ job' = job
         \/ job' = IdleJob
         \/ \E r \in BootRecord : /\ r.generation = Load.generation + 1
                                 /\ job' = [step |-> "erase", rec |-> r]
  PROVE  /\ Load' = Load
         /\ StoreTypeOK' /\ StoreIsSound'
  <1>1. Load' = Load
    BY DEF Load, LoadFrom
  <1>2. StoreTypeOK /\ StoreIsSound
    BY DEF DeviceInv, TypeOK
  <1>3. CASE job' = job
    BY <1>1, <1>2, <1>3 DEF StoreTypeOK, StoreIsSound, Busy, CopyFor, HasPending
  <1>4. CASE job' = IdleJob
    BY <1>1, <1>2, <1>4 DEF StoreTypeOK, StoreIsSound, Busy, CopyFor, HasPending, IdleJob
  <1>5. CASE \E r \in BootRecord : /\ r.generation = Load.generation + 1
                                  /\ job' = [step |-> "erase", rec |-> r]
    BY <1>1, <1>2, <1>5 DEF StoreTypeOK, StoreIsSound, Busy, CopyFor, HasPending
  <1> QED BY <1>3, <1>4, <1>5

\* If the slots and the starts stay as they are too, what holds of the record
\* goes on to hold.
LEMMA RecordKept ==
  ASSUME DeviceInv, Load' = Load, slots' = slots, starts' = starts
  PROVE  ConfirmedImageIntact' /\ StartsAreOnRecord' /\ PendingIsValidated'
  BY DEF DeviceInv, ConfirmedImageIntact, Provisioned, StartsAreOnRecord,
         PendingIsValidated, HasPending

\* A step out of whatever was going on, into a reset, the dark or an update mode
\* without a session.
LEMMA LeavingKeepsInv ==
  ASSUME DeviceInv,
         copies' = copies, job' \in {job, IdleJob}, job'.step = "idle",
         slots' = slots, starts' = starts,
         pc' \in {"off", "reset", "update"},
         session' = NoSession \/ (session' = session /\ ~session.active),
         boot_state' \in {NoRecord, boot_state}, candidate' \in {NoCandidate, candidate},
         update_request' \in BOOLEAN, confirmed' \in BOOLEAN, attended' \in BOOLEAN
  PROVE  DeviceInv'
  <1>1. Load' = Load /\ StoreTypeOK' /\ StoreIsSound'
    BY StoreKept
  <1>2. ConfirmedImageIntact' /\ StartsAreOnRecord' /\ PendingIsValidated'
    BY <1>1, RecordKept
  <1>3. TypeOK'
    <2>1. NoSession \in [active : BOOLEAN, target : Slots, expected : Images \cup {NoImage},
                  complete : BOOLEAN, valid : BOOLEAN, reset_requested : BOOLEAN]
      BY DEF NoSession, Slots
    <2>2. NoCandidate \in [slot : Slots \cup {NoSlot}, boot_pending : BOOLEAN]
      BY DEF NoCandidate
    <2> QED BY <1>1, <2>1, <2>2 DEF DeviceInv, TypeOK
  <1>4. SavesItsChange'
    BY DEF SavesItsChange, Busy
  <1>5. BootIsOnRecord'
    BY DEF BootIsOnRecord
  <1>6. SessionIsAside'
    BY <1>1 DEF DeviceInv, SessionIsAside, NoSession
  <1> QED BY <1>1, <1>2, <1>3, <1>4, <1>5, <1>6 DEF DeviceInv

-----------------------------------------------------------------------------
(* The steps, part by part. *)

\* Every board the device may start as satisfies the invariant.
LEMMA InitEstablishesInv == Init => DeviceInv
  <1> SUFFICES ASSUME Init PROVE DeviceInv
    OBVIOUS
  <1>1. FirstCopies \subseteq BootRecord \cup {NoRecord}
    BY InitDefaultType, FactoryRecordType DEF FirstCopies
  <1>2. PICK r \in FirstCopies :
          copies = [c \in {0, 1} |-> IF c = 0 THEN r ELSE NoRecord]
    BY DEF Init, StoreInit
  <1>3. Load = IF r = NoRecord THEN InitDefault ELSE r
    BY <1>2, NoRecordAssumption DEF Load, LoadFrom, SelectLatest
  <1>4. /\ Load.generation = 0 /\ ~HasPending(Load)
        /\ Load.confirmed_image = NoImage
    BY <1>3 DEF FirstCopies, InitDefault, FactoryRecord, HasPending
  <1>5. r # NoRecord => r.generation = 0
    BY <1>3, <1>4
  <1>6. job = IdleJob
    BY DEF Init, StoreInit
  <1>7. TypeOK
    <2>1. StoreTypeOK
      BY <1>1, <1>2, <1>6 DEF StoreTypeOK, IdleJob
    <2>2. NoSession \in [active : BOOLEAN, target : Slots, expected : Images \cup {NoImage},
                  complete : BOOLEAN, valid : BOOLEAN, reset_requested : BOOLEAN]
      BY DEF NoSession, Slots
    <2>3. NoCandidate \in [slot : Slots \cup {NoSlot}, boot_pending : BOOLEAN]
      BY DEF NoCandidate
    <2>4. 0 \in 0 .. MaxPendingAttempts + 1
      BY DEF MaxPendingAttempts
    <2> QED BY <2>1, <2>2, <2>3, <2>4 DEF Init, TypeOK
  <1>8. StoreIsSound
    <2>1. \A c \in {0, 1} : copies[c] # NoRecord => CopyFor(copies[c]) = c
      BY <1>2, <1>5 DEF CopyFor
    <2> QED BY <1>4, <1>6, <2>1, DeviceAssumption DEF StoreIsSound, IdleJob, Busy
  <1>9. SavesItsChange /\ BootIsOnRecord /\ SessionIsAside
    BY <1>6 DEF Init, SavesItsChange, IdleJob, Busy, BootIsOnRecord, SessionIsAside, NoSession
  <1>10. ConfirmedImageIntact /\ StartsAreOnRecord /\ PendingIsValidated
    BY <1>4 DEF Init, ConfirmedImageIntact, StartsAreOnRecord, PendingIsValidated, MaxPendingAttempts
  <1> QED BY <1>7, <1>8, <1>9, <1>10 DEF DeviceInv

\* The steps of a save: erasing is invisible, programming replaces the record by
\* the one that was waiting for it.
LEMMA StoreStepKeepsInv ==
  ASSUME Careful, DeviceInv, StoreStep
  PROVE  DeviceInv'
  <1>1. EraseCopy \/ ProgramCopy
    BY DEF Careful, StoreStep, WriteRecord, EraseFails, ProgramFails
  <1>2. /\ pc' = pc /\ slots' = slots /\ boot_state' = boot_state
        /\ candidate' = candidate /\ update_request' = update_request
        /\ session' = session /\ confirmed' = confirmed
        /\ starts' = starts /\ attended' = attended
    BY DEF StoreStep, bootvars, history
  <1>3. Busy /\ job'.rec = job.rec
        /\ job' \in [step : {"program", "ok"}, rec : {job.rec}]
    BY <1>1 DEF EraseCopy, ProgramCopy, Busy, DeviceInv, TypeOK, StoreTypeOK
  <1>4. /\ copies \in Flash /\ ParityHeld(copies) /\ Load \in BootRecord
    BY StoreFacts
  <1>5. /\ job.rec \in BootRecord
        /\ job.rec.generation = Load.generation + 1
        /\ RecordHolds(job.rec, slots, starts)
        /\ Provisioned => job.rec.slot_status[job.rec.active_slot] = "CONFIRMED"
        /\ pc # "app" => /\ job.rec.active_slot = Load.active_slot
                         /\ job.rec.slot_status[Load.active_slot] = "CONFIRMED" => Provisioned
        /\ pc = "app" => Selected(job.rec) = Selected(Load)
    BY <1>3, StoreFacts, SavedRecordHolds DEF Provisioned
  <1>6. /\ Load.generation \in Nat
        /\ CopyFor(job.rec) \in {0, 1}
        /\ CopyFor(job.rec) = (Load.generation + 1) % 2
    BY <1>4, <1>5, ParityAlternates DEF BootRecord, CopyFor
  <1>7. CASE EraseCopy
    <2>1. copies' = [copies EXCEPT ![CopyFor(job.rec)] = NoRecord] /\ job'.step = "program"
          /\ job.step = "erase"
      BY <1>7 DEF EraseCopy, DeviceInv, TypeOK, StoreTypeOK
    <2>2. Load' = Load
      <3>1. LoadFrom([copies EXCEPT ![CopyFor(job.rec)] = NoRecord]) = LoadFrom(copies)
        BY <1>4, <1>6, EraseKeepsLoad DEF Load
      <3> QED BY <2>1, <3>1 DEF Load, LoadFrom
    <2>3. copies' \in Flash
      BY <1>4, <1>6, <2>1 DEF Flash
    <2>4. TypeOK'
      BY <1>2, <1>3, <1>5, <2>1, <2>3 DEF DeviceInv, TypeOK, StoreTypeOK, Flash
    <2>5. StoreIsSound'
      <3>1. \A c \in {0, 1} : copies'[c] # NoRecord => CopyFor(copies'[c]) = c
        BY <1>4, <1>6, <2>1 DEF Flash, ParityHeld, CopyFor
      <3>2. copies'[CopyFor(job'.rec)] = NoRecord
        BY <1>3, <1>4, <1>6, <2>1 DEF Flash
      <3> QED BY <1>3, <1>5, <2>1, <2>2, <3>1, <3>2
          DEF DeviceInv, StoreIsSound, Busy, HasPending, CopyFor
    <2>6. SavesItsChange'
      BY <1>2, <1>3, <2>1, <2>2
      DEF DeviceInv, SavesItsChange, Busy, Healthy, CandidateImage, HasPending
    <2>7. BootIsOnRecord'
      BY <1>2, <1>3, <2>1, <2>2
      DEF DeviceInv, BootIsOnRecord, Busy, CandidateImage, HasPending, Selected
    <2>8. SessionIsAside'
      BY <1>2, <2>2 DEF DeviceInv, SessionIsAside, Provisioned, HasPending
    <2>9. ConfirmedImageIntact' /\ StartsAreOnRecord' /\ PendingIsValidated'
      BY <1>2, <2>2, RecordKept
    <2> QED BY <2>4, <2>5, <2>6, <2>7, <2>8, <2>9 DEF DeviceInv
  <1>8. CASE ProgramCopy
    <2>1. copies' = [copies EXCEPT ![CopyFor(job.rec)] = job.rec] /\ job'.step = "ok"
          /\ job.step = "program"
      BY <1>8 DEF ProgramCopy, DeviceInv, TypeOK, StoreTypeOK
    <2>2. Load' = job.rec
      <3>1. copies[CopyFor(job.rec)] = NoRecord
        BY <2>1 DEF DeviceInv, StoreIsSound
      <3>2. LoadFrom([copies EXCEPT ![CopyFor(job.rec)] = job.rec]) = job.rec
        BY <1>4, <1>5, <3>1, ProgramSetsLoad DEF Load
      <3> QED BY <2>1, <3>2 DEF Load, LoadFrom
    <2>3. copies' \in Flash
      BY <1>4, <1>5, <1>6, <2>1 DEF Flash
    <2>4. TypeOK'
      BY <1>2, <1>3, <1>5, <2>1, <2>3 DEF DeviceInv, TypeOK, StoreTypeOK, Flash
    <2>5. StoreIsSound'
      <3>1. \A c \in {0, 1} : copies'[c] # NoRecord => CopyFor(copies'[c]) = c
        BY <1>4, <1>6, <2>1 DEF Flash, ParityHeld
      <3> QED BY <1>3, <1>5, <2>1, <2>2, <3>1
          DEF StoreIsSound, Busy, HasPending, RecordHolds
    <2>6. SavesItsChange'
      BY <1>2, <2>1 DEF DeviceInv, SavesItsChange, Busy
    <2>7. BootIsOnRecord'
      BY <1>2, <1>3, <1>5, <2>1, <2>2
      DEF DeviceInv, BootIsOnRecord, Busy, CandidateImage, HasPending, Selected
    <2>8. SessionIsAside'
      <3>1. session.active => pc = "update" /\ session.complete
        BY <1>3 DEF DeviceInv, SessionIsAside, SavesItsChange
      <3>2. session.active /\ Provisioned' => Provisioned /\ Load'.active_slot = Load.active_slot
        BY <1>5, <2>2, <3>1 DEF Provisioned
      <3> QED BY <1>2, <3>1, <3>2 DEF DeviceInv, SessionIsAside
    <2>9. ConfirmedImageIntact' /\ StartsAreOnRecord' /\ PendingIsValidated'
      BY <1>2, <1>5, <2>2
      DEF RecordHolds, ConfirmedImageIntact, Provisioned, StartsAreOnRecord,
          PendingIsValidated, HasPending
    <2> QED BY <2>4, <2>5, <2>6, <2>7, <2>8, <2>9 DEF DeviceInv
  <1> QED BY <1>1, <1>7, <1>8

\* The way from a reset to an application or into the update mode.
LEMMA BootStepKeepsInv ==
  ASSUME DeviceInv, BootStep
  PROVE  DeviceInv'
  <1>1. /\ Load \in BootRecord /\ RecordHolds(Load, slots, starts)
        /\ Load.active_slot \in Slots
        /\ HasPending(Load) => Load.pending_slot \in Slots
        /\ HasPending(Load) => Load.generation <= LastActivation + 4
    BY StoreFacts
  <1>2. TypeOK /\ StoreIsSound /\ SavesItsChange /\ BootIsOnRecord /\ SessionIsAside
    BY DEF DeviceInv
  <1>3. pc \in {"off", "reset", "vectors"} => job.step = "idle"
    BY <1>2 DEF SavesItsChange
  <1>4. IdleJob.step = "idle"
    BY DEF IdleJob
  <1>5. ASSUME Load' = Load, slots' = slots, starts' = starts, pc' # "update",
               session' = session, pc # "update"
        PROVE  SessionIsAside' /\ ConfirmedImageIntact' /\ StartsAreOnRecord' /\ PendingIsValidated'
    <2>1. SessionIsAside'
      BY <1>2, <1>5 DEF SessionIsAside
    <2> QED BY <1>5, <2>1, RecordKept
  <1>6. CASE TakeHandoff \/ GiveUp \/ RejectRelocation
    BY <1>2, <1>3, <1>4, <1>6, LeavingKeepsInv
    DEF TakeHandoff, GiveUp, RejectRelocation, EnterUpdateMode, Ready, TakeResult,
        stored, history, TypeOK
  <1>7. CASE SelectBootSlot
    <2> DEFINE choice == SelectCandidate(Load)
    <2>1. /\ choice.state \in BootRecord /\ choice.slot \in Slots
          /\ choice.boot_pending \in BOOLEAN
          /\ choice.slot = Selected(choice.state)
          /\ choice.boot_pending <=> HasPending(choice.state)
      BY <1>1, SelectCandidateType, SelectCandidateCases DEF RecordHolds
    <2>2. \/ ~HasPending(Load) /\ choice.state = Load
          \/ /\ choice.state.generation = Load.generation + 1
             /\ HasPending(choice.state) =>
                  starts < choice.state.pending_attempts
      <3>1. CASE HasPending(Load) /\ choice.state = MarkPendingBad(Load)
        BY <1>1, <3>1, MarkPendingBadFields
      <3>2. CASE /\ HasPending(Load) /\ Load.pending_attempts < MaxPendingAttempts
                 /\ choice.state = CountAttempt(Load)
        <4>1. /\ choice.state.generation = Load.generation + 1
              /\ choice.state.pending_attempts = Load.pending_attempts + 1
          BY <1>1, <3>2, CountAttemptFields
        <4>2. starts <= Load.pending_attempts
          BY <1>1, <3>2 DEF RecordHolds
        <4>3. starts \in Nat /\ Load.pending_attempts \in Nat
          BY <1>1, <1>2 DEF TypeOK, BootRecord, MaxPendingAttempts
        <4> QED BY <4>1, <4>2, <4>3
      <3> QED BY <1>1, <3>1, <3>2, SelectCandidateCases DEF RecordHolds
    <2>3. /\ pc = "reset" /\ pc' = "validate" /\ boot_state' = choice.state
          /\ candidate' = [slot |-> choice.slot, boot_pending |-> choice.boot_pending]
          /\ slots' = slots /\ update_request' = update_request /\ session' = session
          /\ confirmed' = confirmed /\ starts' = starts /\ attended' = attended
          /\ copies' = copies
      BY <1>7 DEF SelectBootSlot, history, ThenSave, stored
    <2>4. \/ job' = job /\ choice.state = Load
          \/ /\ choice.state.generation = Load.generation + 1
             /\ job' = [step |-> "erase", rec |-> choice.state]
      <3>1. choice.state.generation = Load.generation + 1 => choice.state.generation # Load.generation
        BY <1>1 DEF BootRecord
      <3> QED BY <1>7, <2>2, <3>1 DEF SelectBootSlot, PolicyChanged, ThenSave, stored
    <2> HIDE DEF choice
    <2>5. Load' = Load /\ StoreTypeOK' /\ StoreIsSound'
      BY <2>1, <2>3, <2>4, StoreKept
    <2>6. TypeOK'
      BY <1>2, <2>1, <2>3, <2>5 DEF TypeOK
    <2>7. SavesItsChange'
      BY <1>3, <2>3, <2>4, <2>5 DEF SavesItsChange, Busy, choice
    <2>8. BootIsOnRecord'
      <3>1. boot_state' = IF Busy' THEN job'.rec ELSE Load'
        BY <1>3, <2>3, <2>4, <2>5 DEF Busy
      <3>2. candidate'.boot_pending => starts' < boot_state'.pending_attempts
        BY <2>1, <2>2, <2>3
      <3> QED BY <2>1, <2>3, <3>1, <3>2 DEF BootIsOnRecord, Selected, HasPending
    <2> QED BY <1>5, <2>3, <2>5, <2>6, <2>7, <2>8 DEF DeviceInv
  <1>8. CASE ValidateCandidate
    <2>1. /\ pc = "validate" /\ ~Busy /\ boot_state = Load
          /\ slots' = slots /\ update_request' = update_request /\ copies' = copies
          /\ confirmed' = confirmed /\ starts' = starts /\ attended' = attended
      BY <1>2, <1>8 DEF ValidateCandidate, Ready, history, ThenSave, TakeResult, BootIsOnRecord
    <2>2. CASE /\ SlotIsValid(candidate.slot) /\ pc' = "vectors" /\ TakeResult
               /\ UNCHANGED <<bootvars, session>>
      <3>1. job' = IdleJob /\ boot_state' = boot_state /\ candidate' = candidate
            /\ session' = session
        BY <2>2 DEF TakeResult, bootvars
      <3>2. Load' = Load /\ StoreTypeOK' /\ StoreIsSound'
        BY <2>1, <3>1, StoreKept
      <3>3. TypeOK'
        BY <1>2, <2>1, <2>2, <3>1, <3>2 DEF TypeOK
      <3>4. SavesItsChange' /\ ~Busy'
        BY <3>1 DEF SavesItsChange, Busy, IdleJob
      <3>5. BootIsOnRecord'
        <4>1. candidate.slot \in Slots
          BY <1>1, <1>2, <2>1 DEF BootIsOnRecord, Selected
        <4>2. slots[candidate.slot] \in Images
          BY <1>2, <2>2, <4>1 DEF TypeOK, SlotIsValid
        <4> QED BY <1>2, <2>1, <2>2, <3>1, <3>2, <3>4, <4>2
            DEF BootIsOnRecord, CandidateImage, Selected, HasPending
      <3> QED BY <1>5, <2>1, <2>2, <3>1, <3>2, <3>3, <3>4, <3>5 DEF DeviceInv
    <2>3. CASE /\ candidate.boot_pending /\ boot_state' = MarkPendingBad(boot_state)
               /\ ThenSave(boot_state') /\ pc' = "fallback"
               /\ UNCHANGED <<candidate, session>>
      <3>1. /\ HasPending(Load) /\ candidate' = candidate /\ session' = session
            /\ boot_state' = MarkPendingBad(Load)
            /\ job' = [step |-> "erase", rec |-> MarkPendingBad(Load)]
        BY <1>2, <2>1, <2>3 DEF BootIsOnRecord, ThenSave
      <3>2. /\ MarkPendingBad(Load) \in BootRecord
            /\ MarkPendingBad(Load).generation = Load.generation + 1
            /\ ~HasPending(MarkPendingBad(Load))
        BY <1>1, <3>1, MarkPendingBadFields
      <3>3. Load' = Load /\ StoreTypeOK' /\ StoreIsSound'
        BY <2>1, <3>1, <3>2, StoreKept
      <3>4. TypeOK'
        BY <1>2, <2>1, <2>3, <3>1, <3>2, <3>3 DEF TypeOK
      <3>5. SavesItsChange'
        BY <2>3, <3>1, <3>3 DEF SavesItsChange, Busy, HasPending
      <3>6. BootIsOnRecord'
        BY <2>3, <3>1, <3>2 DEF BootIsOnRecord, Busy, HasPending
      <3> QED BY <1>5, <2>1, <2>3, <3>1, <3>3, <3>4, <3>5, <3>6 DEF DeviceInv
    <2>4. CASE TakeResult /\ EnterUpdateMode
      BY <1>2, <1>4, <2>1, <2>4, LeavingKeepsInv DEF EnterUpdateMode, TakeResult, TypeOK
    <2> QED BY <1>8, <2>2, <2>3, <2>4 DEF ValidateCandidate
  <1>9. CASE FallBack
    <2>1. /\ pc = "fallback" /\ ~Busy /\ boot_state = Load /\ ~HasPending(Load)
          /\ job' = IdleJob
          /\ slots' = slots /\ update_request' = update_request /\ copies' = copies
          /\ confirmed' = confirmed /\ starts' = starts /\ attended' = attended
      BY <1>2, <1>9 DEF FallBack, Ready, history, TakeResult, BootIsOnRecord
    <2>2. /\ SelectCandidate(Load).state = Load
          /\ SelectCandidate(Load).slot = Load.active_slot
          /\ SelectCandidate(Load).boot_pending = FALSE
      BY <2>1 DEF SelectCandidate, PendingIsBootable
    <2>3. CASE EnterUpdateMode
      BY <1>2, <1>4, <2>1, <2>3, LeavingKeepsInv DEF EnterUpdateMode, TypeOK
    <2>4. CASE /\ SlotIsValid(Load.active_slot) /\ boot_state' = Load
               /\ candidate' = [slot |-> Load.active_slot, boot_pending |-> FALSE]
               /\ pc' = "vectors" /\ session' = session
      <3>1. Load' = Load /\ StoreTypeOK' /\ StoreIsSound'
        BY <2>1, StoreKept
      <3>2. TypeOK'
        BY <1>1, <1>2, <2>1, <2>4, <3>1 DEF TypeOK
      <3>3. SavesItsChange' /\ ~Busy'
        BY <2>1 DEF SavesItsChange, Busy, IdleJob
      <3>4. slots[Load.active_slot] \in Images
        BY <1>1, <1>2, <2>4 DEF TypeOK, SlotIsValid
      <3>5. BootIsOnRecord'
        BY <2>1, <2>4, <3>1, <3>3, <3>4 DEF BootIsOnRecord, CandidateImage, Selected, HasPending
      <3> QED BY <1>5, <2>1, <2>4, <3>1, <3>2, <3>3, <3>5 DEF DeviceInv
    <2> QED BY <1>9, <2>1, <2>2, <2>3, <2>4 DEF FallBack
  <1>10. CASE RejectVectors
    <2>1. /\ pc = "vectors" /\ boot_state = Load /\ pc' = "giveup"
          /\ slots' = slots /\ update_request' = update_request /\ copies' = copies
          /\ confirmed' = confirmed /\ starts' = starts /\ attended' = attended
          /\ candidate' = candidate /\ session' = session
      BY <1>2, <1>10 DEF RejectVectors, Ready, history, ThenSave, stored, BootIsOnRecord
    <2>2. \/ job' = job /\ boot_state' = Load
          \/ /\ HasPending(Load) /\ boot_state' = MarkPendingBad(Load)
             /\ job' = [step |-> "erase", rec |-> MarkPendingBad(Load)]
      BY <1>2, <1>10, <2>1 DEF RejectVectors, ThenSave, stored, BootIsOnRecord
    <2>3. HasPending(Load) =>
            /\ MarkPendingBad(Load) \in BootRecord
            /\ MarkPendingBad(Load).generation = Load.generation + 1
      BY <1>1, MarkPendingBadFields
    <2>4. Load' = Load /\ StoreTypeOK' /\ StoreIsSound'
      BY <2>1, <2>2, <2>3, StoreKept
    <2>5. TypeOK'
      BY <1>1, <1>2, <2>1, <2>2, <2>3, <2>4 DEF TypeOK
    <2>6. SavesItsChange'
      BY <1>3, <2>1, <2>2, <2>4 DEF SavesItsChange, Busy, HasPending
    <2>7. BootIsOnRecord'
      BY <2>1 DEF BootIsOnRecord
    <2> QED BY <1>5, <2>1, <2>4, <2>5, <2>6, <2>7 DEF DeviceInv
  <1>11. CASE JumpToApp
    <2>1. /\ pc = "vectors" /\ boot_state = Load /\ pc' = "app" /\ boot_state' = NoRecord
          /\ job.step = "idle" /\ job' = job /\ copies' = copies
          /\ slots' = slots /\ update_request' = update_request
          /\ confirmed' = confirmed /\ attended' = attended
          /\ candidate' = candidate /\ session' = session
          /\ CandidateImage \notin BadVectors \cup BadRelocation
      BY <1>2, <1>3, <1>11 DEF JumpToApp, Ready, stored, BootIsOnRecord
    <2>2. Load' = Load /\ StoreTypeOK' /\ StoreIsSound'
      BY <2>1, StoreKept
    <2>3. starts \in 0 .. 4 /\ Load.pending_attempts \in 0 .. 3
      BY <1>1, <1>2 DEF TypeOK, BootRecord, MaxPendingAttempts
    <2>4. /\ starts' \in 0 .. 4
          /\ starts' <= IF HasPending(Load) THEN Load.pending_attempts ELSE MaxPendingAttempts
      <3>1. CASE candidate.boot_pending
        <4>1. HasPending(Load) /\ starts < Load.pending_attempts
          BY <1>2, <2>1, <3>1 DEF BootIsOnRecord
        <4> QED BY <1>11, <2>3, <3>1, <4>1 DEF JumpToApp
      <3>2. CASE ~candidate.boot_pending
        BY <1>1, <1>11, <2>3, <3>2 DEF JumpToApp, RecordHolds
      <3> QED BY <3>1, <3>2
    <2>5. TypeOK'
      BY <1>2, <2>1, <2>2, <2>4 DEF TypeOK, MaxPendingAttempts
    <2>6. SavesItsChange'
      BY <2>1 DEF SavesItsChange, Busy
    <2>7. BootIsOnRecord'
      BY <1>2, <2>1, <2>2 DEF BootIsOnRecord, CandidateImage, Selected, HasPending, Busy
    <2>8. SessionIsAside'
      BY <1>2, <2>1 DEF SessionIsAside
    <2>9. ConfirmedImageIntact' /\ PendingIsValidated'
      BY <2>1, <2>2 DEF DeviceInv, ConfirmedImageIntact, Provisioned, PendingIsValidated, HasPending
    <2>10. StartsAreOnRecord'
      BY <2>2, <2>4 DEF StartsAreOnRecord, HasPending
    <2> QED BY <2>2, <2>5, <2>6, <2>7, <2>8, <2>9, <2>10 DEF DeviceInv
  <1> QED BY <1>6, <1>7, <1>8, <1>9, <1>10, <1>11 DEF BootStep

\* The application, as far as the boot-state record and the resets go.
LEMMA AppStepKeepsInv ==
  ASSUME DeviceInv, AppStep \/ RequestUpdate
  PROVE  DeviceInv'
  <1>1. /\ Load \in BootRecord /\ RecordHolds(Load, slots, starts)
        /\ HasPending(Load) => Load.generation <= LastActivation + 4
    BY StoreFacts
  <1>2. TypeOK /\ StoreIsSound /\ SavesItsChange /\ BootIsOnRecord /\ SessionIsAside
    BY DEF DeviceInv
  <1>3. CASE RequestUpdate \/ WatchdogReset
    <2>1. IdleJob.step = "idle"
      BY DEF IdleJob
    <2>2. update_request' \in BOOLEAN
      BY <1>2, <1>3 DEF RequestUpdate, WatchdogReset, TypeOK
    <2> QED BY <1>3, <2>1, <2>2, LeavingKeepsInv
        DEF RequestUpdate, WatchdogReset, Restart, LoseMemory, stored
  <1>4. CASE Confirm \/ ConfirmReturns
    <2>1. /\ pc = "app" /\ pc' = "app" /\ copies' = copies
          /\ slots' = slots /\ update_request' = update_request /\ session' = session
          /\ boot_state' = boot_state /\ candidate' = candidate
          /\ starts' = starts /\ attended' = attended
      BY <1>4 DEF Confirm, ConfirmReturns, ThenSave, TakeResult, stored, bootvars, history
    <2>2. \/ job' = job /\ job = IdleJob
          \/ job' = IdleJob
          \/ /\ HasPending(Load) /\ Healthy
             /\ job' = [step |-> "erase", rec |-> ConfirmPending(Load)]
      BY <1>4 DEF Confirm, ConfirmReturns, ThenSave, TakeResult, stored
    <2>3. HasPending(Load) => /\ ConfirmPending(Load) \in BootRecord
                              /\ ConfirmPending(Load).generation = Load.generation + 1
      BY <1>1, ConfirmPendingFields
    <2>4. Load' = Load /\ StoreTypeOK' /\ StoreIsSound'
      BY <2>1, <2>2, <2>3, StoreKept
    <2>5. confirmed' \in BOOLEAN
      BY <1>2, <1>4 DEF Confirm, ConfirmReturns, TypeOK
    <2>6. TypeOK'
      BY <1>2, <2>1, <2>4, <2>5 DEF TypeOK
    <2>7. SavesItsChange'
      BY <2>1, <2>2, <2>4 DEF SavesItsChange, Busy, IdleJob, Healthy, CandidateImage, HasPending
    <2>8. BootIsOnRecord'
      BY <1>2, <2>1, <2>4 DEF BootIsOnRecord, CandidateImage, Selected, HasPending
    <2>9. SessionIsAside'
      BY <1>2, <2>1 DEF SessionIsAside
    <2> QED BY <2>1, <2>4, <2>6, <2>7, <2>8, <2>9, RecordKept DEF DeviceInv
  <1> QED BY <1>3, <1>4 DEF AppStep

\* The commands of the host in update mode, and what follows from them.
LEMMA UpdateStepKeepsInv ==
  ASSUME Careful, DeviceInv, UpdateStep \/ Host
  PROVE  DeviceInv'
  <1>1. /\ Load \in BootRecord /\ RecordHolds(Load, slots, starts)
        /\ Load.active_slot \in Slots
        /\ HasPending(Load) => Load.pending_slot \in Slots
    BY StoreFacts
  <1>2. TypeOK /\ StoreIsSound /\ SavesItsChange /\ BootIsOnRecord /\ SessionIsAside
    BY DEF DeviceInv
  <1>3. IdleJob.step = "idle"
    BY DEF IdleJob
  <1>4. ASSUME pc = "update", pc' = "update", job = IdleJob, job' = job, copies' = copies,
               starts' = starts,
               update_request' = update_request, boot_state' = boot_state,
               candidate' = candidate, confirmed' = confirmed, attended' \in BOOLEAN,
               slots' \in [Slots -> Images \cup {NoImage}],
               session' \in [active : BOOLEAN, target : Slots, expected : Images \cup {NoImage},
                  complete : BOOLEAN, valid : BOOLEAN, reset_requested : BOOLEAN],
               Provisioned => slots'[Load.active_slot] = slots[Load.active_slot],
               HasPending(Load) => slots' = slots,
               SessionIsAside'
        PROVE  DeviceInv'
    <2>1. Load' = Load /\ StoreTypeOK' /\ StoreIsSound'
      BY <1>4, StoreKept
    <2>2. TypeOK'
      BY <1>2, <1>4, <2>1 DEF TypeOK
    <2>3. SavesItsChange' /\ BootIsOnRecord'
      BY <1>3, <1>4 DEF SavesItsChange, Busy, BootIsOnRecord
    <2>4. ConfirmedImageIntact' /\ StartsAreOnRecord' /\ PendingIsValidated'
      BY <1>4, <2>1
      DEF DeviceInv, ConfirmedImageIntact, Provisioned, StartsAreOnRecord,
          PendingIsValidated, HasPending
    <2> QED BY <1>4, <2>1, <2>2, <2>3, <2>4 DEF DeviceInv
  <1>5. BeginTarget \in Slots /\ (~HasPending(Load) /\ Provisioned => BeginTarget # Load.active_slot)
    BY <1>1 DEF BeginTarget, InactiveSlot, OtherSlot, SlotIsRunnable, Provisioned, Slots
  <1>6. CASE ProbeHit \/ RequestUpdate \/ UpdateReset \/ Abort
    <2>1. pc = "reset" => job.step = "idle"
      BY <1>2 DEF SavesItsChange
    <2> QED BY <1>2, <1>3, <1>6, <2>1, LeavingKeepsInv
        DEF ProbeHit, RequestUpdate, UpdateReset, Abort, InUpdateMode, EnterUpdateMode, Restart,
            LoseMemory, stored, bootvars, history, TypeOK
  <1>7. CASE Begin
    <2>1. /\ ~HasPending(Load) /\ pc = "update" /\ job = IdleJob
          /\ slots' = [slots EXCEPT ![BeginTarget] = NoImage]
          /\ attended' = TRUE /\ copies' = copies /\ job' = job /\ pc' = pc
          /\ boot_state' = boot_state /\ candidate' = candidate
          /\ update_request' = update_request /\ confirmed' = confirmed /\ starts' = starts
      BY <1>7 DEF Careful, Begin, MayBegin, InUpdateMode, stored, bootvars
    <2>2. PICK i \in Images :
            session' = [session EXCEPT !.active = TRUE, !.target = BeginTarget,
                                       !.expected = i, !.complete = FALSE, !.valid = FALSE]
      BY <1>7 DEF Begin
    <2>3. session' \in [active : BOOLEAN, target : Slots, expected : Images \cup {NoImage},
                        complete : BOOLEAN, valid : BOOLEAN, reset_requested : BOOLEAN]
      BY <1>2, <1>5, <2>2 DEF TypeOK
    <2>4. Load' = Load
      BY <2>1 DEF Load, LoadFrom
    <2>5. SessionIsAside'
      BY <1>2, <1>5, <2>1, <2>2, <2>4 DEF TypeOK, SessionIsAside, Provisioned, HasPending
    <2> QED BY <1>1, <1>2, <1>4, <1>5, <2>1, <2>3, <2>5 DEF TypeOK
  <1>8. CASE BeginFails
    <2>1. /\ ~HasPending(Load) /\ pc = "update" /\ job = IdleJob /\ session' = session
          /\ attended' = TRUE /\ copies' = copies /\ job' = job /\ pc' = pc
          /\ boot_state' = boot_state /\ candidate' = candidate
          /\ update_request' = update_request /\ confirmed' = confirmed /\ starts' = starts
      BY <1>8 DEF Careful, BeginFails, MayBegin, InUpdateMode, stored, bootvars
    <2>2. PICK left \in {NoImage, slots[BeginTarget]} :
            slots' = [slots EXCEPT ![BeginTarget] = left]
      BY <1>8 DEF BeginFails
    <2>3. slots' \in [Slots -> Images \cup {NoImage}]
      BY <1>2, <1>5, <2>2 DEF TypeOK
    <2>4. Load' = Load
      BY <2>1 DEF Load, LoadFrom
    <2>5. \A s \in Slots : slots'[s] \in {slots[s], NoImage}
      BY <1>2, <1>5, <2>2 DEF TypeOK
    <2>6. SessionIsAside'
      BY <1>2, <2>1, <2>4, <2>5 DEF TypeOK, SessionIsAside, Provisioned, HasPending
    <2> QED BY <1>1, <1>2, <1>4, <1>5, <2>1, <2>2, <2>3, <2>6 DEF TypeOK
  <1>9. CASE Transfer
    <2>1. /\ pc = "update" /\ job = IdleJob /\ session.active /\ ~session.complete
          /\ session' = [session EXCEPT !.complete = TRUE]
          /\ attended' = attended /\ copies' = copies /\ job' = job /\ pc' = pc
          /\ boot_state' = boot_state /\ candidate' = candidate
          /\ update_request' = update_request /\ confirmed' = confirmed /\ starts' = starts
      BY <1>9 DEF Transfer, InUpdateMode, stored, bootvars, history
    <2>2. PICK i \in Images \cup {NoImage} : slots' = [slots EXCEPT ![session.target] = i]
      BY <1>9 DEF Transfer
    <2>3. /\ slots' \in [Slots -> Images \cup {NoImage}]
          /\ session' \in [active : BOOLEAN, target : Slots, expected : Images \cup {NoImage},
                        complete : BOOLEAN, valid : BOOLEAN, reset_requested : BOOLEAN]
      BY <1>2, <2>1, <2>2 DEF TypeOK
    <2>4. Load' = Load
      BY <2>1 DEF Load, LoadFrom
    <2>5. ~session.valid /\ ~HasPending(Load) /\ (Provisioned => session.target # Load.active_slot)
      BY <1>2, <2>1 DEF SessionIsAside
    <2>6. SessionIsAside'
      BY <1>2, <2>1, <2>4, <2>5 DEF TypeOK, SessionIsAside, Provisioned, HasPending
    <2> QED BY <1>1, <1>2, <1>4, <2>1, <2>2, <2>3, <2>5, <2>6 DEF TypeOK
  <1>10. CASE Validate
    <2>1. /\ pc = "update" /\ job = IdleJob /\ session.active /\ session.complete
          /\ session' = [session EXCEPT !.valid = TRUE] /\ slots' = slots
          /\ attended' = attended /\ copies' = copies /\ job' = job /\ pc' = pc
          /\ boot_state' = boot_state /\ candidate' = candidate
          /\ update_request' = update_request /\ confirmed' = confirmed /\ starts' = starts
          /\ slots[session.target] = session.expected /\ session.expected \notin BadVectors
      BY <1>10 DEF Validate, TargetIsAcceptable, InUpdateMode, stored, bootvars, history
    <2>2. session' \in [active : BOOLEAN, target : Slots, expected : Images \cup {NoImage},
                        complete : BOOLEAN, valid : BOOLEAN, reset_requested : BOOLEAN]
      BY <1>2, <2>1 DEF TypeOK
    <2>3. Load' = Load
      BY <2>1 DEF Load, LoadFrom
    <2>4. SessionIsAside'
      BY <1>2, <2>1, <2>3 DEF TypeOK, SessionIsAside, Provisioned, HasPending
    <2> QED BY <1>2, <1>4, <2>1, <2>2, <2>4 DEF TypeOK
  <1>11. CASE Activate \/ ActivateReturns
    <2>1. /\ pc = "update" /\ pc' = "update" /\ copies' = copies
          /\ slots' = slots /\ update_request' = update_request
          /\ boot_state' = boot_state /\ candidate' = candidate
          /\ confirmed' = confirmed /\ attended' = attended
      BY <1>11 DEF Activate, ActivateReturns, InUpdateMode, ThenSave, TakeResult, bootvars,
                   history
    <2>2. CASE Activate
      <3> DEFINE new == MarkSlotPending(Load, session.target, session.expected)
      <3>1. /\ session.active /\ session.valid /\ Load.generation <= LastActivation
            /\ job' = [step |-> "erase", rec |-> new] /\ starts' = 0 /\ session' = session
        BY <2>2 DEF Activate, ThenSave
      <3>2. session.target \in Slots /\ session.expected \in Images
        BY <1>2, <3>1 DEF TypeOK, SessionIsAside
      <3>3. LastActivation \in Nat /\ Load.generation \in Nat
        BY <1>1, DeviceAssumption DEF BootRecord
      <3>4. new \in BootRecord /\ new.generation = Load.generation + 1
        BY <1>1, <3>1, <3>2, <3>3, MarkSlotPendingFields
      <3> HIDE DEF new
      <3>5. Load' = Load /\ StoreTypeOK' /\ StoreIsSound'
        BY <2>1, <3>1, <3>4, StoreKept
      <3>6. TypeOK'
        <4>1. starts' \in 0 .. MaxPendingAttempts + 1
          BY <3>1 DEF MaxPendingAttempts
        <4> QED BY <1>2, <2>1, <3>1, <3>5, <4>1 DEF TypeOK
      <3>7. SavesItsChange'
        BY <2>1, <3>1, <3>5 DEF SavesItsChange, Busy, new
      <3>8. BootIsOnRecord'
        BY <2>1 DEF BootIsOnRecord
      <3>9. SessionIsAside'
        BY <1>2, <2>1, <3>1, <3>5 DEF SessionIsAside, Provisioned, HasPending
      <3>10. ConfirmedImageIntact' /\ PendingIsValidated'
        BY <2>1, <3>5 DEF DeviceInv, ConfirmedImageIntact, Provisioned, PendingIsValidated, HasPending
      <3>11. StartsAreOnRecord'
        BY <1>1, <3>1, <3>5 DEF StartsAreOnRecord, BootRecord, MaxPendingAttempts, HasPending
      <3> QED BY <3>5, <3>6, <3>7, <3>8, <3>9, <3>10, <3>11 DEF DeviceInv
    <2>3. CASE ActivateReturns
      <3>1. /\ job' = IdleJob /\ starts' = starts
            /\ session' = [session EXCEPT !.reset_requested = @ \/ job.step = "ok"]
        BY <2>3 DEF ActivateReturns, TakeResult, history
      <3>2. Load' = Load /\ StoreTypeOK' /\ StoreIsSound'
        BY <2>1, <3>1, StoreKept
      <3>3. session' \in [active : BOOLEAN, target : Slots, expected : Images \cup {NoImage},
                          complete : BOOLEAN, valid : BOOLEAN, reset_requested : BOOLEAN]
        BY <1>2, <3>1 DEF TypeOK
      <3>4. TypeOK'
        BY <1>2, <2>1, <3>1, <3>2, <3>3 DEF TypeOK
      <3>5. SavesItsChange' /\ BootIsOnRecord'
        BY <1>3, <2>1, <3>1 DEF SavesItsChange, Busy, BootIsOnRecord
      <3>6. SessionIsAside'
        BY <1>2, <2>1, <3>1, <3>2 DEF TypeOK, SessionIsAside, Provisioned, HasPending
      <3> QED BY <2>1, <3>1, <3>2, <3>4, <3>5, <3>6, RecordKept DEF DeviceInv
    <2> QED BY <1>11, <2>2, <2>3
  <1> QED BY <1>6, <1>7, <1>8, <1>9, <1>10, <1>11 DEF UpdateStep, Host

\* Power may fail between any two steps, and comes back as a reset.
LEMMA PowerKeepsInv ==
  ASSUME DeviceInv, Power
  PROVE  DeviceInv'
  <1>1. TypeOK /\ SavesItsChange /\ SessionIsAside
    BY DEF DeviceInv
  <1>2. IdleJob.step = "idle"
    BY DEF IdleJob
  <1>3. CASE PowerLoss
    <2>1. update_request' \in BOOLEAN
      BY <1>1, <1>3 DEF PowerLoss, TypeOK
    <2> QED BY <1>2, <1>3, <2>1, LeavingKeepsInv DEF PowerLoss, StoreReset, LoseMemory
  <1>4. CASE PowerOn
    <2>1. job.step = "idle" /\ ~session.active
      BY <1>1, <1>4 DEF PowerOn, SavesItsChange, SessionIsAside
    <2> QED BY <1>1, <1>4, <2>1, LeavingKeepsInv DEF PowerOn, stored, bootvars, history, TypeOK
  <1> QED BY <1>3, <1>4 DEF Power

\* Every step keeps the invariant.
LEMMA StepKeepsInv == Careful /\ DeviceInv /\ [Next]_vars => DeviceInv'
  <1> SUFFICES ASSUME Careful, DeviceInv, [Next]_vars PROVE DeviceInv'
    OBVIOUS
  <1>1. CASE UNCHANGED vars
    <2>1. Load' = Load /\ StoreTypeOK' /\ StoreIsSound'
      BY <1>1, StoreKept DEF vars
    <2> QED BY <1>1, <2>1, RecordKept
        DEF vars, DeviceInv, TypeOK, SavesItsChange, BootIsOnRecord, SessionIsAside,
            Busy, Healthy, CandidateImage, Selected, Provisioned, HasPending
  <1> QED BY <1>1, BootStepKeepsInv, AppStepKeepsInv, UpdateStepKeepsInv, StoreStepKeepsInv,
             PowerKeepsInv DEF Next

-----------------------------------------------------------------------------
(* The theorems. *)

\* The record, the save in progress, main's copy of it, the session and the
\* slots agree between any two steps, through every reset.
THEOREM DeviceInvariant ==
  ASSUME Careful
  PROVE  Spec => []DeviceInv
  <1>1. Init => DeviceInv
    BY InitEstablishesInv
  <1>2. DeviceInv /\ [Next]_vars => DeviceInv'
    BY StepKeepsInv
  <1> QED BY <1>1, <1>2, PTL DEF Spec

\* The confirmed slot always holds the image that was confirmed, and that image
\* runs: there is something to fall back to.
THEOREM FallbackIsIntact ==
  ASSUME Careful
  PROVE  Spec => []ConfirmedImageIntact
  <1>1. DeviceInv => ConfirmedImageIntact
    BY DEF DeviceInv
  <1> QED BY <1>1, DeviceInvariant, PTL

\* No sequence of resets gives an unconfirmed image more than its attempts.
THEOREM StartsAreLimited ==
  ASSUME Careful
  PROVE  Spec => []StartsAreOnRecord
  <1>1. DeviceInv => StartsAreOnRecord
    BY DEF DeviceInv
  <1> QED BY <1>1, DeviceInvariant, PTL

\* What awaits its confirmation is what was validated.
THEOREM PendingStaysValidated ==
  ASSUME Careful
  PROVE  Spec => []PendingIsValidated
  <1>1. DeviceInv => PendingIsValidated
    BY DEF DeviceInv
  <1> QED BY <1>1, DeviceInvariant, PTL

\* The only step that changes what load returns is the programming of the record
\* that a save has ready.
LEMMA OnlySavesChangeTheRecord ==
  ASSUME Careful, DeviceInv, [Next]_vars
  PROVE  Load' = Load \/ (Busy /\ Load' = job.rec)
  <1>1. CASE copies' = copies
    BY <1>1 DEF Load, LoadFrom
  <1>2. CASE EraseCopy \/ ProgramCopy
    <2>1. Busy
      BY <1>2 DEF EraseCopy, ProgramCopy, Busy
    <2>2. /\ copies \in Flash /\ ParityHeld(copies) /\ Load \in BootRecord
      BY StoreFacts
    <2>3. job.rec \in BootRecord /\ job.rec.generation = Load.generation + 1
      BY <2>1, SavedRecordHolds
    <2>4. /\ Load.generation \in Nat
          /\ CopyFor(job.rec) \in {0, 1}
          /\ CopyFor(job.rec) = (Load.generation + 1) % 2
      BY <2>2, <2>3, ParityAlternates DEF BootRecord, CopyFor
    <2>5. CASE EraseCopy
      <3>1. LoadFrom([copies EXCEPT ![CopyFor(job.rec)] = NoRecord]) = LoadFrom(copies)
        BY <2>2, <2>4, EraseKeepsLoad DEF Load
      <3> QED BY <2>5, <3>1 DEF EraseCopy, Load, LoadFrom
    <2>6. CASE ProgramCopy
      <3>1. copies[CopyFor(job.rec)] = NoRecord
        BY <2>6 DEF ProgramCopy, DeviceInv, StoreIsSound
      <3>2. LoadFrom([copies EXCEPT ![CopyFor(job.rec)] = job.rec]) = job.rec
        BY <2>2, <2>3, <3>1, ProgramSetsLoad DEF Load
      <3> QED BY <2>1, <2>6, <3>2 DEF ProgramCopy, Load, LoadFrom
    <2> QED BY <1>2, <2>5, <2>6
  <1> QED BY <1>1, <1>2
      DEF Careful, Next, BootStep, TakeHandoff, SelectBootSlot, ValidateCandidate, FallBack,
          RejectVectors, GiveUp, RejectRelocation, JumpToApp, AppStep, Confirm,
          ConfirmReturns, WatchdogReset, UpdateStep, ActivateReturns, UpdateReset, StoreStep,
          WriteRecord, EraseFails, ProgramFails, Host, ProbeHit, RequestUpdate, Begin,
          BeginFails, Transfer, Validate, Activate, Abort, Power, PowerLoss, PowerOn,
          StoreReset, ThenSave, TakeResult, stored, vars

\* A slot becomes confirmed only by the application that runs in it, healthy.
THEOREM OnlyTheRunningConfirms ==
  ASSUME Careful
  PROVE  Spec => ConfirmsOnlyItself
  <1>1. ASSUME DeviceInv, [Next]_vars,
               NEW s \in Slots,
               Load.slot_status[s] # "CONFIRMED", Load'.slot_status[s] = "CONFIRMED"
        PROVE  pc = "app" /\ candidate.slot = s /\ Healthy
    BY <1>1, OnlySavesChangeTheRecord, SavedRecordHolds
  <1>2. DeviceInv /\ [Next]_vars
          => [\A s \in Slots :
                Load.slot_status[s] # "CONFIRMED" /\ Load'.slot_status[s] = "CONFIRMED"
                  => pc = "app" /\ candidate.slot = s /\ Healthy]_vars
    BY <1>1
  <1> QED BY <1>2, DeviceInvariant, PTL DEF Spec, ConfirmsOnlyItself

\* A device with a confirmed application is never left without one.
THEOREM ProvisionedForGood ==
  ASSUME Careful
  PROVE  Spec => StaysProvisioned
  <1>1. DeviceInv /\ [Next]_vars => [Provisioned => Provisioned']_vars
    <2> SUFFICES ASSUME DeviceInv, [Next]_vars, Provisioned PROVE Provisioned'
      OBVIOUS
    <2> QED BY OnlySavesChangeTheRecord, SavedRecordHolds DEF Provisioned
  <1> QED BY <1>1, DeviceInvariant, PTL DEF Spec, StaysProvisioned

\* main saves twice from one record in RAM and looks at neither result: while the
\* flash reports no errors, the second save follows on what the first one wrote,
\* and no save erases the only valid copy.
THEOREM DeviceKeepsItsRecord ==
  ASSUME Careful
  PROVE  Spec => RecordIsNeverLost
  <1>1. ASSUME DeviceInv, [Next]_vars, SomeCopyIsValid, copies' # copies
        PROVE  SomeCopyIsValid'
    <2>1. EraseCopy \/ ProgramCopy
      BY <1>1
      DEF Careful, Next, BootStep, TakeHandoff, SelectBootSlot, ValidateCandidate, FallBack,
          RejectVectors, GiveUp, RejectRelocation, JumpToApp, AppStep, Confirm,
          ConfirmReturns, WatchdogReset, UpdateStep, ActivateReturns, UpdateReset, StoreStep,
          WriteRecord, EraseFails, ProgramFails, Host, ProbeHit, RequestUpdate, Begin,
          BeginFails, Transfer, Validate, Activate, Abort, Power, PowerLoss, PowerOn,
          StoreReset, ThenSave, TakeResult, stored, vars
    <2>2. Busy
      BY <2>1 DEF EraseCopy, ProgramCopy, Busy
    <2>3. copies \in Flash /\ ParityHeld(copies) /\ Load \in BootRecord
      BY <1>1, StoreFacts
    <2>4. job.rec \in BootRecord /\ job.rec.generation = Load.generation + 1
      BY <1>1, <2>2, SavedRecordHolds
    <2>5. /\ CopyFor(job.rec) \in {0, 1}
          /\ CopyFor(job.rec) = (Load.generation + 1) % 2
      BY <2>3, <2>4, ParityAlternates DEF BootRecord, CopyFor
    <2>6. \A rec \in {NoRecord, job.rec} :
            \E d \in {0, 1} : [copies EXCEPT ![CopyFor(job.rec)] = rec][d] # NoRecord
      BY <1>1, <2>3, <2>4, <2>5, WriteKeepsAValidCopy DEF Load, SomeCopyIsValid
    <2> QED BY <2>1, <2>6 DEF EraseCopy, ProgramCopy, SomeCopyIsValid
  <1>2. DeviceInv /\ [Next]_vars => [SomeCopyIsValid => SomeCopyIsValid']_copies
    BY <1>1
  <1> QED BY <1>2, DeviceInvariant, PTL DEF Spec, RecordIsNeverLost

=============================================================================
