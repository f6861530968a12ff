--------------------------- MODULE BootState_proofs --------------------------
(***************************************************************************)
(* Facts about the boot-state policy, for every record and every set of    *)
(* images.  The proofs about the store and about the device rest on them.  *)
(***************************************************************************)
EXTENDS BootState, TLAPS

\* The record a blank device starts from is a well-formed record.
LEMMA InitDefaultType == InitDefault \in BootRecord
  BY DEF InitDefault, BootRecord, Slots, NoSlot, SlotStatus, MaxPendingAttempts

\* So are the records a board is first flashed with.
LEMMA FactoryRecordType ==
  ASSUME NEW slot \in Slots
  PROVE  FactoryRecord(slot) \in BootRecord
  BY DEF FactoryRecord, BootRecord, NoSlot, SlotStatus, MaxPendingAttempts

\* select_latest returns one of the two copies, and a valid one if there is one.
LEMMA SelectLatestChoice ==
  ASSUME NEW first \in BootRecord \cup {NoRecord},
         NEW second \in BootRecord \cup {NoRecord}
  PROVE  /\ SelectLatest(first, second) \in {first, second}
         /\ SelectLatest(first, second) = NoRecord
              => first = NoRecord /\ second = NoRecord
  BY NoRecordAssumption DEF SelectLatest

\* A generation below the modulus is followed by the next integer.
LEMMA NextGenerationIsSuccessor ==
  ASSUME NEW g \in Nat, NEW m \in Nat, g < m, m < GenerationModulus
  PROVE  NextGeneration(g) = g + 1
  BY ModulusAssumption DEF NextGeneration

\* A generation stays a natural number, through the wrap too.
LEMMA NextGenerationType ==
  ASSUME NEW g \in Nat
  PROVE  NextGeneration(g) \in Nat
  BY DEF NextGeneration

\* Marking a pending slot bad keeps the record well formed and moves it by one
\* generation.
LEMMA MarkPendingBadType ==
  ASSUME NEW state \in BootRecord
  PROVE  /\ MarkPendingBad(state) \in BootRecord
         /\ HasPending(state)
              => MarkPendingBad(state).generation = NextGeneration(state.generation)
         /\ ~HasPending(state) => MarkPendingBad(state) = state
         /\ ~HasPending(MarkPendingBad(state))
  <1>1. CASE HasPending(state)
    <2>1. state.pending_slot \in Slots
      BY <1>1 DEF HasPending, BootRecord
    <2>2. [state.slot_status EXCEPT ![state.pending_slot] = "BAD"]
             \in [Slots -> SlotStatus]
      BY <2>1 DEF BootRecord, SlotStatus
    <2>3. NextGeneration(state.generation) \in Nat
      BY NextGenerationType DEF BootRecord
    <2> DEFINE bad == [state.slot_status EXCEPT ![state.pending_slot] = "BAD"]
    <2> HIDE DEF bad
    <2>4. MarkPendingBad(state)
            = [ generation       |-> NextGeneration(state.generation),
                active_slot      |-> state.active_slot,
                pending_slot     |-> NoSlot,
                pending_attempts |-> 0,
                slot_status      |-> bad,
                confirmed_image  |-> state.confirmed_image,
                pending_image    |-> state.pending_image ]
      BY <1>1 DEF MarkPendingBad, BootRecord, bad
    <2> QED
      BY <1>1, <2>2, <2>3, <2>4 DEF HasPending, BootRecord, MaxPendingAttempts, bad
  <1>2. CASE ~HasPending(state)
    BY <1>2 DEF MarkPendingBad
  <1> QED BY <1>1, <1>2

\* ACTIVATE's change of the record is well formed and moves it by one
\* generation.
LEMMA MarkSlotPendingType ==
  ASSUME NEW state \in BootRecord, NEW slot \in Slots, NEW image \in Images
  PROVE  /\ MarkSlotPending(state, slot, image) \in BootRecord
         /\ MarkSlotPending(state, slot, image).generation
              = NextGeneration(state.generation)
  <1>1. [state.slot_status EXCEPT ![slot] = "PENDING"] \in [Slots -> SlotStatus]
    BY DEF BootRecord, SlotStatus
  <1>2. NextGeneration(state.generation) \in Nat
    BY NextGenerationType DEF BootRecord
  <1> QED
    BY <1>1, <1>2 DEF MarkSlotPending, BootRecord, MaxPendingAttempts

\* A confirmation yields a well-formed record of the next generation in which
\* the slot that was pending is active and confirmed.
LEMMA ConfirmPendingType ==
  ASSUME NEW state \in BootRecord, HasPending(state)
  PROVE  /\ ConfirmPending(state) \in BootRecord
         /\ ConfirmPending(state).generation = NextGeneration(state.generation)
         /\ ConfirmPending(state).active_slot = state.pending_slot
  <1>1. state.pending_slot \in Slots
    BY DEF HasPending, BootRecord
  <1>2. NextGeneration(state.generation) \in Nat
    BY NextGenerationType DEF BootRecord
  <1> QED
    BY <1>1, <1>2 DEF ConfirmPending, BootRecord, MaxPendingAttempts, SlotStatus

\* select_candidate keeps the record well formed and either leaves it alone or
\* moves it by exactly one generation: one save persists all it did.
LEMMA SelectCandidateType ==
  ASSUME NEW state \in BootRecord
  PROVE  /\ SelectCandidate(state).state \in BootRecord
         /\ SelectCandidate(state).slot \in Slots
         /\ SelectCandidate(state).boot_pending \in BOOLEAN
         /\ \/ SelectCandidate(state).state = state
            \/ SelectCandidate(state).state.generation
                 = NextGeneration(state.generation)
  <1> DEFINE after == IF PendingIsBootable(state) /\ Exhausted(state)
                      THEN MarkPendingBad(state) ELSE state
  <1>1. after \in BootRecord
    BY MarkPendingBadType
  <1>2. CASE PendingIsBootable(after) /\ ~Exhausted(after)
    <2>1. after = state
      BY <1>2, MarkPendingBadType DEF PendingIsBootable
    <2>2. state.pending_slot \in Slots
      BY <2>1, <1>2 DEF PendingIsBootable, HasPending, BootRecord
    <2>3. state.pending_attempts + 1 \in 0 .. MaxPendingAttempts
      BY <2>1, <1>2 DEF Exhausted, BootRecord, MaxPendingAttempts
    <2>4. NextGeneration(state.generation) \in Nat
      BY NextGenerationType DEF BootRecord
    <2> DEFINE started == [state EXCEPT !.pending_attempts = @ + 1,
                                        !.generation = NextGeneration(@)]
    <2>5. SelectCandidate(state)
            = [ state |-> started,
                slot |-> state.pending_slot, boot_pending |-> TRUE ]
      BY <1>2, <2>1 DEF SelectCandidate, CountAttempt
    <2>6. started \in BootRecord
      BY <2>3, <2>4 DEF BootRecord
    <2>7. started.generation = NextGeneration(state.generation)
      BY DEF BootRecord
    <2> HIDE DEF started
    <2> QED BY <2>2, <2>5, <2>6, <2>7
  <1>3. CASE ~(PendingIsBootable(after) /\ ~Exhausted(after))
    <2>1. SelectCandidate(state)
            = [ state |-> after, slot |-> state.active_slot, boot_pending |-> FALSE ]
      BY <1>3 DEF SelectCandidate, CountAttempt
    <2>2. state.active_slot \in Slots
      BY DEF BootRecord
    <2>3. \/ after = state
          \/ after.generation = NextGeneration(state.generation)
      BY MarkPendingBadType DEF PendingIsBootable
    <2> QED BY <1>1, <2>1, <2>2, <2>3
  <1> QED BY <1>2, <1>3

-----------------------------------------------------------------------------
(* What erasing and programming a copy does to the record load returns. *)

Flash == [{0, 1} -> BootRecord \cup {NoRecord}]

\* Consecutive generations go to different copies.
LEMMA ParityAlternates ==
  ASSUME NEW g \in Nat
  PROVE  /\ g % 2 \in {0, 1}
         /\ (g + 1) % 2 \in {0, 1}
         /\ (g + 1) % 2 # g % 2
  OBVIOUS

\* Load always returns a well-formed record.
LEMMA LoadFromType ==
  ASSUME NEW flash \in Flash
  PROVE  LoadFrom(flash) \in BootRecord
  BY SelectLatestChoice, InitDefaultType DEF LoadFrom, Flash

\* Each copy holds only generations of its own parity.
ParityHeld(flash) ==
  \A c \in {0, 1} : flash[c] # NoRecord => CopyFor(flash[c]) = c

\* Erasing the copy that the next generation goes to leaves load's answer as
\* it is: the newest record is in the other copy.
LEMMA EraseKeepsLoad ==
  ASSUME NEW flash \in Flash, ParityHeld(flash), NEW c \in {0, 1},
         c = (LoadFrom(flash).generation + 1) % 2
  PROVE  LoadFrom([flash EXCEPT ![c] = NoRecord]) = LoadFrom(flash)
  <1> DEFINE o == 1 - c
             erased == [flash EXCEPT ![c] = NoRecord]
  <1>1. o \in {0, 1} /\ o # c /\ flash[o] \in BootRecord \cup {NoRecord}
    BY DEF Flash
  <1>2. erased[c] = NoRecord /\ erased[o] = flash[o]
    BY <1>1 DEF Flash
  <1>3. LoadFrom(flash).generation \in Nat
    BY LoadFromType DEF BootRecord
  <1>4. CASE flash[c] = NoRecord
    <2>1. erased = flash
      BY <1>4 DEF Flash
    <2> QED BY <2>1
  <1>5. CASE flash[c] # NoRecord
    <2>1. LoadFrom(flash) # flash[c]
      <3>1. flash[c].generation % 2 = c
        BY <1>5 DEF ParityHeld, CopyFor
      <3> QED BY <3>1, <1>3, ParityAlternates
    <2>2. LoadFrom(flash) = flash[o] /\ flash[o] # NoRecord
      BY <1>1, <1>5, <2>1 DEF LoadFrom, SelectLatest, Flash
    <2> QED
      BY <1>1, <1>2, <2>2, NoRecordAssumption DEF LoadFrom, SelectLatest
  <1> QED BY <1>4, <1>5

\* Programming a record of the next generation into the erased copy makes it
\* the record load returns.
LEMMA ProgramSetsLoad ==
  ASSUME NEW flash \in Flash, ParityHeld(flash), NEW rec \in BootRecord,
         rec.generation = LoadFrom(flash).generation + 1,
         flash[CopyFor(rec)] = NoRecord
  PROVE  LoadFrom([flash EXCEPT ![CopyFor(rec)] = rec]) = rec
  <1> DEFINE c == CopyFor(rec)
             o == 1 - c
             written == [flash EXCEPT ![c] = rec]
  <1>1. rec.generation \in Nat /\ LoadFrom(flash).generation \in Nat
    BY LoadFromType DEF BootRecord
  <1>2. c \in {0, 1} /\ o \in {0, 1} /\ o # c
    BY <1>1, ParityAlternates DEF CopyFor
  <1>3. written[c] = rec /\ written[o] = flash[o]
    BY <1>2 DEF Flash
  <1>4. rec # NoRecord /\ flash[o] \in BootRecord \cup {NoRecord}
    BY <1>2, NoRecordAssumption DEF Flash
  <1>5. flash[o] # NoRecord => LoadFrom(flash) = flash[o]
    BY <1>2 DEF LoadFrom, SelectLatest
  <1>6. flash[o] # NoRecord => flash[o].generation < rec.generation
    BY <1>1, <1>5
  <1>7. flash[o] # NoRecord => flash[o].generation \in Nat
    BY <1>1, <1>5
  <1>8. SelectLatest(written[0], written[1]) = rec
    BY <1>1, <1>2, <1>3, <1>4, <1>6, <1>7 DEF SelectLatest
  <1> HIDE DEF written
  <1> QED BY <1>4, <1>8 DEF LoadFrom, written

\* Writing to the copy of the next generation, be it erased or programmed, leaves
\* a valid copy when there was one: were that copy the only valid one, load would
\* return the record in it, whose parity selects the other copy.
LEMMA WriteKeepsAValidCopy ==
  ASSUME NEW flash \in Flash, ParityHeld(flash), NEW c \in {0, 1},
         c = (LoadFrom(flash).generation + 1) % 2,
         \E d \in {0, 1} : flash[d] # NoRecord,
         NEW rec \in BootRecord \cup {NoRecord}
  PROVE  \E d \in {0, 1} : [flash EXCEPT ![c] = rec][d] # NoRecord
  <1> DEFINE o == 1 - c
  <1>1. o \in {0, 1} /\ o # c
    OBVIOUS
  <1>2. flash[o] # NoRecord
    <2>1. SUFFICES ASSUME flash[o] = NoRecord PROVE FALSE
      OBVIOUS
    <2>2. flash[c] # NoRecord
      BY <1>1, <2>1
    <2>3. LoadFrom(flash) = flash[c]
      BY <1>1, <2>1, <2>2 DEF LoadFrom, SelectLatest
    <2>4. LoadFrom(flash).generation % 2 = c
      BY <2>2, <2>3 DEF ParityHeld, CopyFor
    <2>5. LoadFrom(flash).generation \in Nat
      BY LoadFromType DEF BootRecord
    <2> QED BY <2>4, <2>5, ParityAlternates
  <1>3. [flash EXCEPT ![c] = rec][o] = flash[o]
    BY <1>1 DEF Flash
  <1> QED BY <1>1, <1>2, <1>3

=============================================================================
