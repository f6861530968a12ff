-------------------------- MODULE BootRuntime_proofs --------------------------
(* RuntimeInv is inductive, for every set of images and every size of the     *)
(* tables; what an application relies on follows from it.                     *)
EXTENDS BootRuntime, TLAPS

\* The numbers among the constants.
LEMMA Bounds ==
  /\ Outside \in Nat /\ MaxAttempts \in Nat /\ SlotSize \in Nat /\ 0 \in 0 .. MaxAttempts
  /\ GotWords \in Nat /\ VectorWords \in Nat /\ GotWords >= 1 /\ VectorWords >= 2
  BY RuntimeAssumption

\* A word of a slot, or what is read behind it, is a number.
LEMMA StoredType ==
  ASSUME NEW im \in Images, NEW n \in Int
  PROVE  Stored(im, n) \in Nat
<1>1. im.word \in [0 .. SlotSize \div 4 - 1 -> Nat]
  BY RuntimeAssumption DEF ImageType
<1> QED
  BY <1>1, Bounds DEF Stored

\* The numbers of an image.
LEMMA ImageNumbers ==
  ASSUME NEW im \in Images
  PROVE  /\ im.size \in Nat /\ im.size >= 8 /\ im.vector_words \in Nat
         /\ im.got_offset \in Nat /\ im.got_size \in Nat /\ im.data_load_offset \in Nat
         /\ WordsOfGot(im) \in Nat /\ im.got_offset \div 4 \in Nat
<1>1. im \in ImageType /\ im.size \in 8 .. SlotSize /\ SlotSize \in Nat
  BY RuntimeAssumption
<1>2. /\ im.size \in Nat /\ im.size >= 8 /\ im.vector_words \in Nat
      /\ im.got_offset \in Nat /\ im.got_size \in Nat /\ im.data_load_offset \in Nat
  BY <1>1 DEF ImageType
<1>3. \A n \in Nat : n \div 4 \in Nat
  OBVIOUS
<1> QED
  BY <1>2, <1>3 DEF WordsOfGot

\* The image and the slot that a boot works on.
LEMMA CandidateType ==
  ASSUME TypeOK
  PROVE  BootImage \in Images /\ BootBase \in Nat /\ BootBase % 2 = 0 /\ candidate.slot \in Slots
  BY RuntimeAssumption DEF TypeOK, BootImage, BootBase

\* A store within the tables leaves the handoff alone.
LEMMA WriteInTables ==
  ASSUME TypeOK, NEW a \in 0 .. GotWords + VectorWords - 1, NEW v \in Nat, Write(a, v)
  PROVE  /\ ram' = [ram EXCEPT ![a] = v] /\ handoff' = handoff
         /\ ram' \in [0 .. GotWords + VectorWords - 1 -> Nat]
  BY RuntimeAssumption DEF TypeOK, Write

\* The first boot has checked nothing yet.
LEMMA InitRuntime == Init => RuntimeInv
<1> SUFFICES ASSUME Init PROVE RuntimeInv
  OBVIOUS
<1>1. TypeOK
  BY RuntimeAssumption DEF Init, TypeOK, NoCandidate, Slots
<1> QED
  BY <1>1 DEF Init, RuntimeInv, Relocating, Started

\* A step that leaves the slots, the candidate and the tables of a boot alone.
LEMMA SameBoot ==
  ASSUME UNCHANGED <<flash, candidate>>
  PROVE  BootImage' = BootImage /\ BootBase' = BootBase
  BY DEF BootImage, BootBase

\* Before a boot has checked its image the invariant asks for the types alone.
LEMMA EarlyRuntime ==
  ASSUME TypeOK', pc' \in {"reset", "update", "vectors"}
  PROVE  RuntimeInv'
  BY DEF RuntimeInv, Relocating, Started

LEMMA ChecksKeepRuntime ==
  ASSUME RuntimeInv, TakeRequest \/ StayInBootloader \/ SelectCandidate \/ CheckVectors
  PROVE  RuntimeInv'
<1> USE DEF RuntimeInv
<1>1. CASE TakeRequest \/ StayInBootloader
  <2>1. TypeOK' /\ pc' = "update"
    BY <1>1 DEF TakeRequest, StayInBootloader, TypeOK, shared
  <2> QED
    BY <2>1, EarlyRuntime
<1>2. CASE SelectCandidate
  <2>1. TypeOK' /\ pc' = "vectors"
    BY <1>2 DEF SelectCandidate, TypeOK, shared
  <2> QED
    BY <2>1, EarlyRuntime
<1>3. CASE CheckVectors
  <2>1. TypeOK' /\ UNCHANGED <<flash, candidate>>
    BY <1>3 DEF CheckVectors, TypeOK, shared
  <2>2. CASE VectorsAreValid(BootImage, candidate.slot)
    <3>1. pc' = "handoff" /\ VectorsAreValid(BootImage, candidate.slot)'
      BY <1>3, <2>1, <2>2, SameBoot DEF CheckVectors, VectorsAreValid, VectorsAreValidForSlot
    <3> QED
      BY <2>1, <3>1 DEF Relocating, Started
  <2>3. CASE ~VectorsAreValid(BootImage, candidate.slot)
    BY <1>3, <2>1, <2>3, EarlyRuntime DEF CheckVectors
  <2> QED
    BY <2>2, <2>3
<1> QED
  BY <1>1, <1>2, <1>3

LEMMA RestartsKeepRuntime ==
  ASSUME RuntimeInv, Install \/ Reset \/ PowerLoss
  PROVE  RuntimeInv'
<1>0. TypeOK
  BY DEF RuntimeInv
<1>1. NoCandidate \in [slot : Slots, boot_pending : BOOLEAN, attempts : 0 .. MaxAttempts]
  BY Bounds DEF NoCandidate, Slots
<1>2. CASE Install
  <2>1. TypeOK' /\ pc' = "update"
    BY <1>0, <1>2 DEF Install, TypeOK, shared
  <2> QED
    BY <2>1, EarlyRuntime
<1>3. CASE Reset
  <2>1. TypeOK' /\ pc' = "reset"
    BY <1>0, <1>1, <1>3 DEF Reset, Restart, TypeOK
  <2> QED
    BY <2>1, EarlyRuntime
<1>4. CASE PowerLoss
  <2>1. DOMAIN ram = 0 .. GotWords + VectorWords - 1 /\ Outside \in Nat
    BY <1>0, Bounds DEF TypeOK
  <2>2. TypeOK' /\ pc' = "reset"
    BY <1>0, <1>1, <1>4, <2>1 DEF PowerLoss, Restart, TypeOK
  <2> QED
    BY <2>2, EarlyRuntime
<1> QED
  BY <1>2, <1>3, <1>4

LEMMA HandoffKeepsRuntime ==
  ASSUME RuntimeInv, PrepareHandoff
  PROVE  RuntimeInv'
<1> USE DEF RuntimeInv
<1>1. /\ UNCHANGED <<flash, candidate, ram, index>>
      /\ pc = "handoff" /\ pc' \in {"tables", "startup"}
      /\ pc' = "tables" <=> IsRelocatable(BootImage)
      /\ pc' = "startup" =>
           cpu' = [table |-> "image", sp |-> Stored(BootImage, 0),
                   reset |-> Stored(BootImage, 1)]
  BY DEF PrepareHandoff
<1>2. BootImage' = BootImage /\ BootBase' = BootBase
  BY <1>1, SameBoot
<1>3. handoff' = OwnHandoff /\ OwnHandoff' = OwnHandoff
  BY <1>1, <1>2 DEF PrepareHandoff, Prepared, OwnHandoff
<1>4. TypeOK'
  BY <1>1 DEF TypeOK
<1>5. VectorsAreValid(BootImage, candidate.slot)'
  BY <1>1, <1>2 DEF VectorsAreValid, VectorsAreValidForSlot, Started, Relocating
<1>6. CASE IsRelocatable(BootImage)
  BY <1>1, <1>2, <1>3, <1>4, <1>5, <1>6 DEF Relocating, Started
<1>7. CASE ~IsRelocatable(BootImage)
  BY <1>1, <1>2, <1>3, <1>4, <1>5, <1>7 DEF Relocating, Started
<1> QED
  BY <1>6, <1>7
\* What a step before the jump has to show: the checks hold of the same image.
LEMMA RelocatingStep ==
  ASSUME RuntimeInv, Relocating, TypeOK', UNCHANGED <<flash, candidate, handoff>>
  PROVE  /\ BootImage' = BootImage /\ BootBase' = BootBase
         /\ VectorsAreValid(BootImage, candidate.slot)'
         /\ handoff' = OwnHandoff'
         /\ IsRelocatable(BootImage)'
<1>1. BootImage' = BootImage /\ BootBase' = BootBase
  BY SameBoot
<1> QED
  BY <1>1 DEF RuntimeInv, VectorsAreValid, VectorsAreValidForSlot, OwnHandoff

LEMMA CheckTablesKeepsRuntime ==
  ASSUME RuntimeInv, CheckTables
  PROVE  RuntimeInv'
<1>1. pc = "tables" /\ UNCHANGED <<flash, candidate>> /\ Relocating /\ TypeOK
  BY DEF CheckTables, Relocating, RuntimeInv
<1>2. CASE TablesAreAccepted(BootImage)
  <2> DEFINE first == Stored(BootImage, 0)
  <2>1. first \in Nat /\ VectorAt(0) \in 0 .. GotWords + VectorWords - 1
    BY <1>1, StoredType, CandidateType, Bounds DEF VectorAt
  <2>2. Write(VectorAt(0), first) /\ pc' = "relocate_vectors" /\ index' = 1
    BY <1>2 DEF CheckTables
  <2>3. /\ ram' = [ram EXCEPT ![VectorAt(0)] = first] /\ handoff' = handoff
        /\ ram' \in [0 .. GotWords + VectorWords - 1 -> Nat]
    BY <1>1, <2>1, <2>2, WriteInTables
  <2>4. TypeOK'
    BY <1>1, <2>2, <2>3 DEF TypeOK
  <2>5. HoldsVectors(1)'
    BY <1>1, <2>1, <2>3, SameBoot DEF HoldsVectors, TypeOK, VectorAt
  <2>6. 1 \in 1 .. BootImage.vector_words /\ TablesAreAccepted(BootImage)'
    BY <1>1, <1>2, SameBoot DEF TablesAreAccepted
  <2> QED
    BY <1>1, <2>2, <2>3, <2>4, <2>5, <2>6, RelocatingStep
    DEF RuntimeInv, Relocating, Started
<1>3. CASE ~TablesAreAccepted(BootImage)
  <2>1. TypeOK' /\ pc' = "update"
    BY <1>1, <1>3 DEF CheckTables, TypeOK
  <2> QED
    BY <2>1, EarlyRuntime
<1> QED
  BY <1>2, <1>3

LEMMA RelocateVectorKeepsRuntime ==
  ASSUME RuntimeInv, RelocateVector
  PROVE  RuntimeInv'
<1> DEFINE handler == Stored(BootImage, index)
<1>1. pc = "relocate_vectors" /\ UNCHANGED <<flash, candidate>> /\ Relocating /\ TypeOK
  BY DEF RelocateVector, Relocating, RuntimeInv
<1>2. HoldsVectors(index) /\ TablesAreAccepted(BootImage)
  BY <1>1 DEF RuntimeInv
<1>3. /\ index \in Nat /\ index >= 1 /\ index < BootImage.vector_words
      /\ BootImage.vector_words \in 2 .. VectorWords
  BY <1>1, <1>2 DEF RuntimeInv, RelocateVector, TypeOK, TablesAreAccepted
<1>4. CASE IsUnused(handler) \/ IsHandler(handler, BootImage.size)
  <2> DEFINE moved == MovedVector(handler, BootBase)
  <2>1. VectorAt(index) \in 0 .. GotWords + VectorWords - 1
    BY <1>3, Bounds DEF VectorAt
  <2>2. handler \in Nat
    BY <1>1, <1>3, StoredType, CandidateType
  <2>3. moved \in Nat
    BY <1>1, <2>2, CandidateType DEF MovedVector
  <2>4. Write(VectorAt(index), moved) /\ pc' = pc /\ index' = index + 1
    BY <1>4 DEF RelocateVector
  <2>5. /\ ram' = [ram EXCEPT ![VectorAt(index)] = moved] /\ handoff' = handoff
        /\ ram' \in [0 .. GotWords + VectorWords - 1 -> Nat]
    BY <1>1, <2>1, <2>3, <2>4, WriteInTables
  <2>6. TypeOK'
    BY <1>1, <1>3, <2>4, <2>5 DEF TypeOK
  <2>7. BootImage' = BootImage /\ BootBase' = BootBase
    BY <1>1, SameBoot
  <2>8. ASSUME NEW n \in 0 .. index - 1
        PROVE  ram'[VectorAt(n)] = ram[VectorAt(n)]
    BY <1>1, <1>3, <2>1, <2>5, Bounds DEF TypeOK, VectorAt
  <2>9. ram'[VectorAt(index)] = moved
    BY <1>1, <2>1, <2>5 DEF TypeOK
  <2>10. HoldsVectors(index)'
    <3>1. ram'[VectorAt(0)] = Stored(BootImage, 0)
      <4>1. ram[VectorAt(0)] = Stored(BootImage, 0)
        BY <1>2 DEF HoldsVectors
      <4> QED
        BY <1>3, <2>8, <4>1
    <3>2. ASSUME NEW n \in 1 .. index
          PROVE  HoldsVector(n)'
      <4>1. CASE n = index
        BY <1>4, <2>7, <2>9, <4>1 DEF HoldsVector, MovedVector
      <4>2. CASE n # index
        <5>1. n \in 1 .. index - 1 /\ n \in 0 .. index - 1
          BY <1>3, <4>2
        <5>2. HoldsVector(n)
          BY <1>2, <5>1 DEF HoldsVectors
        <5> QED
          BY <2>7, <2>8, <5>1, <5>2 DEF HoldsVector
      <4> QED
        BY <4>1, <4>2
    <3>3. index' - 1 = index
      BY <1>3, <2>4
    <3> QED
      BY <2>7, <3>1, <3>2, <3>3 DEF HoldsVectors
  <2>11. index' \in 1 .. BootImage.vector_words
    BY <1>3, <2>4
  <2>12. TablesAreAccepted(BootImage)'
    BY <1>2, <2>7 DEF TablesAreAccepted
  <2> QED
    BY <1>1, <2>4, <2>5, <2>6, <2>7, <2>10, <2>11, <2>12, RelocatingStep
    DEF RuntimeInv, Relocating, Started
<1>5. CASE ~(IsUnused(handler) \/ IsHandler(handler, BootImage.size))
  <2>1. TypeOK' /\ pc' = "update"
    BY <1>1, <1>5 DEF RelocateVector, TypeOK
  <2> QED
    BY <2>1, EarlyRuntime
<1> QED
  BY <1>4, <1>5
LEMMA VectorsDoneKeepsRuntime ==
  ASSUME RuntimeInv, VectorsDone
  PROVE  RuntimeInv'
<1>1. /\ pc = "relocate_vectors" /\ Relocating /\ TypeOK
      /\ UNCHANGED <<flash, candidate, ram, handoff>>
      /\ index = BootImage.vector_words /\ pc' = "relocate_got" /\ index' = 0
  BY DEF VectorsDone, Relocating, RuntimeInv, shared
<1>2. BootImage' = BootImage /\ BootBase' = BootBase
  BY <1>1, SameBoot
<1>3. TypeOK'
  BY <1>1 DEF TypeOK
<1>4. HoldsVectors(BootImage.vector_words) /\ TablesAreAccepted(BootImage)
  BY <1>1 DEF RuntimeInv
<1>5. HoldsVectors(BootImage.vector_words)' /\ TablesAreAccepted(BootImage)'
  BY <1>1, <1>2, <1>4 DEF HoldsVectors, HoldsVector, TablesAreAccepted
<1>6. 0 \in 0 .. WordsOfGot(BootImage)'
  BY <1>1, <1>2, ImageNumbers, CandidateType
<1>7. HoldsGot(0)'
  BY DEF HoldsGot
<1> QED
  BY <1>1, <1>2, <1>3, <1>5, <1>6, <1>7, RelocatingStep DEF RuntimeInv, Relocating, Started

LEMMA RelocateGotKeepsRuntime ==
  ASSUME RuntimeInv, RelocateGot
  PROVE  RuntimeInv'
<1> DEFINE word == Stored(BootImage, BootImage.got_offset \div 4 + index)
           moved == MovedWord(word, BootBase, BootImage.size)
<1>1. /\ pc = "relocate_got" /\ pc' = pc /\ Relocating /\ TypeOK
      /\ UNCHANGED <<flash, candidate>>
      /\ Write(GotAt(index), moved) /\ index' = index + 1
  BY DEF RelocateGot, Relocating, RuntimeInv
<1>2. /\ HoldsVectors(BootImage.vector_words) /\ HoldsGot(index)
      /\ TablesAreAccepted(BootImage)
  BY <1>1 DEF RuntimeInv
<1>3. /\ index \in Nat /\ index < WordsOfGot(BootImage) /\ WordsOfGot(BootImage) \in Nat
      /\ WordsOfGot(BootImage) <= GotWords /\ BootImage.vector_words \in 2 .. VectorWords
  BY <1>1, <1>2, ImageNumbers, CandidateType
  DEF RelocateGot, TypeOK, TablesAreAccepted, GotFits
<1>4. GotAt(index) \in 0 .. GotWords + VectorWords - 1
  BY <1>3, Bounds DEF GotAt
<1>5. word \in Nat
  BY <1>1, <1>3, StoredType, ImageNumbers, CandidateType
<1>6. moved \in Nat
  BY <1>1, <1>5, CandidateType DEF MovedWord
<1>7. /\ ram' = [ram EXCEPT ![GotAt(index)] = moved] /\ handoff' = handoff
      /\ ram' \in [0 .. GotWords + VectorWords - 1 -> Nat]
  BY <1>1, <1>4, <1>6, WriteInTables
<1>8. TypeOK'
  BY <1>1, <1>3, <1>7 DEF TypeOK
<1>9. BootImage' = BootImage /\ BootBase' = BootBase
  BY <1>1, SameBoot
<1>10. HoldsVectors(BootImage.vector_words)'
  <2>1. ASSUME NEW n \in 0 .. BootImage.vector_words - 1
        PROVE  ram'[VectorAt(n)] = ram[VectorAt(n)]
    BY <1>1, <1>3, <1>7, Bounds DEF TypeOK, VectorAt, GotAt
  <2>2. ram'[VectorAt(0)] = Stored(BootImage, 0)
    BY <1>2, <1>3, <2>1 DEF HoldsVectors
  <2>3. ASSUME NEW n \in 1 .. BootImage.vector_words - 1
        PROVE  HoldsVector(n)'
    <3>1. n \in 0 .. BootImage.vector_words - 1
      BY <1>3
    <3>2. HoldsVector(n)
      BY <1>2 DEF HoldsVectors
    <3> QED
      BY <1>9, <2>1, <3>1, <3>2 DEF HoldsVector
  <2> QED
    BY <1>9, <2>2, <2>3 DEF HoldsVectors
<1>11. HoldsGot(index)'
  <2> SUFFICES ASSUME NEW n \in 0 .. index
               PROVE  HoldsWord(n)'
    <3>1. index' - 1 = index
      BY <1>1, <1>3
    <3> QED
      BY <3>1 DEF HoldsGot
  <2>1. CASE n = index
    <3>1. ram'[GotAt(index)] = moved
      BY <1>1, <1>4, <1>7 DEF TypeOK
    <3>2. moved = IF word \in 0 .. BootImage.size - 1 THEN BootBase + word ELSE word
      BY <1>1, <1>5, ImageNumbers, CandidateType DEF MovedWord
    <3> QED
      BY <1>9, <2>1, <3>1, <3>2 DEF HoldsWord
  <2>2. CASE n # index
    <3>1. n \in 0 .. index - 1
      BY <1>3, <2>2
    <3>2. HoldsWord(n)
      BY <1>2, <3>1 DEF HoldsGot
    <3>3. ram'[GotAt(n)] = ram[GotAt(n)]
      BY <1>1, <1>3, <1>7, <3>1, Bounds DEF TypeOK, GotAt
    <3> QED
      BY <1>9, <3>2, <3>3 DEF HoldsWord
  <2> QED
    BY <2>1, <2>2
<1>12. TablesAreAccepted(BootImage)' /\ index' \in 0 .. WordsOfGot(BootImage)'
  BY <1>1, <1>2, <1>3, <1>9 DEF TablesAreAccepted
<1> QED
  BY <1>1, <1>7, <1>8, <1>9, <1>10, <1>11, <1>12, RelocatingStep
  DEF RuntimeInv, Relocating, Started
LEMMA JumpKeepsRuntime ==
  ASSUME RuntimeInv, JumpToApp
  PROVE  RuntimeInv'
<1>1. /\ pc = "relocate_got" /\ pc' = "startup" /\ Relocating /\ TypeOK
      /\ UNCHANGED <<flash, candidate, ram, handoff, index>>
      /\ index = WordsOfGot(BootImage)
      /\ cpu' = [table |-> "ram", sp |-> ram[VectorAt(0)], reset |-> ram[VectorAt(1)]]
  BY DEF JumpToApp, Relocating, RuntimeInv, shared
<1>2. /\ HoldsVectors(BootImage.vector_words) /\ HoldsGot(WordsOfGot(BootImage))
      /\ TablesAreAccepted(BootImage)
  BY <1>1 DEF RuntimeInv
<1>3. BootImage' = BootImage /\ BootBase' = BootBase
  BY <1>1, SameBoot
<1>4. /\ HoldsVectors(BootImage.vector_words)' /\ HoldsGot(WordsOfGot(BootImage))'
      /\ TablesAreAccepted(BootImage)'
  BY <1>1, <1>2, <1>3 DEF HoldsVectors, HoldsVector, HoldsGot, HoldsWord, TablesAreAccepted
<1>5. TypeOK'
  BY <1>1 DEF TypeOK
<1>6. cpu' = [table |-> "ram", sp |-> ram[VectorAt(0)], reset |-> ram[VectorAt(1)]]'
  BY <1>1 DEF VectorAt
<1> QED
  BY <1>1, <1>3, <1>4, <1>5, <1>6, RelocatingStep DEF RuntimeInv, Relocating, Started

\* What the application does leaves the tables and the handoff as they are.
LEMMA ApplicationKeepsRuntime ==
  ASSUME RuntimeInv, Startup \/ InitBootInfo \/ RequestUpdate
  PROVE  RuntimeInv'
<1>1. /\ UNCHANGED <<flash, candidate, ram, handoff, index, cpu>>
      /\ pc \in {"startup", "main", "app"} /\ pc' \in {"main", "app", "hang", "leaving"}
  BY DEF Startup, InitBootInfo, RequestUpdate, shared, started
<1>2. BootImage' = BootImage /\ BootBase' = BootBase /\ OwnHandoff' = OwnHandoff
  BY <1>1, SameBoot DEF OwnHandoff
<1>3. TypeOK /\ TypeOK'
  BY <1>1 DEF RuntimeInv, TypeOK
<1>4. Started /\ Started' /\ ~Relocating' /\ handoff = OwnHandoff /\ handoff' = OwnHandoff'
  BY <1>1, <1>2 DEF RuntimeInv, Started, Relocating
<1>5. VectorsAreValid(BootImage, candidate.slot)'
  BY <1>1, <1>2, <1>4 DEF RuntimeInv, VectorsAreValid, VectorsAreValidForSlot
<1>6. IsRelocatable(BootImage)' =>
        /\ TablesAreAccepted(BootImage)'
        /\ HoldsVectors(BootImage.vector_words)' /\ HoldsGot(WordsOfGot(BootImage))'
        /\ cpu' = [table |-> "ram", sp |-> ram[VectorAt(0)], reset |-> ram[VectorAt(1)]]'
  <2> SUFFICES ASSUME IsRelocatable(BootImage)
               PROVE  /\ TablesAreAccepted(BootImage)'
                      /\ HoldsVectors(BootImage.vector_words)'
                      /\ HoldsGot(WordsOfGot(BootImage))'
                      /\ cpu' = [table |-> "ram", sp |-> ram[VectorAt(0)],
                                 reset |-> ram[VectorAt(1)]]'
    BY <1>2 DEF IsRelocatable
  <2>1. /\ TablesAreAccepted(BootImage) /\ HoldsVectors(BootImage.vector_words)
        /\ HoldsGot(WordsOfGot(BootImage))
        /\ cpu = [table |-> "ram", sp |-> ram[VectorAt(0)], reset |-> ram[VectorAt(1)]]
    BY <1>4 DEF RuntimeInv
  <2> QED
    BY <1>1, <1>2, <2>1 DEF HoldsVectors, HoldsVector, HoldsGot, HoldsWord, TablesAreAccepted,
       VectorAt
<1>7. ~IsRelocatable(BootImage)' =>
        cpu' = [table |-> "image", sp |-> Stored(BootImage, 0),
                reset |-> Stored(BootImage, 1)]'
  BY <1>1, <1>2, <1>4 DEF RuntimeInv, IsRelocatable
<1>8. pc' # "hang" /\ (pc' \in {"app", "leaving"} => boot_info' = OwnHandoff')
  <2>1. HandoffIsValid
    BY <1>3, <1>4, ImageNumbers, CandidateType DEF HandoffIsValid, OwnHandoff
  <2> QED
    BY <1>1, <1>2, <1>4, <2>1
    DEF Startup, InitBootInfo, RequestUpdate, RuntimeInv, shared, started
<1>9. data_from' = BootBase' + BootImage.data_load_offset'
  <2>1. CASE Startup
    <3>1. handoff.image_base = BootBase /\ BootBase = Base[candidate.slot]
      BY <1>4 DEF OwnHandoff, BootBase
    <3>2. candidate.slot \in {"A", "B"} /\ Base["A"] # Base["B"]
      BY <1>3, RuntimeAssumption DEF TypeOK, Slots
    <3>3. (CHOOSE slot \in Slots : Base[slot] = handoff.image_base) = candidate.slot
      BY <3>1, <3>2 DEF Slots
    <3> QED
      BY <1>2, <2>1, <3>1, <3>2, <3>3 DEF Startup, BootImage, Slots
  <2>2. CASE InitBootInfo \/ RequestUpdate
    <3>1. data_from' = data_from /\ pc \in {"main", "app"}
      BY <2>2 DEF InitBootInfo, RequestUpdate, started
    <3> QED
      BY <1>2, <3>1 DEF RuntimeInv
  <2> QED
    BY <2>1, <2>2
<1> QED
  BY <1>3, <1>4, <1>5, <1>6, <1>7, <1>8, <1>9, <1>1 DEF RuntimeInv

LEMMA StutteringKeepsRuntime ==
  ASSUME RuntimeInv, UNCHANGED vars
  PROVE  RuntimeInv'
  BY DEF vars, RuntimeInv, TypeOK, Started, Relocating, BootImage, BootBase, OwnHandoff,
     HoldsVectors, HoldsVector, HoldsGot, HoldsWord, VectorAt, GotAt, VectorsAreValid,
     VectorsAreValidForSlot, TablesAreAccepted, IsRelocatable

LEMMA NextKeepsRuntime == RuntimeInv /\ [Next]_vars => RuntimeInv'
<1> SUFFICES ASSUME RuntimeInv, [Next]_vars PROVE RuntimeInv'
  OBVIOUS
<1>1. CASE TakeRequest \/ StayInBootloader \/ SelectCandidate \/ CheckVectors
  BY <1>1, ChecksKeepRuntime
<1>2. CASE PrepareHandoff
  BY <1>2, HandoffKeepsRuntime
<1>3. CASE CheckTables
  BY <1>3, CheckTablesKeepsRuntime
<1>4. CASE RelocateVector \/ VectorsDone
  BY <1>4, RelocateVectorKeepsRuntime, VectorsDoneKeepsRuntime
<1>5. CASE RelocateGot \/ JumpToApp
  BY <1>5, RelocateGotKeepsRuntime, JumpKeepsRuntime
<1>6. CASE Startup \/ InitBootInfo \/ RequestUpdate
  BY <1>6, ApplicationKeepsRuntime
<1>7. CASE Install \/ Reset \/ PowerLoss
  BY <1>7, RestartsKeepRuntime
<1>8. CASE UNCHANGED vars
  BY <1>8, StutteringKeepsRuntime
<1> QED
  BY <1>1, <1>2, <1>3, <1>4, <1>5, <1>6, <1>7, <1>8 DEF Next, Boot

-----------------------------------------------------------------------------
\* The tables of a boot are built step by step over whatever the RAM held, and
\* hold what they should at each step (boot_runtime.c:52-103, main.c:281-317).
THEOREM RuntimeInvariant == Spec => []RuntimeInv
<1>1. Init => RuntimeInv
  BY InitRuntime
<1>2. RuntimeInv /\ [Next]_vars => RuntimeInv'
  BY NextKeepsRuntime
<1> QED
  BY <1>1, <1>2, PTL DEF Spec

\* An application starts over and keeps the moved tables of its own image.
THEOREM StartsRelocated == Spec => []TablesAreRebased
<1>1. RuntimeInv => TablesAreRebased
  BY DEF RuntimeInv, TablesAreRebased
<1> QED
  BY <1>1, RuntimeInvariant, PTL

\* An application never hangs for want of a handoff and is told the truth by it.
THEOREM KnowsItself == Spec => []AppKnowsItself
<1>1. RuntimeInv => AppKnowsItself
  BY DEF RuntimeInv, AppKnowsItself
<1> QED
  BY <1>1, RuntimeInvariant, PTL
\* A slot begins at an even address, so that a handler keeps its thumb bit.
LEMMA MovedHandlerPoints ==
  ASSUME TypeOK, NEW h \in Nat, IsHandler(h, BootImage.size)
  PROVE  PointsInto(BootBase + h, BootImage.size)
<1>1. h % 2 = 1 /\ h - 1 < BootImage.size /\ h >= 1 /\ BootImage.size \in Nat
  BY ImageNumbers, CandidateType DEF IsHandler, IsThumb
<1>2. (BootBase + h) % 2 = 1
  BY <1>1, CandidateType
<1> QED
  BY <1>1, <1>2, CandidateType DEF PointsInto, IsThumb

LEMMA StartIsInSlot == RuntimeInv => RunsInItsSlot
<1> SUFFICES ASSUME RuntimeInv, Started
             PROVE  RunsInItsSlot
  BY DEF RunsInItsSlot
<1>1. TypeOK /\ VectorsAreValid(BootImage, candidate.slot)
  BY DEF RuntimeInv
<1>2. CASE IsRelocatable(BootImage)
  <2>1. /\ HoldsVectors(BootImage.vector_words) /\ BootImage.vector_words \in 2 .. VectorWords
        /\ cpu.sp = ram[VectorAt(0)] /\ cpu.reset = ram[VectorAt(1)]
    BY <1>2 DEF RuntimeInv, IsRelocatable
  <2>2. /\ Stored(BootImage, 0) \in RamStart .. GotAddr /\ Stored(BootImage, 0) % 8 = 0
        /\ IsHandler(Stored(BootImage, 1), BootImage.size)
    BY <1>1, <1>2 DEF VectorsAreValid, RelativeVectorsAreValid, IsHandler
  <2>3. ASSUME NEW n \in 1 .. BootImage.vector_words - 1
        PROVE  ram[VectorAt(n)] = 0 \/ PointsInto(ram[VectorAt(n)], BootImage.size)
    <3>1. HoldsVector(n) /\ n \in Int
      BY <2>1 DEF HoldsVectors
    <3>2. Stored(BootImage, n) \in Nat
      BY <1>1, <3>1, StoredType, CandidateType
    <3> QED
      BY <1>1, <3>1, <3>2, MovedHandlerPoints DEF HoldsVector
  <2>4. PointsInto(cpu.reset, BootImage.size)
    <3>1. Stored(BootImage, 1) \in Nat
      BY <1>1, StoredType, CandidateType
    <3>2. BootImage.size <= SlotSize /\ BootImage.size \in Nat
      BY <1>1, CandidateType, ImageNumbers, RuntimeAssumption
    <3>3. ~IsUnused(Stored(BootImage, 1))
      <4>1. SlotSize < BootRam /\ BootRam \in Nat /\ SlotSize \in Nat
        BY RuntimeAssumption
      <4>2. Stored(BootImage, 1) # 0 /\ Stored(BootImage, 1) <= BootImage.size
        BY <2>2, <3>1, <3>2 DEF IsHandler, IsThumb
      <4> QED
        BY <3>1, <3>2, <4>1, <4>2 DEF IsUnused
    <3>4. 1 \in 1 .. BootImage.vector_words - 1
      BY <2>1
    <3>5. ram[VectorAt(1)] = BootBase + Stored(BootImage, 1)
      BY <2>1, <3>3, <3>4 DEF HoldsVectors, HoldsVector
    <3> QED
      BY <1>1, <2>1, <2>2, <3>1, <3>5, MovedHandlerPoints
  <2>5. cpu.sp = Stored(BootImage, 0)
    BY <2>1 DEF HoldsVectors
  <2> QED
    BY <1>2, <2>2, <2>3, <2>4, <2>5 DEF RunsInItsSlot
<1>3. CASE ~IsRelocatable(BootImage)
  <2>1. cpu.sp = Stored(BootImage, 0) /\ cpu.reset = Stored(BootImage, 1)
    BY <1>3 DEF RuntimeInv
  <2>2. VectorsAreValidForSlot(Stored(BootImage, 0), Stored(BootImage, 1), candidate.slot)
    BY <1>1, <1>3 DEF VectorsAreValid
  <2> QED
    BY <1>3, <2>1, <2>2 DEF VectorsAreValidForSlot, RunsInItsSlot, PointsInto, BootBase
<1> QED
  BY <1>2, <1>3

\* Whatever its words are, an image runs and is interrupted in its own slot.
THEOREM StaysInSlot == Spec => []RunsInItsSlot
  BY StartIsInSlot, RuntimeInvariant, PTL

LEMMA OnlyRelocationDecides ==
  ASSUME RuntimeInv, [Next]_vars, Relocating, pc' = "update" \/ pc' = "startup"
  PROVE  CheckTables \/ RelocateVector \/ JumpToApp
<1>1. pc \in {"tables", "relocate_vectors", "relocate_got"}
  BY DEF Relocating
<1> QED
  BY <1>1 DEF Next, Boot, TakeRequest, StayInBootloader, SelectCandidate, CheckVectors,
     PrepareHandoff, VectorsDone, RelocateGot, Startup, InitBootInfo, RequestUpdate, Install,
     Reset, PowerLoss, Restart, vars

\* The checks before the first write are the first four of IsMovable.
LEMMA AcceptedTables ==
  ASSUME NEW im \in Images, im.vector_words \in 2 .. VectorWords
  PROVE  TablesAreAccepted(im) <=>
           /\ 4 * im.vector_words <= im.size
           /\ im.got_offset % 4 = 0 /\ im.got_size % 4 = 0
           /\ im.got_offset + im.got_size <= im.size
           /\ im.got_size <= 4 * GotWords
<1>1. /\ im.size \in Nat /\ im.vector_words \in Nat /\ im.got_offset \in Nat
      /\ im.got_size \in Nat /\ GotWords \in Nat
  BY ImageNumbers, Bounds
<1>2. im.vector_words <= im.size \div 4 <=> 4 * im.vector_words <= im.size
  BY <1>1
<1>3. im.got_size % 4 = 0 => (im.got_size \div 4 <= GotWords <=> im.got_size <= 4 * GotWords)
  BY <1>1
<1> QED
  BY <1>1, <1>2, <1>3 DEF TablesAreAccepted, GotFits, WordsOfGot

LEMMA OutcomeStep ==
  ASSUME RuntimeInv, [Next]_vars, Relocating
  PROVE  (pc' = "update" => ~IsMovable) /\ (pc' = "startup" => IsMovable)
<1>1. TypeOK /\ BootImage.vector_words \in 2 .. VectorWords
  BY DEF RuntimeInv, IsRelocatable
<1>2. BootImage \in Images
  BY <1>1, CandidateType
<1>3. CASE CheckTables
  BY <1>1, <1>2, <1>3, AcceptedTables DEF CheckTables, IsMovable
<1>4. CASE RelocateVector
  <2>1. /\ index \in 1 .. BootImage.vector_words - 1
        /\ pc' # "startup"
        /\ pc' = "update" =>
             ~(IsUnused(Stored(BootImage, index)) \/ IsHandler(Stored(BootImage, index), BootImage.size))
    BY <1>1, <1>4 DEF RelocateVector, RuntimeInv
  <2>2. Stored(BootImage, index) \in Nat /\ BootImage.size \in Nat
    BY <1>2, <2>1, StoredType, ImageNumbers
  <2> QED
    BY <2>1, <2>2 DEF IsMovable, IsHandler, IsThumb
<1>5. CASE JumpToApp
  <2>1. TablesAreAccepted(BootImage) /\ HoldsVectors(BootImage.vector_words) /\ pc' = "startup"
    BY <1>5 DEF JumpToApp, RuntimeInv
  <2>2. ASSUME NEW n \in 1 .. BootImage.vector_words - 1
        PROVE  \/ IsUnused(Stored(BootImage, n))
               \/ Stored(BootImage, n) % 2 = 1 /\ Stored(BootImage, n) <= BootImage.size
    <3>1. Stored(BootImage, n) \in Nat /\ BootImage.size \in Nat
      BY <1>1, <1>2, StoredType, ImageNumbers
    <3> QED
      BY <2>1, <3>1 DEF HoldsVectors, HoldsVector, IsHandler, IsThumb
  <2> QED
    BY <1>1, <1>2, <2>1, <2>2, AcceptedTables DEF IsMovable
<1> QED
  BY <1>3, <1>4, <1>5, OnlyRelocationDecides

\* Relocation refuses an image exactly when it cannot be moved.
THEOREM RelocationIsDecided == Spec => OutcomeIsTheImages
<1>1. RuntimeInv /\ [Next]_vars =>
        [Relocating => /\ pc' = "update" => ~IsMovable
                       /\ pc' = "startup" => IsMovable]_vars
  BY OutcomeStep
<1> QED
  BY <1>1, RuntimeInvariant, PTL DEF Spec, OutcomeIsTheImages
=============================================================================
