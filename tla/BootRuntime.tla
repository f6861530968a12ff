------------------------------ MODULE BootRuntime ------------------------------
(***************************************************************************)
(* From the choice of an image to its running application: the end of the    *)
(* bootloader's main, boot_runtime_relocate, jump_to_app, pic_startup.s and  *)
(* platform_boot_info_init.  They meet in the RAM that linker scripts keep    *)
(* free: GOT, vector table, handoff and update request, side by side, which  *)
(* no reset clears, so that a boot starts over the tables of the last one.   *)
(*                                                                         *)
(* Offsets and addresses are in bytes and words have four, as in the code.   *)
(* No sum in it wraps: each follows a check of both terms (boot_runtime.c:73,  *)
(* 89, 100).                                                                *)
(***************************************************************************)
EXTENDS Integers

CONSTANTS
  Images,             \* what app_image_validate accepts as content of a slot
  Base,               \* the address of each slot
  SlotSize,           \* APP_SLOT_SIZE
  Outside,            \* the word read behind the end of a slot
  BootRam,            \* the last vector of the vendor's table, 0xF108F85F
  RamStart, RamEnd,   \* RAM_START_ADDR and RAM_END_ADDR
  GotAddr,            \* BOOT_RUNTIME_GOT_ADDR
  GotWords,           \* BOOT_RUNTIME_GOT_WORDS
  VectorWords,        \* BOOT_RUNTIME_VECTOR_WORDS, and the 128 of app_manifest.h
  MaxAttempts,        \* bound: boot attempts on record
  MaxResets           \* bound: resets and power losses

Slots == {"A", "B"}

ImageType ==
  [size : Nat, vector_words : Nat, got_offset : Nat, got_size : Nat,
   data_load_offset : Nat, word : [0 .. SlotSize \div 4 - 1 -> Nat]]

ASSUME RuntimeAssumption ==
  /\ Images \subseteq ImageType
  /\ \A image \in Images : image.size \in 8 .. SlotSize
  /\ Base \in [Slots -> Nat] /\ \A slot \in Slots : Base[slot] % 2 = 0
  /\ Base["A"] # Base["B"]
  /\ {SlotSize, Outside, BootRam, RamStart, RamEnd, GotAddr, MaxAttempts, MaxResets}
       \subseteq Nat
  /\ SlotSize < BootRam
  /\ GotWords \in Nat \ {0} /\ VectorWords \in Nat \ {0, 1}

VARIABLES
  pc,                 \* what the processor executes
  flash,              \* the image in each slot
  candidate,          \* boot_candidate_t and the attempts of the boot-state record
  ram,                \* the GOT and, behind it, the vector table
  handoff,            \* boot_handoff_t; valid stands for its magic, version, size, CRC
  request,            \* does the update request word hold its magic
  index,              \* of the loop in boot_runtime_relocate
  cpu,                \* what jump_to_app loads: table at VTOR, stack pointer, PC
  data_from,          \* where pic_startup.s copies .data from
  boot_info,          \* platform_boot_info_t, the same fields with boot_info_valid
  resets              \* history: how many

vars == <<pc, flash, candidate, ram, handoff, request, index, cpu, data_from, boot_info, resets>>
shared == <<ram, handoff, request>>
started == <<cpu, data_from, boot_info>>

-----------------------------------------------------------------------------
(* What a slot says of itself. *)

Stored(image, n) == IF n \in DOMAIN image.word THEN image.word[n] ELSE Outside

\* app_manifest_is_relocatable.
IsRelocatable(image) == image.vector_words \in 2 .. VectorWords

IsThumb(address) == address % 2 = 1

\* app_relative_vectors_are_valid.
RelativeVectorsAreValid(sp, reset, size) ==
  /\ sp \in RamStart .. GotAddr /\ sp % 8 = 0
  /\ IsThumb(reset) /\ reset - 1 < size

\* app_vectors_are_valid_for_slot.
VectorsAreValidForSlot(sp, reset, slot) ==
  /\ sp \in RamStart .. RamEnd /\ sp % 8 = 0
  /\ IsThumb(reset) /\ reset - 1 \in Base[slot] .. Base[slot] + SlotSize - 1

VectorsAreValid(image, slot) ==
  IF IsRelocatable(image)
  THEN RelativeVectorsAreValid(Stored(image, 0), Stored(image, 1), image.size)
  ELSE VectorsAreValidForSlot(Stored(image, 0), Stored(image, 1), slot)

WordsOfGot(image) == image.got_size \div 4

\* A table of one word too many is let through.
FaultyGotFits(image) == WordsOfGot(image) <= GotWords + 1

GotFits(image) == WordsOfGot(image) <= GotWords

\* The checks of boot_runtime_relocate before its first write.
TablesAreAccepted(image) ==
  /\ image.vector_words \in 2 .. VectorWords
  /\ image.vector_words <= image.size \div 4
  /\ image.got_offset % 4 = 0 /\ image.got_size % 4 = 0
  /\ image.got_offset <= image.size
  /\ image.got_size <= image.size - image.got_offset
  /\ GotFits(image)

IsUnused(handler) == handler = 0 \/ handler = BootRam

\* The end of the image is not looked at.
FaultyIsHandler(handler, size) == IsThumb(handler)

IsHandler(handler, size) == IsThumb(handler) /\ handler - 1 < size

MovedVector(handler, base) == IF IsUnused(handler) THEN 0 ELSE base + handler

\* A word one past the image, the end of its last section, is moved as well.
FaultyMovedWord(word, base, size) == IF word > size THEN word ELSE base + word

\* An offset into the image becomes an address, an address of RAM or of a
\* peripheral stays.
MovedWord(word, base, size) == IF word < size THEN base + word ELSE word

-----------------------------------------------------------------------------
(* The bootloader. *)

BootImage == flash[candidate.slot]
BootBase == Base[candidate.slot]

GotAt(n) == n
VectorAt(n) == GotWords + n

NoCandidate == [slot |-> "A", boot_pending |-> FALSE, attempts |-> 0]
NoHandoff ==
  [valid |-> FALSE, image_base |-> 0, image_size |-> 0, slot |-> "A", pending |-> FALSE,
   boot_attempt |-> 0]
NotStarted == [table |-> "boot", sp |-> 0, reset |-> 0]

\* A store to the shared RAM: what runs over the vector table hits the handoff.
Write(address, value) ==
  \/ /\ address \in DOMAIN ram
     /\ ram' = [ram EXCEPT ![address] = value]
     /\ UNCHANGED handoff
  \/ /\ address \notin DOMAIN ram
     /\ handoff' = NoHandoff
     /\ UNCHANGED ram

\* update_handoff_take.
TakeRequest ==
  /\ pc = "reset" /\ request
  /\ request' = FALSE
  /\ pc' = "update"
  /\ UNCHANGED <<flash, candidate, ram, handoff, index, started, resets>>

\* The probe is answered, or no slot can be booted.
StayInBootloader ==
  /\ pc = "reset" /\ ~request
  /\ pc' = "update"
  /\ UNCHANGED <<flash, candidate, shared, index, started, resets>>

\* A candidate whose image app_image_validate accepts, whatever the policy.
SelectCandidate ==
  /\ pc = "reset" /\ ~request
  /\ \E slot \in Slots, pending \in BOOLEAN, attempts \in 0 .. MaxAttempts :
       candidate' = [slot |-> slot, boot_pending |-> pending, attempts |-> attempts]
  /\ pc' = "vectors"
  /\ UNCHANGED <<flash, shared, index, started, resets>>

CheckVectors ==
  /\ pc = "vectors"
  /\ pc' = IF VectorsAreValid(BootImage, candidate.slot) THEN "handoff" ELSE "update"
  /\ UNCHANGED <<flash, candidate, shared, index, started, resets>>

\* The record of the first boot is kept as long as it is valid.
FaultyPrepared(old, new) == IF old.valid THEN old ELSE new

Prepared(old, new) == new

\* prepare_boot_handoff, and the jump of an image that is linked to its slot.
PrepareHandoff ==
  /\ pc = "handoff"
  /\ handoff' = Prepared(handoff,
       [valid |-> TRUE, image_base |-> BootBase, image_size |-> BootImage.size,
        slot |-> candidate.slot, pending |-> candidate.boot_pending,
        boot_attempt |-> IF candidate.boot_pending THEN candidate.attempts ELSE 0])
  /\ IF IsRelocatable(BootImage)
     THEN pc' = "tables" /\ UNCHANGED cpu
     ELSE /\ pc' = "startup"
          /\ cpu' = [table |-> "image", sp |-> Stored(BootImage, 0), reset |-> Stored(BootImage, 1)]
  /\ UNCHANGED <<flash, candidate, ram, request, index, data_from, boot_info, resets>>

CheckTables ==
  /\ pc = "tables"
  /\ IF TablesAreAccepted(BootImage)
     THEN Write(VectorAt(0), Stored(BootImage, 0)) /\ pc' = "relocate_vectors" /\ index' = 1
     ELSE pc' = "update" /\ UNCHANGED <<ram, handoff, index>>
  /\ UNCHANGED <<flash, candidate, request, started, resets>>

RelocateVector ==
  /\ pc = "relocate_vectors" /\ index < BootImage.vector_words
  /\ LET handler == Stored(BootImage, index) IN
       IF IsUnused(handler) \/ IsHandler(handler, BootImage.size)
       THEN /\ Write(VectorAt(index), MovedVector(handler, BootBase))
            /\ index' = index + 1
            /\ UNCHANGED pc
       ELSE pc' = "update" /\ UNCHANGED <<ram, handoff, index>>
  /\ UNCHANGED <<flash, candidate, request, started, resets>>

VectorsDone ==
  /\ pc = "relocate_vectors" /\ index = BootImage.vector_words
  /\ pc' = "relocate_got" /\ index' = 0
  /\ UNCHANGED <<flash, candidate, shared, started, resets>>

RelocateGot ==
  /\ pc = "relocate_got" /\ index < WordsOfGot(BootImage)
  /\ Write(GotAt(index),
           MovedWord(Stored(BootImage, BootImage.got_offset \div 4 + index), BootBase, BootImage.size))
  /\ index' = index + 1
  /\ UNCHANGED <<pc, flash, candidate, request, started, resets>>

\* main reads the first two vectors back, and jump_to_app loads them.
JumpToApp ==
  /\ pc = "relocate_got" /\ index = WordsOfGot(BootImage)
  /\ cpu' = [table |-> "ram", sp |-> ram[VectorAt(0)], reset |-> ram[VectorAt(1)]]
  /\ pc' = "startup"
  /\ UNCHANGED <<flash, candidate, shared, index, data_from, boot_info, resets>>

-----------------------------------------------------------------------------
(* The application, and what happens to all. *)

\* Reset_Handler of pic_startup.s: it trusts the image_base of the handoff.
Startup ==
  /\ pc = "startup"
  /\ data_from' = handoff.image_base +
       (IF \E slot \in Slots : Base[slot] = handoff.image_base
        THEN flash[CHOOSE slot \in Slots : Base[slot] = handoff.image_base].data_load_offset
        ELSE Outside)
  /\ pc' = "main"
  /\ UNCHANGED <<flash, candidate, shared, index, cpu, boot_info, resets>>

HandoffIsValid == handoff.valid /\ handoff.image_size # 0

\* platform_boot_info_init; main hangs without it.
InitBootInfo ==
  /\ pc = "main"
  /\ IF HandoffIsValid
     THEN boot_info' = handoff /\ pc' = "app"
     ELSE boot_info' = NoHandoff /\ pc' = "hang"
  /\ UNCHANGED <<flash, candidate, shared, index, cpu, data_from, resets>>

\* platform_request_update_reset, up to NVIC_SystemReset.
RequestUpdate ==
  /\ pc = "app"
  /\ request' = TRUE
  /\ pc' = "leaving"
  /\ UNCHANGED <<flash, candidate, ram, handoff, index, started, resets>>

\* An update session replaces an image.
Install ==
  /\ pc = "update"
  /\ \E slot \in Slots, new \in Images : flash' = [flash EXCEPT ![slot] = new]
  /\ UNCHANGED <<pc, candidate, shared, index, started, resets>>

Restart ==
  /\ resets < MaxResets /\ resets' = resets + 1
  /\ pc' = "reset"
  /\ candidate' = NoCandidate /\ index' = 0
  /\ cpu' = NotStarted /\ data_from' = 0 /\ boot_info' = NoHandoff
  /\ UNCHANGED flash

\* The watchdog, the reset line, NVIC_SystemReset: RAM stays.  It may come in
\* the middle of the store of the handoff.
Reset ==
  /\ Restart
  /\ handoff' \in {handoff} \cup (IF pc = "handoff" THEN {NoHandoff} ELSE {})
  /\ UNCHANGED <<ram, request>>

PowerLoss ==
  /\ Restart
  /\ ram' = [n \in DOMAIN ram |-> Outside]
  /\ handoff' = NoHandoff /\ request' = FALSE

Init ==
  /\ pc = "reset"
  /\ flash \in [Slots -> Images]
  /\ candidate = NoCandidate
  /\ ram = [n \in 0 .. GotWords + VectorWords - 1 |-> Outside]
  /\ handoff = NoHandoff /\ request = FALSE
  /\ index = 0 /\ cpu = NotStarted /\ data_from = 0 /\ boot_info = NoHandoff
  /\ resets = 0

Boot ==
  \/ TakeRequest \/ StayInBootloader \/ SelectCandidate \/ CheckVectors
  \/ PrepareHandoff \/ CheckTables \/ RelocateVector \/ VectorsDone \/ RelocateGot
  \/ JumpToApp

Next == Boot \/ Startup \/ InitBootInfo \/ RequestUpdate \/ Install \/ Reset \/ PowerLoss

Spec == Init /\ [][Next]_vars

-----------------------------------------------------------------------------
(* Properties. *)

TypeOK ==
  /\ pc \in {"reset", "update", "vectors", "handoff", "tables", "relocate_vectors",
             "relocate_got", "startup", "main", "app", "leaving", "hang"}
  /\ flash \in [Slots -> Images]
  /\ candidate \in [slot : Slots, boot_pending : BOOLEAN, attempts : 0 .. MaxAttempts]
  /\ ram \in [0 .. GotWords + VectorWords - 1 -> Nat]
  /\ index \in Nat

\* The application has the processor.
Started == pc \in {"startup", "main", "app", "leaving", "hang"}
Relocating == pc \in {"tables", "relocate_vectors", "relocate_got"}

HoldsVector(n) ==
  LET handler == Stored(BootImage, n) IN
    /\ IsUnused(handler) \/ IsHandler(handler, BootImage.size)
    /\ ram[VectorAt(n)] = IF IsUnused(handler) THEN 0 ELSE BootBase + handler
HoldsWord(n) ==
  LET word == Stored(BootImage, BootImage.got_offset \div 4 + n) IN
    ram[GotAt(n)] = IF word \in 0 .. BootImage.size - 1 THEN BootBase + word ELSE word
HoldsVectors(limit) ==
  ram[VectorAt(0)] = Stored(BootImage, 0) /\ \A n \in 1 .. limit - 1 : HoldsVector(n)
HoldsGot(limit) == \A n \in 0 .. limit - 1 : HoldsWord(n)

OwnHandoff ==
  [valid |-> TRUE, image_base |-> BootBase, image_size |-> BootImage.size,
   slot |-> candidate.slot, pending |-> candidate.boot_pending,
   boot_attempt |-> IF candidate.boot_pending THEN candidate.attempts ELSE 0]

\* How far the tables are after each step, and what every later step relies on:
\* the words already written and the handoff are not touched again, although all
\* share one RAM (boot_runtime.c:77-102, main.c:287-317).
RuntimeInv ==
  /\ TypeOK
  /\ pc = "handoff" \/ Relocating \/ Started => VectorsAreValid(BootImage, candidate.slot)
  /\ Relocating \/ Started => handoff = OwnHandoff
  /\ Relocating => IsRelocatable(BootImage)
  /\ pc \in {"relocate_vectors", "relocate_got"} \/ (Started /\ IsRelocatable(BootImage)) =>
       TablesAreAccepted(BootImage)
  /\ pc = "relocate_vectors" => index \in 1 .. BootImage.vector_words /\ HoldsVectors(index)
  /\ pc = "relocate_got" =>
       /\ index \in 0 .. WordsOfGot(BootImage)
       /\ HoldsVectors(BootImage.vector_words) /\ HoldsGot(index)
  /\ Started /\ IsRelocatable(BootImage) =>
       /\ HoldsVectors(BootImage.vector_words) /\ HoldsGot(WordsOfGot(BootImage))
       /\ cpu = [table |-> "ram", sp |-> ram[VectorAt(0)], reset |-> ram[VectorAt(1)]]
  /\ Started /\ ~IsRelocatable(BootImage) =>
       cpu = [table |-> "image", sp |-> Stored(BootImage, 0), reset |-> Stored(BootImage, 1)]
  /\ pc # "hang"
  /\ pc \in {"main", "app", "leaving"} => data_from = BootBase + BootImage.data_load_offset
  /\ pc \in {"app", "leaving"} => boot_info = OwnHandoff

\* The tables an application starts with and keeps are those of its own image,
\* each word moved once and to its own slot, whatever earlier boots left in the
\* RAM: other images, tables half done, garbage (boot_runtime.c:83-101).
TablesAreRebased ==
  Started /\ IsRelocatable(BootImage) =>
    /\ cpu.table = "ram"
    /\ HoldsVectors(BootImage.vector_words)
    /\ HoldsGot(WordsOfGot(BootImage))

PointsInto(address, size) == IsThumb(address) /\ address - 1 \in BootBase .. BootBase + size - 1

\* Whatever the words of an image are, its application enters and is interrupted
\* in its own slot only, and the stack of one that uses the tables is below them
\* (app_validation.c:20-31 and boot_runtime.c:87-93 each look at a part).
RunsInItsSlot ==
  Started =>
    /\ PointsInto(cpu.reset, IF IsRelocatable(BootImage) THEN BootImage.size ELSE SlotSize)
    /\ cpu.sp % 8 = 0
    /\ cpu.sp \in RamStart .. (IF IsRelocatable(BootImage) THEN GotAddr ELSE RamEnd)
    /\ IsRelocatable(BootImage) =>
         \A n \in 1 .. BootImage.vector_words - 1 :
           \/ ram[VectorAt(n)] = 0
           \/ PointsInto(ram[VectorAt(n)], BootImage.size)

\* The handoff an application finds is the one of this boot, although it was
\* written before the tables next to it: the application never hangs for want of
\* one, copies its data from its own image and knows its slot, its state and its
\* attempt (main.c:305, pic_startup.s:14, runtime.c:46).
AppKnowsItself ==
  /\ pc # "hang"
  /\ pc \in {"main", "app", "leaving"} => data_from = BootBase + BootImage.data_load_offset
  /\ pc \in {"app", "leaving"} => boot_info = OwnHandoff

\* What relocation can do at all with an image: the tables fit where they are
\* and where they go, and every vector is unused or a handler of the image.
IsMovable ==
  /\ 4 * BootImage.vector_words <= BootImage.size
  /\ BootImage.got_offset % 4 = 0 /\ BootImage.got_size % 4 = 0
  /\ BootImage.got_offset + BootImage.got_size <= BootImage.size
  /\ BootImage.got_size <= 4 * GotWords
  /\ \A n \in 1 .. BootImage.vector_words - 1 :
       \/ IsUnused(Stored(BootImage, n))
       \/ Stored(BootImage, n) % 2 = 1 /\ Stored(BootImage, n) <= BootImage.size

\* Relocation refuses what cannot be moved and nothing else, so that its outcome
\* is a matter of the image alone: in Device it is a constant set of images.
OutcomeIsTheImages ==
  [][Relocating => /\ pc' = "update" => ~IsMovable
                   /\ pc' = "startup" => IsMovable]_vars

=============================================================================
