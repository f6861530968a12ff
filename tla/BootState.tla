------------------------------ MODULE BootState ------------------------------
(***************************************************************************)
(* The persistent boot-state record and the pure operations on it:         *)
(* shared/boot/boot_state.c and bootloader/src/boot_policy.c, with the      *)
(* choice boot_state_store.c makes between its two copies.                 *)
(*                                                                         *)
(* An image identity, the pair (software version, image CRC32) the record  *)
(* keeps, is one member of Images; the zero words are NoImage.  The magic, *)
(* the sizes and the record CRC are abstracted to a flash copy either      *)
(* holding a record of BootRecord or being NoRecord.                       *)
(*                                                                         *)
(* The operators named Faulty..., here and in the other modules, are bugs   *)
(* the code could have had: put in the place of the operator that follows, *)
(* each one makes some property fail, which shows that it checks something. *)
(***************************************************************************)
EXTENDS Naturals

CONSTANTS
  Images,             \* identities of the application images that exist
  NoImage,            \* the zero version and CRC words
  NoRecord,           \* a flash copy boot_state_validate refuses
  GenerationModulus   \* 2^32 in the code: generation is a uint32_t

ASSUME ImageAssumption == NoImage \notin Images

ASSUME ModulusAssumption ==
  GenerationModulus \in Nat /\ GenerationModulus > 1 /\ GenerationModulus % 2 = 0

Slots == {"A", "B"}
NoSlot == "none"
SlotStatus == {"EMPTY", "VALID", "PENDING", "CONFIRMED", "BAD"}
MaxPendingAttempts == 3

BootRecord ==
  [ generation       : Nat,
    active_slot      : Slots,
    pending_slot     : Slots \cup {NoSlot},
    pending_attempts : 0 .. MaxPendingAttempts,
    slot_status      : [Slots -> SlotStatus],
    confirmed_image  : Images \cup {NoImage},
    pending_image    : Images \cup {NoImage} ]

ASSUME NoRecordAssumption == NoRecord \notin BootRecord

-----------------------------------------------------------------------------
(* boot_state.c *)

\* generation++ on a uint32_t.
NextGeneration(g) == IF g + 1 = GenerationModulus THEN 0 ELSE g + 1

InitDefault ==
  [ generation       |-> 0,
    active_slot      |-> "A",
    pending_slot     |-> NoSlot,
    pending_attempts |-> 0,
    slot_status      |-> [s \in Slots |-> "EMPTY"],
    confirmed_image  |-> NoImage,
    pending_image    |-> NoImage ]

\* The confirmed-a and confirmed-b records that tools/boot_state_image.py makes
\* for the first flashing of a board; the image identity is left at zero.
FactoryRecord(slot) ==
  [ generation       |-> 0,
    active_slot      |-> slot,
    pending_slot     |-> NoSlot,
    pending_attempts |-> 0,
    slot_status      |-> [s \in Slots |-> IF s = slot THEN "CONFIRMED"
                                                      ELSE "EMPTY"],
    confirmed_image  |-> NoImage,
    pending_image    |-> NoImage ]

\* The comparison the wrong way round.
FaultySelectLatest(first, second) ==
  IF first # NoRecord /\ (second # NoRecord => first.generation <= second.generation)
  THEN first ELSE second

\* The newer of two flash copies; NoRecord when neither is valid.
SelectLatest(first, second) ==
  IF /\ first # NoRecord
     /\ second # NoRecord => first.generation >= second.generation
  THEN first
  ELSE second

OtherSlot(slot) == IF slot = "B" THEN "A" ELSE "B"

HasPending(state) == state.pending_slot # NoSlot

\* boot_state_confirm_pending; the callers leave the record alone when
\* nothing is pending.
ConfirmPending(state) ==
  LET slot == state.pending_slot IN
  [ generation       |-> NextGeneration(state.generation),
    active_slot      |-> slot,
    pending_slot     |-> NoSlot,
    pending_attempts |-> 0,
    slot_status      |-> [s \in Slots |-> IF s = slot THEN "CONFIRMED"
                                                      ELSE "VALID"],
    confirmed_image  |-> state.pending_image,
    pending_image    |-> NoImage ]

-----------------------------------------------------------------------------
(* boot_policy.c *)

\* The slot is marked, but it still counts as pending.
FaultyMarkPendingBad(state) ==
  IF HasPending(state)
  THEN [state EXCEPT !.slot_status = [@ EXCEPT ![state.pending_slot] = "BAD"],
                     !.pending_attempts = 0,
                     !.generation = NextGeneration(@)]
  ELSE state

\* The pending words of the record are left in place.
MarkPendingBad(state) ==
  IF HasPending(state)
  THEN [state EXCEPT !.slot_status = [@ EXCEPT ![state.pending_slot] = "BAD"],
                     !.pending_slot = NoSlot,
                     !.pending_attempts = 0,
                     !.generation = NextGeneration(@)]
  ELSE state

\* There is no look at the slot that was pending before, nor at its status.
MarkSlotPending(state, slot, image) ==
  [ generation       |-> NextGeneration(state.generation),
    active_slot      |-> state.active_slot,
    pending_slot     |-> slot,
    pending_attempts |-> 0,
    slot_status      |-> [state.slot_status EXCEPT ![slot] = "PENDING"],
    confirmed_image  |-> state.confirmed_image,
    pending_image    |-> image ]

PendingIsBootable(state) ==
  /\ HasPending(state)
  /\ state.slot_status[state.pending_slot] = "PENDING"

\* One attempt too many.
FaultyExhausted(state) == state.pending_attempts > MaxPendingAttempts

Exhausted(state) == state.pending_attempts >= MaxPendingAttempts

\* The attempt is not counted, and main sees no reason to save.
FaultyCountAttempt(state) == state

CountAttempt(state) ==
  [state EXCEPT !.pending_attempts = @ + 1, !.generation = NextGeneration(@)]

\* boot_policy_select_candidate: the record after the call and the slot to
\* boot.  The active slot is taken whatever its own status says.
SelectCandidate(state) ==
  LET after == IF PendingIsBootable(state) /\ Exhausted(state)
               THEN MarkPendingBad(state) ELSE state
  IN IF PendingIsBootable(after) /\ ~Exhausted(after)
     THEN [ state        |-> CountAttempt(after),
            slot         |-> after.pending_slot,
            boot_pending |-> TRUE ]
     ELSE [ state        |-> after,
            slot         |-> state.active_slot,
            boot_pending |-> FALSE ]

\* A confirmed slot is taken for one that may be erased.
FaultySlotIsRunnable(state, slot) == state.slot_status[slot] = "VALID"

SlotIsRunnable(state, slot) == state.slot_status[slot] \in {"VALID", "CONFIRMED"}

\* The pending slot is not looked at.
FaultyInactiveSlot(state) ==
  IF SlotIsRunnable(state, state.active_slot)
  THEN OtherSlot(state.active_slot) ELSE state.active_slot

\* boot_policy_inactive_slot: the slot BEGIN erases.  A pending slot counts as
\* the running one, even when it is the active slot that is confirmed.
InactiveSlot(state) ==
  IF HasPending(state) THEN OtherSlot(state.pending_slot)
  ELSE IF SlotIsRunnable(state, state.active_slot)
       THEN OtherSlot(state.active_slot)
       ELSE state.active_slot

-----------------------------------------------------------------------------
(* boot_state_store.c: what the two copies in flash, 0 and 1, come to. *)

\* Every record goes to the same copy.
FaultyCopyFor(rec) == 0

\* save_next's choice of BOOT_STATE_COPY_A_ADDR or BOOT_STATE_COPY_B_ADDR.
CopyFor(rec) == rec.generation % 2

\* boot_state_store_load, of this content of the flash.
LoadFrom(flash) ==
  LET latest == SelectLatest(flash[0], flash[1])
  IN IF latest = NoRecord THEN InitDefault ELSE latest

=============================================================================
