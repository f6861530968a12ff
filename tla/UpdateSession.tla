---------------------------- MODULE UpdateSession ----------------------------
(***************************************************************************)
(* One stay in the bootloader's update mode, command by command:           *)
(* bootloader/src/update_session.c over the slot driver of boot_flash_*.c. *)
(*                                                                         *)
(* The host may send any command in any order: what a confused, restarted  *)
(* or duplicating host sends is among it.  A command the code refuses      *)
(* changes nothing and is not an action; a session id only decides whether *)
(* it is refused, so it is left out.  Sizes and offsets count units of half *)
(* a flash word.  A slot is a function from its units to their content, an *)
(* image a sequence of values; no image is a prefix of another, as each    *)
(* one's manifest states its size.  The boot-state record is saved in one  *)
(* step, which is what StoreImplementsDurableRecord allows.                *)
(***************************************************************************)
EXTENDS BootState, Sequences

CONSTANTS
  Values,             \* what a programmed unit can hold
  Blank,              \* a unit erased, or padded with 0xFF at the end of a block
  Garbled,            \* a unit programmed twice, with different values
  SlotUnits,          \* APP_SLOT_SIZE
  PageUnits,          \* what one erase covers: a page, or the whole slot
  MaxBlock,           \* bound: the longest BLOCK, UPDATE_PROTOCOL_MAX_PAYLOAD
  BadVectors,         \* images whose vectors are refused
  EraseErrors,        \* may the controller fail an erase
  WriteErrors,        \* may it fail a write
  Records,            \* the records a stay in update mode starts from
  LastActivation      \* bound: no ACTIVATE once the generation is past it

WordUnits == 2

ASSUME SessionAssumption ==
  /\ SlotUnits \in Nat /\ PageUnits \in Nat \ {0} /\ SlotUnits % PageUnits = 0
  /\ MaxBlock \in Nat \ {0}
  /\ {Blank, Garbled} \cap Values = {} /\ Blank # Garbled
  /\ BadVectors \subseteq Images
  /\ Images \subseteq Seq(Values) \ {<<>>}
  /\ \A i, j \in Images : Len(i) < Len(j) => i # SubSeq(j, 1, Len(i))
  /\ {EraseErrors, WriteErrors} \subseteq BOOLEAN
  /\ Records \subseteq BootRecord
  /\ \A r \in Records : ~HasPending(r)
  /\ LastActivation \in Nat

VARIABLES
  flash,              \* the content of the two slots, unit by unit
  record,             \* the boot-state record the store holds
  session,            \* boot_update_session_t
  spoiled             \* history: the slots a BEGIN that failed has touched since
                      \* a BEGIN last succeeded on them

vars == <<flash, record, session, spoiled>>

Units == 0 .. SlotUnits - 1

\* boot_update_session_init.
NoSession ==
  [ session_active |-> FALSE, target_slot |-> "B",
    expected_image_size |-> 0, expected_image |-> NoImage,
    received_image_size |-> 0, transfer_complete |-> FALSE,
    candidate_valid |-> FALSE, candidate |-> NoImage, reset_requested |-> FALSE ]

-----------------------------------------------------------------------------
(* The slot driver. *)

RoundUp(size) == ((size + PageUnits - 1) \div PageUnits) * PageUnits

\* The slot after an erase that got as far as the given number of units.
Erased(slot, units) ==
  [flash EXCEPT ![slot] = [u \in Units |-> IF u < units THEN Blank ELSE @[u]]]

\* Programming over what is not blank keeps the value only when it is the same.
Overlay(old, new) == IF old \in {Blank, new} THEN new ELSE Garbled

\* The slot after a write of the first units of data at the offset.
Written(slot, offset, data, units) ==
  [flash EXCEPT ![slot] =
     [u \in Units |-> IF u \in offset .. offset + units - 1
                      THEN Overlay(@[u], data[u - offset + 1])
                      ELSE @[u]]]

Pages(size) == {n \in 0 .. RoundUp(size) : n % PageUnits = 0}
Words(data) == {n \in 0 .. Len(data) : n % WordUnits = 0}

\* app_image_validate finds this image at the base of the slot.
Holds(slot, image) ==
  /\ Len(image) <= SlotUnits
  /\ \A u \in 1 .. Len(image) : flash[slot][u - 1] = image[u]

-----------------------------------------------------------------------------
(* The commands. *)

BeginTarget == InactiveSlot(record)

\* The sizes BEGIN may announce.
Sizes == {Len(i) : i \in Images} \cup {0, SlotUnits + 1}

\* Off by one.
FaultySizeFits(size) == size > 0 /\ size <= SlotUnits + 1

SizeFits(size) == size > 0 /\ size <= SlotUnits

Begin ==
  \E size \in Sizes, image \in Images :
    /\ SizeFits(size)
    /\ flash' = Erased(BeginTarget, RoundUp(size))
    /\ session' = [NoSession EXCEPT !.session_active = TRUE,
                                    !.target_slot = BeginTarget,
                                    !.expected_image_size = size,
                                    !.expected_image = image,
                                    !.reset_requested = session.reset_requested]
    /\ spoiled' = spoiled \ {BeginTarget}
    /\ UNCHANGED record

\* A page fails: what the session was before BEGIN, it still is.
BeginFails ==
  /\ EraseErrors
  /\ \E size \in {z \in Sizes : SizeFits(z)} : \E n \in Pages(size) :
       flash' = Erased(BeginTarget, n)
  /\ spoiled' = spoiled \cup {BeginTarget}
  /\ UNCHANGED <<record, session>>

\* What a BLOCK can carry: a piece of an image, not always of the one announced.
Blocks(offset) ==
  UNION {{SubSeq(i, offset + 1, last) : last \in offset + 1 .. Len(i)} : i \in Images}

\* A block of an earlier offset is written again rather than compared.
FaultyIsNext(offset, data) ==
  /\ Len(data) \in 1 .. MaxBlock
  /\ Len(data) <= session.expected_image_size - offset
  /\ offset <= session.received_image_size

\* Within the image, and the next contiguous offset: what lies before it is
\* compared with the slot and changes nothing, whatever the answer.
IsNext(offset, data) ==
  /\ Len(data) \in 1 .. MaxBlock
  /\ Len(data) <= session.expected_image_size - offset
  /\ offset = session.received_image_size

\* The driver refuses to write within a word.
Aligned(offset) == offset % WordUnits = 0

Block ==
  /\ session.session_active
  /\ \E offset \in 0 .. session.expected_image_size : \E data \in Blocks(offset) :
       /\ IsNext(offset, data) /\ Aligned(offset)
       /\ flash' = Written(session.target_slot, offset, data, Len(data))
       /\ session' = [session EXCEPT !.received_image_size = offset + Len(data)]
  /\ UNCHANGED <<record, spoiled>>

\* Some words are programmed, the block does not count as received.
BlockFails ==
  /\ WriteErrors /\ session.session_active
  /\ \E offset \in 0 .. session.expected_image_size : \E data \in Blocks(offset) :
       /\ IsNext(offset, data) /\ Aligned(offset)
       /\ \E n \in Words(data) :
            flash' = Written(session.target_slot, offset, data, n)
  /\ UNCHANGED <<record, session, spoiled>>

End ==
  /\ session.session_active
  /\ session.received_image_size = session.expected_image_size
  /\ session' = [session EXCEPT !.transfer_complete = TRUE]
  /\ UNCHANGED <<flash, record, spoiled>>

\* The image found in the slot is the one BEGIN announced.
Acceptable(image) ==
  /\ Holds(session.target_slot, image)
  /\ Len(image) = session.expected_image_size
  /\ image = session.expected_image
  /\ image \notin BadVectors

\* A refusal leaves an earlier verdict as it is.
Validate ==
  /\ session.session_active /\ session.transfer_complete
  /\ \E image \in Images :
       /\ Acceptable(image)
       /\ session' = [session EXCEPT !.candidate_valid = TRUE, !.candidate = image]
  /\ UNCHANGED <<flash, record, spoiled>>

Activate ==
  /\ session.session_active /\ session.candidate_valid
  /\ record.generation <= LastActivation
  /\ record' = MarkSlotPending(record, session.target_slot, session.candidate)
  /\ session' = [session EXCEPT !.reset_requested = TRUE]
  /\ UNCHANGED <<flash, spoiled>>

\* The save failed, or it was not reported that it succeeded.
ActivateFails ==
  /\ WriteErrors
  /\ session.session_active /\ session.candidate_valid
  /\ record.generation <= LastActivation
  /\ record' \in {record, MarkSlotPending(record, session.target_slot, session.candidate)}
  /\ UNCHANGED <<flash, session, spoiled>>

Abort ==
  /\ session.session_active
  /\ session' = NoSession
  /\ UNCHANGED <<flash, record, spoiled>>

-----------------------------------------------------------------------------
(* The end of the stay. *)

\* Power fails in the middle of an erase or of a write, or between commands.
Interrupted ==
  \/ flash' = flash
  \/ \E size \in {z \in Sizes : SizeFits(z)} : \E n \in Pages(size) :
       flash' = Erased(BeginTarget, n)
  \/ /\ session.session_active
     /\ \E offset \in 0 .. session.expected_image_size : \E data \in Blocks(offset) :
          /\ IsNext(offset, data) /\ Aligned(offset)
          /\ \E n \in Words(data) :
               flash' = Written(session.target_slot, offset, data, n)

PowerLoss ==
  /\ Interrupted
  /\ session' = NoSession
  /\ UNCHANGED <<record, spoiled>>

\* The device boots, by reset_requested or later, and comes back to update
\* mode: the bootloader's policy and the application have seen the record.
BootAndReturn ==
  /\ record' \in {SelectCandidate(record).state, MarkPendingBad(record)}
                 \cup (IF HasPending(record) THEN {ConfirmPending(record)} ELSE {})
  /\ session' = NoSession
  /\ UNCHANGED <<flash, spoiled>>

Init ==
  /\ flash \in [Slots -> {[u \in Units |-> IF u < Len(i) THEN i[u + 1] ELSE Blank] :
                            i \in {j \in Images \ BadVectors : Len(j) <= SlotUnits}
                                  \cup {<<>>}}]
  /\ record \in Records
  /\ session = NoSession
  /\ spoiled = {}

Next ==
  \/ Begin \/ BeginFails \/ Block \/ BlockFails \/ End \/ Validate
  \/ Activate \/ ActivateFails \/ Abort \/ PowerLoss \/ BootAndReturn

Spec == Init /\ [][Next]_vars

-----------------------------------------------------------------------------
(* Properties. *)

TypeOK ==
  /\ flash \in [Slots -> [Units -> Values \cup {Blank, Garbled}]]
  /\ record \in BootRecord
  /\ spoiled \subseteq Slots
  /\ session \in
       [ session_active : BOOLEAN, target_slot : Slots,
         expected_image_size : 0 .. SlotUnits, expected_image : Images \cup {NoImage},
         received_image_size : 0 .. SlotUnits, transfer_complete : BOOLEAN,
         candidate_valid : BOOLEAN, candidate : Images \cup {NoImage},
         reset_requested : BOOLEAN ]

\* What the order of the commands comes down to: until VALIDATE accepts, the
\* session still writes the slot that BEGIN would choose now, and afterwards
\* nothing is left to write, so that neither the slot of the verdict nor the
\* pending one changes but by a BEGIN that fails (update_session.c:70-160).
SessionInv ==
  /\ TypeOK
  /\ session.received_image_size <= session.expected_image_size
  /\ session.transfer_complete => session.received_image_size = session.expected_image_size
  /\ session.candidate_valid => session.transfer_complete /\ session.candidate \in Images
  /\ session.session_active /\ ~session.candidate_valid => session.target_slot = BeginTarget
  /\ session.candidate_valid /\ session.target_slot \notin spoiled =>
       /\ session.candidate = session.expected_image
       /\ Holds(session.target_slot, session.candidate)
  /\ HasPending(record) /\ record.pending_slot \notin spoiled =>
       Holds(record.pending_slot, record.pending_image)

\* As long as VALIDATE's verdict stands, the target slot holds the announced
\* image, whatever commands came in between: nothing is written behind it.
\* Only a BEGIN that fails spoils a slot that way.
CandidateIsAnnounced ==
  session.candidate_valid /\ session.target_slot \notin spoiled =>
    /\ session.candidate = session.expected_image
    /\ Holds(session.target_slot, session.candidate)

\* An image that awaits its first start or its confirmation is in its slot,
\* complete and validated: neither a new session, a late command of the old
\* one nor a power loss changes it.  Only a BEGIN that fails can.
PendingIsWhole ==
  HasPending(record) /\ record.pending_slot \notin spoiled =>
    Holds(record.pending_slot, record.pending_image)

\* While nothing is pending, no command, and no error or power loss in the
\* middle of one, changes the confirmed slot the device falls back to.
ConfirmedSlotUntouched ==
  [][record.slot_status[record.active_slot] = "CONFIRMED" /\ ~HasPending(record)
       => flash'[record.active_slot] = flash[record.active_slot]]_vars

=============================================================================
