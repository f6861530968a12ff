------------------------- MODULE UpdateSession_proofs -------------------------
(***************************************************************************)
(* What the order of the commands guarantees, for all images, slot and page  *)
(* sizes and first records: the slot of a standing verdict, the pending slot *)
(* and the confirmed slot are not written.  All of it comes from one fact:   *)
(* no step writes to any slot but the one BEGIN would choose now.            *)
(***************************************************************************)
EXTENDS UpdateSession, BootState_proofs, SequenceTheorems

Contents == Values \cup {Blank, Garbled}
SlotsType == [Slots -> [Units -> Contents]]

-----------------------------------------------------------------------------
(* The record. *)

\* BEGIN chooses a slot, and never the pending one.
LEMMA BeginTargetType ==
  ASSUME record \in BootRecord
  PROVE  /\ BeginTarget \in Slots
         /\ HasPending(record) => record.pending_slot # BeginTarget
  BY DEF BeginTarget, InactiveSlot, OtherSlot, BootRecord, Slots

\* While nothing is pending it is never a confirmed active slot either.
LEMMA BeginTargetIsNotConfirmed ==
  ASSUME record \in BootRecord, ~HasPending(record),
         record.slot_status[record.active_slot] = "CONFIRMED"
  PROVE  record.active_slot # BeginTarget
  BY DEF BeginTarget, InactiveSlot, OtherSlot, SlotIsRunnable, BootRecord, Slots

\* A boot or a confirmation makes no slot pending: one that still is was so
\* before, with the same image.
LEMMA BootKeepsPending ==
  ASSUME NEW r \in BootRecord,
         NEW after \in {SelectCandidate(r).state, MarkPendingBad(r)}
                       \cup (IF HasPending(r) THEN {ConfirmPending(r)} ELSE {})
  PROVE  /\ after \in BootRecord
         /\ HasPending(after) => /\ HasPending(r)
                                 /\ after.pending_slot = r.pending_slot
                                 /\ after.pending_image = r.pending_image
  <1>1. CASE after = MarkPendingBad(r)
    BY <1>1, MarkPendingBadType
  <1>2. CASE HasPending(r) /\ after = ConfirmPending(r)
    BY <1>2, ConfirmPendingType DEF ConfirmPending, HasPending
  <1>3. CASE after = SelectCandidate(r).state
    <2>1. after \in BootRecord
      BY <1>3, SelectCandidateType
    <2> DEFINE marked == IF PendingIsBootable(r) /\ Exhausted(r)
                         THEN MarkPendingBad(r) ELSE r
    <2>2. marked = r \/ ~HasPending(marked)
      BY MarkPendingBadType
    <2>3. CASE PendingIsBootable(marked) /\ ~Exhausted(marked)
      <3>1. marked = r
        BY <2>2, <2>3 DEF PendingIsBootable
      <3>2. after = CountAttempt(r)
        BY <1>3, <2>3, <3>1 DEF SelectCandidate
      <3>3. after.pending_slot = r.pending_slot /\ after.pending_image = r.pending_image
        BY <3>2 DEF CountAttempt, BootRecord
      <3> QED BY <2>1, <3>3 DEF HasPending
    <2>4. CASE ~(PendingIsBootable(marked) /\ ~Exhausted(marked))
      <3>1. after = marked
        BY <1>3, <2>4 DEF SelectCandidate
      <3> QED BY <2>1, <2>2, <3>1
    <2> QED BY <2>3, <2>4
  <1> QED BY <1>1, <1>2, <1>3

-----------------------------------------------------------------------------
(* The slots. *)

\* An erase, however far it gets, leaves slots, and the other one alone.
LEMMA ErasedType ==
  ASSUME flash \in SlotsType, NEW slot \in Slots, NEW units
  PROVE  /\ Erased(slot, units) \in SlotsType
         /\ \A s \in Slots \ {slot} : Erased(slot, units)[s] = flash[s]
  <1> DEFINE new == [u \in Units |-> IF u < units THEN Blank ELSE flash[slot][u]]
  <1>1. new \in [Units -> Contents]
    BY DEF SlotsType, Contents
  <1>2. Erased(slot, units) = [flash EXCEPT ![slot] = new]
    BY DEF Erased, SlotsType
  <1> HIDE DEF new
  <1> QED BY <1>1, <1>2 DEF SlotsType

\* So does a write, however many of its words are programmed.
LEMMA WrittenType ==
  ASSUME flash \in SlotsType, NEW slot \in Slots, NEW offset \in Nat,
         NEW data \in Seq(Values), NEW n \in 0 .. Len(data)
  PROVE  /\ Written(slot, offset, data, n) \in SlotsType
         /\ \A s \in Slots \ {slot} : Written(slot, offset, data, n)[s] = flash[s]
  <1> DEFINE new == [u \in Units |-> IF u \in offset .. offset + n - 1
                                     THEN Overlay(flash[slot][u], data[u - offset + 1])
                                     ELSE flash[slot][u]]
  <1>1. ASSUME NEW u \in Units
        PROVE  (IF u \in offset .. offset + n - 1
                THEN Overlay(flash[slot][u], data[u - offset + 1])
                ELSE flash[slot][u]) \in Contents
    <2>1. flash[slot][u] \in Contents
      BY <1>1 DEF SlotsType
    <2>2. CASE u \in offset .. offset + n - 1
      <3>1. u - offset + 1 \in 1 .. Len(data)
        BY <2>2
      <3>2. data[u - offset + 1] \in Values
        BY <3>1
      <3> QED BY <2>2, <3>2 DEF Overlay, Contents
    <2> QED BY <2>1, <2>2
  <1>2. new \in [Units -> Contents]
    BY <1>1
  <1>3. Written(slot, offset, data, n) = [flash EXCEPT ![slot] = new]
    BY DEF Written, SlotsType
  <1> HIDE DEF new
  <1> QED BY <1>2, <1>3 DEF SlotsType

\* What a BLOCK can carry is a sequence of values.
LEMMA BlocksType ==
  ASSUME NEW offset \in Nat, NEW data \in Blocks(offset)
  PROVE  data \in Seq(Values)
  <1>1. PICK i \in Images : \E last \in offset + 1 .. Len(i) : data = SubSeq(i, offset + 1, last)
    BY DEF Blocks
  <1>2. PICK last \in offset + 1 .. Len(i) : data = SubSeq(i, offset + 1, last)
    BY <1>1
  <1>3. i \in Seq(Values)
    BY SessionAssumption
  <1> QED BY <1>2, <1>3, SubSeqProperties

\* The slot of a still unfinished transfer is the one BEGIN would choose, and a
\* block that is next is for an unfinished transfer.
LEMMA NextBlockIsForBeginTarget ==
  ASSUME SessionInv, session.session_active,
         NEW offset \in 0 .. session.expected_image_size,
         NEW data \in Seq(Values), IsNext(offset, data)
  PROVE  /\ session.target_slot = BeginTarget
         /\ ~session.transfer_complete /\ ~session.candidate_valid
         /\ offset + Len(data) \in 0 .. session.expected_image_size
  <1>1. session.expected_image_size \in Nat /\ session.received_image_size \in Nat
    BY SessionAssumption DEF SessionInv, TypeOK
  <1>2. Len(data) \in Nat /\ offset \in Nat
    BY <1>1
  <1>3. /\ Len(data) >= 1 /\ offset = session.received_image_size
        /\ Len(data) <= session.expected_image_size - offset
    BY <1>2 DEF IsNext
  <1>4. session.received_image_size # session.expected_image_size
    BY <1>1, <1>2, <1>3
  <1>5. ~session.transfer_complete /\ ~session.candidate_valid
    BY <1>4 DEF SessionInv
  <1>6. offset + Len(data) \in 0 .. session.expected_image_size
    BY <1>1, <1>2, <1>3
  <1> QED BY <1>5, <1>6 DEF SessionInv

-----------------------------------------------------------------------------
(* The invariant. *)

\* A session that is not there has the type of one.
LEMMA NoSessionType ==
  /\ ~NoSession.session_active /\ ~NoSession.transfer_complete /\ ~NoSession.candidate_valid
  /\ NoSession.received_image_size = 0 /\ NoSession.expected_image_size = 0
  /\ SlotUnits \in Nat
  /\ NoSession \in
       [ session_active : BOOLEAN, target_slot : Slots,
         expected_image_size : 0 .. SlotUnits, expected_image : Images \cup {NoImage},
         received_image_size : 0 .. SlotUnits, transfer_complete : BOOLEAN,
         candidate_valid : BOOLEAN, candidate : Images \cup {NoImage},
         reset_requested : BOOLEAN ]
  BY SessionAssumption DEF NoSession, Slots

\* The first slots hold sound images or nothing.
LEMMA InitInv == Init => SessionInv
  <1> SUFFICES ASSUME Init PROVE SessionInv
    OBVIOUS
  <1>1. flash \in SlotsType
    <2> DEFINE Filled(i) == [u \in Units |-> IF u < Len(i) THEN i[u + 1] ELSE Blank]
    <2>1. ASSUME NEW i \in Seq(Values)
          PROVE  Filled(i) \in [Units -> Contents]
      <3>1. ASSUME NEW u \in Units, u < Len(i)
            PROVE  i[u + 1] \in Values
        BY <3>1 DEF Units
      <3> QED BY <3>1 DEF Contents
    <2>2. {j \in Images \ BadVectors : Len(j) <= SlotUnits} \cup {<<>>} \subseteq Seq(Values)
      <3>1. Images \subseteq Seq(Values)
        BY SessionAssumption
      <3>2. <<>> \in Seq(Values)
        OBVIOUS
      <3> QED BY <3>1, <3>2
    <2>3. ASSUME NEW s \in Slots
          PROVE  flash[s] \in [Units -> Contents]
      <3>1. flash[s] \in {Filled(i) : i \in {j \in Images \ BadVectors : Len(j) <= SlotUnits}
                                            \cup {<<>>}}
        BY DEF Init
      <3> HIDE DEF Filled
      <3> QED BY <2>1, <2>2, <3>1
    <2> QED BY <2>3 DEF Init, SlotsType
  <1>2. record \in BootRecord /\ ~HasPending(record)
    BY SessionAssumption DEF Init
  <1> QED
    BY <1>1, <1>2, NoSessionType DEF Init, SessionInv, TypeOK, SlotsType, Contents

\* No step writes to a slot that BEGIN would not choose now, and the slots stay
\* slots.
LEMMA OnlyBeginTargetIsWritten ==
  ASSUME SessionInv, Next
  PROVE  /\ flash' \in SlotsType
         /\ \A s \in Slots \ {BeginTarget} : flash'[s] = flash[s]
  <1> USE DEF SlotsType
  <1>1. flash \in SlotsType /\ record \in BootRecord /\ SlotUnits \in Nat
    BY SessionAssumption DEF SessionInv, TypeOK, Contents
  <1>2. BeginTarget \in Slots
    BY <1>1, BeginTargetType
  <1>3. ASSUME NEW units, flash' = Erased(BeginTarget, units)
        PROVE  /\ flash' \in SlotsType
               /\ \A s \in Slots \ {BeginTarget} : flash'[s] = flash[s]
    BY <1>1, <1>2, <1>3, ErasedType
  <1>4. ASSUME session.session_active,
               NEW offset \in 0 .. session.expected_image_size,
               NEW data \in Blocks(offset), IsNext(offset, data),
               NEW n \in 0 .. Len(data),
               flash' = Written(session.target_slot, offset, data, n)
        PROVE  /\ flash' \in SlotsType
               /\ \A s \in Slots \ {BeginTarget} : flash'[s] = flash[s]
    <2>1. offset \in Nat /\ session.expected_image_size \in Nat
      BY <1>1 DEF SessionInv, TypeOK
    <2>2. data \in Seq(Values)
      BY <2>1, BlocksType
    <2>3. session.target_slot = BeginTarget
      BY <1>4, <2>2, NextBlockIsForBeginTarget
    <2>4. flash' = Written(BeginTarget, offset, data, n)
      BY <1>4, <2>3
    <2> HIDE DEF SlotsType
    <2> QED BY <1>1, <1>2, <2>1, <2>2, <2>4, WrittenType
  <1>5. CASE flash' = flash
    BY <1>1, <1>5
  <1>6. CASE Begin
    BY <1>3, <1>6 DEF Begin
  <1>7. CASE BeginFails
    BY <1>3, <1>7 DEF BeginFails
  <1>8. CASE Block
    <2>1. PICK offset \in 0 .. session.expected_image_size : \E data \in Blocks(offset) :
            /\ session.session_active /\ IsNext(offset, data)
            /\ flash' = Written(session.target_slot, offset, data, Len(data))
      BY <1>8 DEF Block
    <2>2. PICK data \in Blocks(offset) :
            /\ session.session_active /\ IsNext(offset, data)
            /\ flash' = Written(session.target_slot, offset, data, Len(data))
      BY <2>1
    <2>3. offset \in Nat
      BY <1>1 DEF SessionInv, TypeOK
    <2>4. Len(data) \in 0 .. Len(data)
      BY <2>3, BlocksType
    <2> QED BY <1>4, <2>2, <2>4
  <1>9. ASSUME session.session_active,
               NEW offset \in 0 .. session.expected_image_size,
               NEW data \in Blocks(offset), IsNext(offset, data),
               NEW n \in Words(data),
               flash' = Written(session.target_slot, offset, data, n)
        PROVE  /\ flash' \in SlotsType
               /\ \A s \in Slots \ {BeginTarget} : flash'[s] = flash[s]
    <2>1. n \in 0 .. Len(data)
      BY <1>9 DEF Words
    <2> QED BY <1>4, <1>9, <2>1
  <1>10. CASE BlockFails
    BY <1>9, <1>10 DEF BlockFails
  <1>11. CASE PowerLoss
    <2>1. CASE \E size \in {z \in Sizes : SizeFits(z)} : \E n \in Pages(size) :
                 flash' = Erased(BeginTarget, n)
      BY <1>3, <2>1
    <2>2. CASE /\ session.session_active
               /\ \E offset \in 0 .. session.expected_image_size : \E data \in Blocks(offset) :
                    /\ IsNext(offset, data) /\ Aligned(offset)
                    /\ \E n \in Words(data) :
                         flash' = Written(session.target_slot, offset, data, n)
      BY <1>9, <2>2
    <2> QED BY <1>5, <1>11, <2>1, <2>2 DEF PowerLoss, Interrupted
  <1>12. CASE End \/ Validate \/ Activate \/ ActivateFails \/ Abort \/ BootAndReturn
    BY <1>5, <1>12 DEF End, Validate, Activate, ActivateFails, Abort, BootAndReturn
  <1> QED BY <1>6, <1>7, <1>8, <1>10, <1>11, <1>12 DEF Next

\* Every step keeps the invariant.
LEMMA NextInv == SessionInv /\ [Next]_vars => SessionInv'
  <1> SUFFICES ASSUME SessionInv, [Next]_vars PROVE SessionInv'
    OBVIOUS
  <1> DEFINE SessionType ==
       [ session_active : BOOLEAN, target_slot : Slots,
         expected_image_size : 0 .. SlotUnits, expected_image : Images \cup {NoImage},
         received_image_size : 0 .. SlotUnits, transfer_complete : BOOLEAN,
         candidate_valid : BOOLEAN, candidate : Images \cup {NoImage},
         reset_requested : BOOLEAN ]
  <1> DEFINE Order(z) ==
         /\ z.received_image_size <= z.expected_image_size
         /\ z.transfer_complete => z.received_image_size = z.expected_image_size
         /\ z.candidate_valid => z.transfer_complete /\ z.candidate \in Images
  <1> DEFINE Verdict ==
         session.candidate_valid /\ session.target_slot \notin spoiled =>
           /\ session.candidate = session.expected_image
           /\ Holds(session.target_slot, session.candidate)
  <1> DEFINE Target ==
         session.session_active /\ ~session.candidate_valid => session.target_slot = BeginTarget
  <1> DEFINE Pending ==
         HasPending(record) /\ record.pending_slot \notin spoiled =>
           Holds(record.pending_slot, record.pending_image)
  <1>1. /\ flash \in SlotsType /\ record \in BootRecord /\ spoiled \subseteq Slots
        /\ session \in SessionType /\ Order(session) /\ Target /\ Verdict /\ Pending
        /\ SlotUnits \in Nat /\ BeginTarget \in Slots
    BY SessionAssumption, BeginTargetType DEF SessionInv, TypeOK, SlotsType, Contents
  <1>2. ASSUME flash' \in SlotsType, record' \in BootRecord, spoiled' \subseteq Slots,
               session' \in SessionType, Order(session'), Target', Verdict', Pending'
        PROVE  SessionInv'
    BY <1>2 DEF SessionInv, TypeOK, SlotsType, Contents
  <1> HIDE DEF SessionType, Order, Target, Verdict, Pending
  <1>3. CASE UNCHANGED vars
    BY <1>1, <1>2, <1>3
       DEF vars, Target, Verdict, Pending, BeginTarget, Holds
  <1>4. ASSUME Next PROVE flash' \in SlotsType
    BY <1>4, OnlyBeginTargetIsWritten
  \* Nothing happened to the record, and no slot became whole again.
  <1>5. ASSUME Next, UNCHANGED record, spoiled \ {BeginTarget} \subseteq spoiled'
        PROVE  Pending' /\ BeginTarget' = BeginTarget
    <2>1. BeginTarget' = BeginTarget
      BY <1>5 DEF BeginTarget
    <2>2. ASSUME HasPending(record), record.pending_slot \notin spoiled'
          PROVE  Holds(record.pending_slot, record.pending_image)'
      <3>1. HasPending(record) /\ record.pending_slot # BeginTarget
        BY <1>1, <1>5, <2>2, BeginTargetType
      <3>2. record.pending_slot \notin spoiled
        BY <1>5, <2>2, <3>1
      <3>3. /\ record.pending_slot \in Slots \ {BeginTarget}
            /\ Holds(record.pending_slot, record.pending_image)
        BY <1>1, <3>1, <3>2 DEF Pending, HasPending, BootRecord
      <3>4. flash'[record.pending_slot] = flash[record.pending_slot]
        BY <1>5, <3>3, OnlyBeginTargetIsWritten
      <3> QED BY <1>5, <3>3, <3>4 DEF Holds
    <2> QED BY <1>5, <2>1, <2>2 DEF Pending, HasPending
  <1>6. CASE Begin
    <2>1. PICK size \in Sizes, image \in Images :
            /\ SizeFits(size)
            /\ session' = [NoSession EXCEPT !.session_active = TRUE,
                                            !.target_slot = BeginTarget,
                                            !.expected_image_size = size,
                                            !.expected_image = image,
                                            !.reset_requested = session.reset_requested]
            /\ spoiled' = spoiled \ {BeginTarget} /\ UNCHANGED record
      BY <1>6 DEF Begin
    <2>2. size \in 0 .. SlotUnits
      <3>1. size \in Nat
        BY <1>1, SessionAssumption DEF Sizes
      <3> QED BY <1>1, <2>1, <3>1 DEF SizeFits
    <2>3. Next
      BY <1>6 DEF Next
    <2>4. Pending' /\ BeginTarget' = BeginTarget
      BY <1>5, <2>1, <2>3
    <2>5. /\ session' \in SessionType
          /\ session'.target_slot = BeginTarget
          /\ ~session'.candidate_valid /\ ~session'.transfer_complete
          /\ session'.received_image_size = 0 /\ session'.expected_image_size = size
      BY <1>1, <2>1, <2>2, NoSessionType DEF SessionType, NoSession
    <2>6. Order(session') /\ Target' /\ Verdict'
      BY <2>2, <2>4, <2>5 DEF Order, Target, Verdict
    <2> QED BY <1>1, <1>2, <1>4, <2>1, <2>3, <2>4, <2>5, <2>6
  <1>7. CASE BeginFails
    <2>1. spoiled' = spoiled \cup {BeginTarget} /\ UNCHANGED <<record, session>> /\ Next
      BY <1>7 DEF BeginFails, Next
    <2>2. Pending' /\ BeginTarget' = BeginTarget
      BY <1>5, <2>1
    <2>3. Verdict'
      <3>1. ASSUME session.candidate_valid, session.target_slot \notin spoiled'
            PROVE  /\ session.candidate = session.expected_image
                   /\ Holds(session.target_slot, session.candidate)'
        <4>1. /\ session.target_slot \in Slots \ {BeginTarget}
              /\ session.candidate \in Images \cup {NoImage}
          BY <1>1, <2>1, <3>1 DEF SessionType
        <4>2. /\ session.candidate = session.expected_image
              /\ Holds(session.target_slot, session.candidate)
          BY <1>1, <2>1, <3>1 DEF Verdict
        <4>3. Holds(session.target_slot, session.candidate)'
          <5>1. flash'[session.target_slot] = flash[session.target_slot]
            BY <2>1, <4>1, OnlyBeginTargetIsWritten
          <5> QED BY <2>1, <4>2, <5>1 DEF Holds
        <4> QED BY <4>2, <4>3
      <3> QED BY <2>1, <3>1 DEF Verdict
    <2> QED BY <1>1, <1>2, <1>4, <2>1, <2>2, <2>3 DEF Target
  <1>8. CASE Block
    <2>1. PICK offset \in 0 .. session.expected_image_size : \E data \in Blocks(offset) :
            /\ session.session_active /\ IsNext(offset, data)
            /\ session' = [session EXCEPT !.received_image_size = offset + Len(data)]
            /\ UNCHANGED <<record, spoiled>>
      BY <1>8 DEF Block
    <2>2. PICK data \in Blocks(offset) :
            /\ session.session_active /\ IsNext(offset, data)
            /\ session' = [session EXCEPT !.received_image_size = offset + Len(data)]
            /\ UNCHANGED <<record, spoiled>>
      BY <2>1
    <2>3. session.expected_image_size \in 0 .. SlotUnits /\ offset \in Nat
      BY <1>1 DEF SessionType
    <2>4. data \in Seq(Values)
      BY <2>3, BlocksType
    <2>5. /\ session.target_slot = BeginTarget
          /\ ~session.transfer_complete /\ ~session.candidate_valid
          /\ offset + Len(data) \in 0 .. session.expected_image_size
      BY <2>2, <2>4, NextBlockIsForBeginTarget
    <2>6. offset + Len(data) \in 0 .. SlotUnits
      BY <1>1, <2>3, <2>5
    <2> DEFINE received == offset + Len(data)
    <2> HIDE DEF received
    <2>7. /\ session' \in SessionType
          /\ session'.received_image_size = received
          /\ session'.expected_image_size = session.expected_image_size
          /\ session'.target_slot = BeginTarget
          /\ ~session'.transfer_complete /\ ~session'.candidate_valid
      BY <1>1, <2>2, <2>5, <2>6 DEF SessionType, received
    <2>8. Next /\ spoiled \ {BeginTarget} \subseteq spoiled'
      BY <1>8, <2>2 DEF Next
    <2>9. Pending' /\ BeginTarget' = BeginTarget
      BY <1>5, <2>2, <2>8
    <2>10. Order(session') /\ Target' /\ Verdict'
      BY <2>3, <2>5, <2>7, <2>9 DEF Order, Target, Verdict, received
    <2> QED BY <1>1, <1>2, <1>4, <2>2, <2>7, <2>8, <2>9, <2>10
  <1>9. CASE BlockFails
    <2>1. PICK offset \in 0 .. session.expected_image_size : \E data \in Blocks(offset) :
            session.session_active /\ IsNext(offset, data)
      BY <1>9 DEF BlockFails
    <2>2. PICK data \in Blocks(offset) : session.session_active /\ IsNext(offset, data)
      BY <2>1
    <2>3. offset \in Nat
      BY <1>1 DEF SessionType
    <2>4. ~session.candidate_valid
      BY <2>2, <2>3, BlocksType, NextBlockIsForBeginTarget
    <2>5. UNCHANGED <<record, session, spoiled>> /\ Next
      BY <1>9 DEF BlockFails, Next
    <2>6. Pending' /\ BeginTarget' = BeginTarget
      BY <1>5, <2>5
    <2> QED BY <1>1, <1>2, <1>4, <2>4, <2>5, <2>6 DEF Target, Verdict
  <1>10. CASE End
    <2>1. /\ session' = [session EXCEPT !.transfer_complete = TRUE]
          /\ session.received_image_size = session.expected_image_size
          /\ UNCHANGED <<flash, record, spoiled>> /\ Next
      BY <1>10 DEF End, Next
    <2>2. /\ session' \in SessionType /\ Order(session')
      BY <1>1, <2>1 DEF SessionType, Order
    <2>3. Target' /\ Verdict' /\ Pending'
      BY <1>1, <2>1 DEF Target, Verdict, Pending, SessionType, BeginTarget, Holds
    <2> QED BY <1>1, <1>2, <2>1, <2>2, <2>3
  <1>11. CASE Validate
    <2>1. PICK image \in Images :
            /\ session.session_active /\ session.transfer_complete
            /\ Acceptable(image)
            /\ session' = [session EXCEPT !.candidate_valid = TRUE, !.candidate = image]
            /\ UNCHANGED <<flash, record, spoiled>>
      BY <1>11 DEF Validate
    <2>2. /\ session' \in SessionType /\ Order(session')
          /\ session'.candidate_valid /\ session'.candidate = image
          /\ session'.expected_image = session.expected_image
          /\ session'.target_slot = session.target_slot
      BY <1>1, <2>1 DEF SessionType, Order
    <2>3. Target' /\ Verdict' /\ Pending'
      BY <1>1, <2>1, <2>2 DEF Target, Verdict, Pending, Acceptable, Holds
    <2> QED BY <1>1, <1>2, <2>1, <2>2, <2>3
  <1>12. ASSUME session.candidate_valid, UNCHANGED <<flash, spoiled>>,
                record' = MarkSlotPending(record, session.target_slot, session.candidate),
                session' \in SessionType, Order(session'),
                session'.candidate_valid, session'.target_slot = session.target_slot,
                session'.candidate = session.candidate,
                session'.expected_image = session.expected_image
         PROVE  SessionInv'
    <2>1. record' \in BootRecord
      BY <1>1, <1>12, MarkSlotPendingType DEF Order, SessionType
    <2>2. /\ record'.pending_slot = session.target_slot
          /\ record'.pending_image = session.candidate
      BY <1>12 DEF MarkSlotPending
    <2>3. Target' /\ Verdict' /\ Pending'
      BY <1>1, <1>12, <2>2 DEF Target, Verdict, Pending, Holds
    <2> QED BY <1>1, <1>2, <1>12, <2>1, <2>3
  <1>13. CASE Activate
    <2>1. session' = [session EXCEPT !.reset_requested = TRUE] /\ session.candidate_valid
      BY <1>13 DEF Activate
    <2>2. /\ session' \in SessionType /\ Order(session')
          /\ session'.candidate_valid /\ session'.target_slot = session.target_slot
          /\ session'.candidate = session.candidate
          /\ session'.expected_image = session.expected_image
      BY <1>1, <2>1 DEF SessionType, Order
    <2> QED BY <1>12, <1>13, <2>1, <2>2 DEF Activate
  <1>14. CASE ActivateFails
    <2>1. CASE record' = record
      BY <1>1, <1>3, <1>14, <2>1 DEF ActivateFails, vars
    <2>2. CASE record' = MarkSlotPending(record, session.target_slot, session.candidate)
      BY <1>1, <1>12, <1>14, <2>2 DEF ActivateFails
    <2> QED BY <1>14, <2>1, <2>2 DEF ActivateFails
  <1>15. ASSUME session' = NoSession
         PROVE  session' \in SessionType /\ Order(session') /\ Target' /\ Verdict'
    BY <1>1, <1>15, NoSessionType DEF SessionType, Order, Target, Verdict
  <1>16. CASE Abort \/ PowerLoss
    <2>1. session' = NoSession /\ UNCHANGED <<record, spoiled>> /\ Next
      BY <1>16 DEF Abort, PowerLoss, Next
    <2>2. Pending'
      BY <1>5, <2>1
    <2> QED BY <1>1, <1>2, <1>4, <1>15, <2>1, <2>2
  <1>17. CASE BootAndReturn
    <2>1. session' = NoSession /\ UNCHANGED <<flash, spoiled>>
      BY <1>17 DEF BootAndReturn
    <2>2. /\ record' \in BootRecord
          /\ HasPending(record') => /\ HasPending(record)
                                    /\ record'.pending_slot = record.pending_slot
                                    /\ record'.pending_image = record.pending_image
      BY <1>1, <1>17, BootKeepsPending DEF BootAndReturn
    <2>3. Pending'
      BY <1>1, <2>1, <2>2 DEF Pending, Holds
    <2> QED BY <1>1, <1>2, <1>15, <2>1, <2>2, <2>3
  <1> QED
    BY <1>3, <1>6, <1>7, <1>8, <1>9, <1>10, <1>11, <1>13, <1>14, <1>16, <1>17 DEF Next

-----------------------------------------------------------------------------

\* The order of the commands is kept, types included: a session that has no
\* verdict writes where BEGIN would, one that has writes nothing.
THEOREM SessionInvariant == Spec => []SessionInv
  BY InitInv, NextInv, PTL DEF Spec

\* As long as VALIDATE's verdict stands, the target slot holds the announced
\* image, unless a BEGIN has failed on it (update_session.c:100-153).
THEOREM VerdictIsOfTheSlot == Spec => []CandidateIsAnnounced
  <1>1. SessionInv => CandidateIsAnnounced
    BY DEF SessionInv, CandidateIsAnnounced
  <1> QED BY <1>1, SessionInvariant, PTL

\* An image that awaits its decision is whole in its slot, whatever commands,
\* errors and power losses come, unless a BEGIN has failed on the slot.
THEOREM PendingStaysWhole == Spec => []PendingIsWhole
  <1>1. SessionInv => PendingIsWhole
    BY DEF SessionInv, PendingIsWhole
  <1> QED BY <1>1, SessionInvariant, PTL

\* While nothing is pending nothing writes to the confirmed active slot.
THEOREM ConfirmedSlotStays == Spec => ConfirmedSlotUntouched
  <1>1. ASSUME SessionInv, [Next]_vars,
               record.slot_status[record.active_slot] = "CONFIRMED", ~HasPending(record)
        PROVE  flash'[record.active_slot] = flash[record.active_slot]
    <2>1. record \in BootRecord /\ record.active_slot \in Slots
      BY <1>1 DEF SessionInv, TypeOK, BootRecord
    <2>2. record.active_slot # BeginTarget
      BY <1>1, <2>1, BeginTargetIsNotConfirmed
    <2>3. CASE Next
      BY <1>1, <2>1, <2>2, <2>3, OnlyBeginTargetIsWritten
    <2>4. CASE UNCHANGED vars
      BY <2>4 DEF vars
    <2> QED BY <1>1, <2>3, <2>4
  <1>2. SessionInv /\ [Next]_vars =>
          [record.slot_status[record.active_slot] = "CONFIRMED" /\ ~HasPending(record)
             => flash'[record.active_slot] = flash[record.active_slot]]_vars
    BY <1>1
  <1> QED BY <1>2, SessionInvariant, PTL DEF Spec, ConfirmedSlotUntouched

=============================================================================
