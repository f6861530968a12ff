----------------------------- MODULE CanTransport -----------------------------
(***************************************************************************)
(* Update packets over classic CAN, from one node's fragmenter to the       *)
(* other's reassembly: update_can.c, the senders and pollers of             *)
(* update_can_loop.c and update_agent.c, their counterparts of              *)
(* can_update.py on the host, and the controller of can.c with its three    *)
(* transmit mailboxes and its receive FIFO.                                *)
(*                                                                         *)
(* A packet is a sequence of units of data, of which FirstChunk fit into    *)
(* the first frame, beside its length, and NextChunk into every other one;  *)
(* a last frame is padded with zeros.  A fault is a frame lost or doubled, or  *)
(* a packet broken off.                                                    *)
(***************************************************************************)
EXTENDS PacketDelivery

CONSTANTS
  FirstChunk,         \* 5, in units
  NextChunk,          \* 7, in units
  MinLength, MaxLength  \* 20 and 148, in units

Mailboxes == 3
FifoDepth == 3
Padding == 0

ASSUME CanAssumption ==
  /\ {FirstChunk, NextChunk} \subseteq Nat \ {0}
  /\ {MinLength, MaxLength} \subseteq Nat
  /\ FirstChunk < MinLength /\ MinLength <= MaxLength
  /\ \A p \in Packets : Len(p) \in MinLength .. MaxLength

VARIABLES
  fragmenter,         \* update_can_fragmenter_t of the sender
  mailboxes,          \* frames handed to the controller, in that order
  fifo,               \* frames the receiver's controller holds
  reassembly,         \* update_can_reassembly_t of the receiver
  outcome,            \* what the last update_can_reassembly_feed returned
  reassembler,        \* a PacketReassembler of the host, given the same frames
  returned,           \* what its last feed returned, <<>> for None
  fed                 \* history: the last frames fed to the reassembly

reassemblies == <<reassembly, outcome, reassembler, returned, delivered, fed>>

receiver == <<fifo, reassemblies>>

canVars == <<fragmenter, mailboxes, receiver, sent, faults>>

Lesser(a, b) == IF a < b THEN a ELSE b

-----------------------------------------------------------------------------
(* The sender. *)

Idle == [packet |-> <<>>, offset |-> 0, index |-> 0]

Capacity(offset) == IF offset = 0 THEN FirstChunk ELSE NextChunk

\* update_can_fragmenter_next: the frame, always of eight bytes.
Frame(packet, offset, index) ==
  LET chunk == Lesser(Len(packet) - offset, Capacity(offset)) IN
  [ start |-> offset = 0,
    end   |-> offset + chunk = Len(packet),
    index |-> index,
    total |-> IF offset = 0 THEN Len(packet) ELSE 0,
    data  |-> [k \in 1 .. Capacity(offset) |->
                 IF k <= chunk THEN packet[offset + k] ELSE Padding] ]

\* send_ack, or CanPacketPort.write of the host.
Submit ==
  /\ fragmenter = Idle /\ Len(sent) < MaxPackets
  /\ \E p \in Packets :
       /\ fragmenter' = [Idle EXCEPT !.packet = p]
       /\ sent' = Append(sent, p)
  /\ UNCHANGED <<mailboxes, receiver, faults>>

\* can_send accepts a frame when a mailbox is free.
QueueFragment ==
  /\ fragmenter # Idle /\ Len(mailboxes) < Mailboxes
  /\ LET f == fragmenter
         next == f.offset + Lesser(Len(f.packet) - f.offset, Capacity(f.offset))
     IN /\ mailboxes' = Append(mailboxes, Frame(f.packet, f.offset, f.index))
        /\ fragmenter' = IF next = Len(f.packet) THEN Idle
                         ELSE [f EXCEPT !.offset = next, !.index = @ + 1]
  /\ UNCHANGED <<receiver, sent, faults>>

\* send_frame_wait runs out of retries, or the bus is off: the rest is not sent.
GiveUp ==
  /\ faults < MaxFaults
  /\ fragmenter # Idle
  /\ fragmenter' = Idle
  /\ faults' = faults + 1
  /\ UNCHANGED <<mailboxes, receiver, sent>>

-----------------------------------------------------------------------------
(* The controllers and the bus. *)

WithoutNth(seq, n) == SubSeq(seq, 1, n - 1) \o SubSeq(seq, n + 1, Len(seq))

\* By identifier, and then by number of the mailbox, which says nothing.
FaultyTransmittable == 1 .. Len(mailboxes)

\* CAN_MCR_TXFP: in the order of the requests.
Transmittable == IF mailboxes = <<>> THEN {} ELSE {1}

\* A full FIFO that is not locked gives up its last frame for the new one.
Arrive(frame) ==
  fifo' = IF Len(fifo) < FifoDepth THEN Append(fifo, frame)
          ELSE [fifo EXCEPT ![FifoDepth] = frame]

Transmit ==
  /\ \E n \in Transmittable :
       Arrive(mailboxes[n]) /\ mailboxes' = WithoutNth(mailboxes, n)
  /\ faults' = IF Len(fifo) < FifoDepth THEN faults ELSE Lesser(faults + 1, MaxFaults)
  /\ UNCHANGED <<fragmenter, reassemblies, sent>>

\* The receiver, an adapter or a driver misses the frame.
Lose ==
  /\ faults < MaxFaults
  /\ \E n \in Transmittable : mailboxes' = WithoutNth(mailboxes, n)
  /\ faults' = faults + 1
  /\ UNCHANGED <<fragmenter, receiver, sent>>

\* The sender missed the acknowledgement and the frame will be sent again.
Duplicate ==
  /\ faults < MaxFaults
  /\ \E n \in Transmittable : Arrive(mailboxes[n])
  /\ faults' = faults + 1
  /\ UNCHANGED <<fragmenter, mailboxes, reassemblies, sent>>

-----------------------------------------------------------------------------
(* The receiver. *)

NoReassembly == [active |-> FALSE, expected |-> 0, next |-> 0, packet |-> <<>>]

\* A packet in progress is finished first.
FaultyIsStart(frame) == frame.start /\ ~reassembly.active

IsStart(frame) == frame.start

\* The fields after the header of the frame; active FALSE when it is refused.
Opened(frame) ==
  IF IsStart(frame)
  THEN IF frame.index # 0 THEN [reassembly EXCEPT !.active = FALSE]
       ELSE IF frame.total \notin MinLength .. MaxLength
            THEN [reassembly EXCEPT !.active = FALSE, !.expected = frame.total]
       ELSE [active |-> TRUE, expected |-> frame.total, next |-> 1, packet |-> <<>>]
  ELSE IF reassembly.active /\ frame.index = reassembly.next
       THEN [reassembly EXCEPT !.next = @ + 1]
       ELSE [reassembly EXCEPT !.active = FALSE]

Room(r) == r.expected - Len(r.packet)

\* More than the packet has left is zeros, and in its last frame.
FitsOrIsPadded(r, frame) ==
  Len(frame.data) > Room(r) =>
    frame.end /\ \A k \in Room(r) + 1 .. Len(frame.data) : frame.data[k] = Padding

\* The padding is copied as well.
FaultyExtended(r, frame) == [r EXCEPT !.packet = @ \o frame.data]

Extended(r, frame) ==
  [r EXCEPT !.packet = @ \o SubSeq(frame.data, 1, Lesser(Len(frame.data), Room(r)))]

\* update_can_reassembly_feed: what becomes of the reassembly, and the result.
FeedResult(frame) ==
  LET opened == Opened(frame)
      longer == Extended(opened, frame)
      failed(r) == [state |-> [r EXCEPT !.active = FALSE], result |-> "ERROR"]
  IN IF ~opened.active \/ ~FitsOrIsPadded(opened, frame) THEN failed(opened)
     ELSE IF frame.end # (Len(longer.packet) = longer.expected) THEN failed(longer)
     ELSE IF frame.end
          THEN [state |-> [longer EXCEPT !.active = FALSE], result |-> "COMPLETE"]
     ELSE [state |-> longer, result |-> "NONE"]

\* The padding must be missing, instead of zero.
FaultyIsPadding(data) == data = <<>>

IsPadding(data) == \A k \in DOMAIN data : data[k] = Padding

\* PacketReassembler.feed of can_update.py, which takes all of the frame first.
HostFeed(frame) ==
  LET accepted == IF frame.start THEN frame.index = 0 /\ frame.total \in MinLength .. MaxLength
                  ELSE reassembler.active /\ frame.index = reassembler.next
      opened == IF frame.start THEN [NoReassembly EXCEPT !.active = TRUE, !.expected = frame.total]
                ELSE reassembler
      packet == opened.packet \o frame.data
      useful == SubSeq(packet, 1, Lesser(Len(packet), opened.expected))
      rest == SubSeq(packet, opened.expected + 1, Len(packet))
      whole == Len(useful) = opened.expected
  IN IF accepted /\ (rest # <<>> => frame.end /\ IsPadding(rest)) /\ frame.end = whole
     THEN IF frame.end THEN [state |-> NoReassembly, returned |-> useful]
          ELSE [state |-> [opened EXCEPT !.next = @ + 1, !.packet = useful],
                returned |-> <<>>]
     ELSE [state |-> NoReassembly, returned |-> <<>>]

\* How many fragments a packet of a length has, and where each of them begins.
CountFor(len) == 1 + (len - FirstChunk + NextChunk - 1) \div NextChunk

OffsetOf(index) == IF index = 0 THEN 0 ELSE FirstChunk + (index - 1) * NextChunk

MaxFragments == CountFor(MaxLength)

LastOf(seq, n) == SubSeq(seq, IF Len(seq) > n THEN Len(seq) - n + 1 ELSE 1, Len(seq))

\* can_receive, update_can_reassembly_feed and, of a whole packet, the decoding.
PollCan ==
  /\ fifo # <<>>
  /\ fifo' = Tail(fifo)
  /\ LET fed_now == FeedResult(Head(fifo)) IN
       /\ reassembly' = fed_now.state
       /\ outcome' = fed_now.result
       /\ delivered' = IF fed_now.result = "COMPLETE" /\ Decodes(fed_now.state.packet)
                       THEN Append(delivered, fed_now.state.packet) ELSE delivered
  /\ LET fed_host == HostFeed(Head(fifo)) IN
       reassembler' = fed_host.state /\ returned' = fed_host.returned
  /\ fed' = LastOf(Append(fed, Head(fifo)), MaxFragments)
  /\ UNCHANGED <<fragmenter, mailboxes, sent, faults>>

-----------------------------------------------------------------------------
CanInit ==
  /\ fragmenter = Idle /\ mailboxes = <<>> /\ fifo = <<>>
  /\ reassembly = NoReassembly /\ outcome = "NONE"
  /\ reassembler = NoReassembly /\ returned = <<>>
  /\ sent = <<>> /\ delivered = <<>> /\ fed = <<>> /\ faults = 0

CanNext == Submit \/ QueueFragment \/ GiveUp \/ Transmit \/ Lose \/ Duplicate \/ PollCan

CanSpec == CanInit /\ [][CanNext]_canVars

-----------------------------------------------------------------------------
(* Properties. *)

Frames == UNION {{Frame(p, o, i) : o \in 0 .. Len(p) - 1, i \in 0 .. MaxFragments - 1} :
                   p \in Packets}

CanTypeOK ==
  /\ fragmenter \in [packet : Packets \cup {<<>>}, offset : 0 .. MaxLength,
                     index : 0 .. MaxFragments]
  /\ mailboxes \in Seq(Frames) /\ Len(mailboxes) <= Mailboxes
  /\ fifo \in Seq(Frames) /\ Len(fifo) <= FifoDepth
  /\ reassembly \in [active : BOOLEAN, expected : 0 .. MaxLength, next : 0 .. MaxFragments,
                     packet : Seq(Nat)]
  /\ outcome \in {"NONE", "COMPLETE", "ERROR"}
  /\ sent \in Seq(Packets) /\ delivered \in Seq(Packets)
  /\ fed \in Seq(Frames) /\ faults \in 0 .. MaxFaults

Fragments(p) ==
  [k \in 1 .. CountFor(Len(p)) |-> Frame(p, OffsetOf(k - 1), k - 1)]

\* Fragments of several packets, one behind the other, make no other packet than one of
\* these: the CRC-32 over the whole is not right by chance.  A condition on the
\* constants, for what holds when frames are lost.
MixturesTell ==
  \A q \in Packets : \A of \in [1 .. CountFor(Len(q)) -> Packets] :
    (\A k \in DOMAIN of : k <= CountFor(Len(of[k])) /\ Fragments(of[k])[k] = Fragments(q)[k])
      => q \in {of[k] : k \in DOMAIN of}

\* A packet whose fragments arrive one after the other is delivered, whatever
\* arrived before them: no half packet, error or repeated frame leaves the
\* reassembly in a state in which it misses the next packet.
DeliversUnbroken ==
  \A p \in Packets :
    LET n == Len(Fragments(p)) IN
    Len(fed) >= n /\ LastOf(fed, n) = Fragments(p)
      => outcome = "COMPLETE" /\ delivered # <<>> /\ delivered[Len(delivered)] = p

\* The reassembly of the host and that of the device, two programs for one format,
\* agree on every sequence of frames: on the packets, and on whether they are
\* within one (can_update.py:76-125, update_can.c:26-109).
ReassembliesAgree ==
  /\ returned = IF outcome = "COMPLETE" THEN reassembly.packet ELSE <<>>
  /\ reassembler.active = reassembly.active
  /\ reassembly.active => reassembler = reassembly

\* The sender is at the beginning of a fragment of its packet.  The device never
\* holds more than its buffer takes and, within a packet, so many whole fragments
\* of it that the next one is the one it waits for (update_can.c:51-108, 130-172).
AtFragments ==
  /\ fragmenter # Idle =>
       /\ fragmenter.packet \in Packets /\ fragmenter.offset < Len(fragmenter.packet)
       /\ fragmenter.offset = OffsetOf(fragmenter.index)
  /\ Len(reassembly.packet) <= reassembly.expected
  /\ reassembly.active =>
       /\ reassembly.next >= 1 /\ reassembly.expected \in MinLength .. MaxLength
       /\ Len(reassembly.packet) = OffsetOf(reassembly.next)
       /\ Len(reassembly.packet) < reassembly.expected

\* What any sequence of frames leaves of the two reassemblies and of the sender.
CanInv == CanTypeOK /\ AtFragments /\ ReassembliesAgree

\* Over a bus without faults every packet arrives: the three mailboxes keep the
\* order of the fragments (fw-update-can-plan.md:109).
DeliversAllWithoutFaults ==
  faults = 0 /\ fragmenter = Idle /\ mailboxes = <<>> /\ fifo = <<>> => delivered = sent

=============================================================================
