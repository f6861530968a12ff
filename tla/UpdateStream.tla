----------------------------- MODULE UpdateStream -----------------------------
(***************************************************************************)
(* Update packets over a UART: the bytes of the host's packets arrive in a   *)
(* receive register that is polled, and update_stream_feed of               *)
(* update_stream.c finds the packets in them, for the bootloader             *)
(* (boot_update_loop_poll) and for the application (update_agent_poll).      *)
(*                                                                         *)
(* A packet is <<Sync0, Sync1, n, p1, ..., pn, c>>: the sync marker, the      *)
(* length of the payload, the payload and the CRC.  The other fields of the    *)
(* header are part of the payload.  A fault is a byte lost or made up.        *)
(***************************************************************************)
EXTENDS PacketDelivery, FiniteSets

CONSTANTS
  Sync0, Sync1,       \* the low and the high byte of UPDATE_PROTOCOL_SYNC
  MaxPayload,         \* UPDATE_PROTOCOL_MAX_PAYLOAD
  NoiseBytes          \* the bytes that can appear out of nothing

HeaderSize == 3
CrcSize == 1
PacketSize(payload_len) == HeaderSize + payload_len + CrcSize
BufferSize == PacketSize(MaxPayload)

\* What update_protocol_encode makes of a payload.
Encoded(p) ==
  /\ Len(p) >= HeaderSize + CrcSize
  /\ p[1] = Sync0 /\ p[2] = Sync1
  /\ p[3] <= MaxPayload /\ Len(p) = PacketSize(p[3])

ASSUME StreamAssumption ==
  /\ {Sync0, Sync1, MaxPayload} \cup NoiseBytes \subseteq Nat
  /\ Sync0 # Sync1
  /\ \A p \in Packets : Encoded(p)

\* The CRC of a packet tells it from all others: its last unit is that of no other
\* packet, and is found nowhere else, neither in a packet nor in noise.  A condition on
\* the constants, for what holds on a disturbed line.
Crc(p) == p[Len(p)]

CrcTells ==
  /\ \A p, q \in Packets : \A i \in DOMAIN q : q[i] = Crc(p) => i = Len(q) /\ p = q
  /\ \A p \in Packets : Crc(p) \notin NoiseBytes

VARIABLES
  line,               \* what the host has still to send of its packet
  rx,                 \* the receive register, RXNE if it is not empty
  buffer,             \* update_stream_t
  refused,            \* history: the number of answers that refuse a packet
  claims,             \* history: the false headers in what was sent
  calm,               \* history: the bytes since the last fault of the last packets in a
                      \* row without a false header
  due                 \* history: must the packet sent last be delivered

traffic == <<claims, calm, due>>
streamVars == <<line, rx, buffer, sent, delivered, refused, traffic, faults>>

-----------------------------------------------------------------------------
(* The parser. *)

\* Only the first byte of the marker is looked for.
FaultySyncAt(bytes, i) == bytes[i] = Sync0

SyncAt(bytes, i) ==
  i + 1 <= Len(bytes) /\ bytes[i] = Sync0 /\ bytes[i + 1] = Sync1

DropPrefix(bytes, count) == SubSeq(bytes, count + 1, Len(bytes))

Resync(bytes) ==
  LET at == {i \in DOMAIN bytes : SyncAt(bytes, i)} IN
  IF at # {} THEN DropPrefix(bytes, (CHOOSE i \in at : \A j \in at : i <= j) - 1)
  ELSE IF bytes # <<>> /\ bytes[Len(bytes)] = Sync0 THEN <<Sync0>>
  ELSE <<>>

\* A full buffer makes room first.
WithRoom(bytes) ==
  IF Len(bytes) < BufferSize THEN bytes
  ELSE IF Len(Resync(bytes)) < BufferSize THEN Resync(bytes) ELSE <<>>

\* The length of any header is taken as it is.
FaultyTooLong(payload_len) == FALSE

TooLong(payload_len) == payload_len > MaxPayload

\* Only a packet that is accepted is taken out of the buffer.
FaultyWithout(bytes, size) ==
  IF Decodes(SubSeq(bytes, 1, size)) THEN DropPrefix(bytes, size) ELSE bytes

Without(bytes, size) == DropPrefix(bytes, size)

\* update_stream_feed, of one byte: the packet is <<>> unless the result is OK.
Feed(byte) ==
  LET bytes == Resync(Append(WithRoom(buffer), byte))
      size == PacketSize(bytes[3])
      found == SubSeq(bytes, 1, size)
      more(rest) == [buffer |-> rest, result |-> "BAD_LENGTH", packet |-> <<>>]
  IN IF Len(bytes) < HeaderSize THEN more(bytes)
     ELSE IF TooLong(bytes[3]) THEN more(Resync(DropPrefix(bytes, 1)))
     ELSE IF Len(bytes) < size THEN more(bytes)
     ELSE IF Decodes(found)
          THEN [buffer |-> Without(bytes, size), result |-> "OK", packet |-> found]
     ELSE [buffer |-> Resync(Without(bytes, size)), result |-> "BAD_CRC", packet |-> <<>>]

-----------------------------------------------------------------------------
\* Where a parser that is out of step takes bytes inside a packet for a header: at
\* a sync marker with a length behind it that fits, or with none before the packet
\* ends.  The session id uart_update.py sends by default holds the marker; the length
\* behind it is the beginning of the payload, and fits where a block begins with
\* zeros, say.
FalseHeaders(p) ==
  {i \in 2 .. Len(p) - 1 : /\ p[i] = Sync0 /\ p[i + 1] = Sync1
                           /\ i + 2 <= Len(p) => p[i + 2] <= MaxPayload}

Plain(p) == FalseHeaders(p) = {}

\* send_packet of the host, which does not begin one within another.
Send ==
  /\ line = <<>> /\ Len(sent) < MaxPackets
  /\ \E p \in Packets :
       /\ line' = p /\ sent' = Append(sent, p)
       /\ claims' = claims + Cardinality(FalseHeaders(p))
       /\ calm' = IF Plain(p) THEN calm + Len(p) ELSE 0
  /\ due' = (due \/ calm >= BufferSize)
  /\ UNCHANGED <<rx, buffer, delivered, refused, faults>>

\* The register takes a byte when the last one has been read.
Receive ==
  /\ line # <<>> /\ rx = <<>>
  /\ rx' = <<Head(line)>> /\ line' = Tail(line)
  /\ UNCHANGED <<buffer, sent, delivered, refused, traffic, faults>>

Disturb ==
  /\ faults < MaxFaults /\ faults' = faults + 1
  /\ calm' = 0 /\ due' = FALSE
  /\ UNCHANGED claims

\* Otherwise the byte is lost, as it is on a bad line: nobody looks at ORE.
Overrun ==
  /\ Disturb
  /\ line # <<>>
  /\ line' = Tail(line)
  /\ UNCHANGED <<rx, buffer, sent, delivered, refused>>

Noise ==
  /\ Disturb
  /\ rx = <<>>
  /\ \E b \in NoiseBytes : rx' = <<b>>
  /\ UNCHANGED <<line, buffer, sent, delivered, refused>>

\* One turn of the loop of boot_update_loop_poll or update_agent_poll.
PollUart ==
  /\ rx # <<>>
  /\ rx' = <<>>
  /\ LET fed == Feed(rx[1]) IN
       /\ buffer' = fed.buffer
       /\ delivered' = IF fed.result = "OK" THEN Append(delivered, fed.packet) ELSE delivered
       /\ refused' = IF fed.result = "BAD_CRC" THEN refused + 1 ELSE refused
  /\ UNCHANGED <<line, sent, traffic, faults>>

StreamInit ==
  /\ line = <<>> /\ rx = <<>> /\ buffer = <<>>
  /\ sent = <<>> /\ delivered = <<>> /\ refused = 0
  /\ claims = 0 /\ calm = 0 /\ due = FALSE /\ faults = 0

StreamNext == Send \/ Receive \/ Overrun \/ Noise \/ PollUart

StreamSpec == StreamInit /\ [][StreamNext]_streamVars

-----------------------------------------------------------------------------
(* Properties. *)

StreamTypeOK ==
  /\ line \in Seq(Nat) /\ rx \in Seq(Nat) /\ Len(rx) <= 1
  /\ buffer \in Seq(Nat) /\ Len(buffer) < BufferSize
  /\ sent \in Seq(Packets) /\ delivered \in Seq(Packets) /\ Len(sent) <= MaxPackets
  /\ faults \in 0 .. MaxFaults /\ refused \in Nat
  /\ claims \in Nat /\ calm \in Nat /\ due \in BOOLEAN

\* Between two bytes the buffer is the beginning of one packet: what it holds
\* can only be a half sync marker, or a marker, and then less than its header
\* announces, of a length that fits.  So the buffer is never full, and no byte
\* of a packet is dropped to make room (update_stream.c:72-77).
AwaitsOnePacket ==
  /\ StreamTypeOK
  /\ Len(buffer) >= 1 => buffer[1] = Sync0
  /\ Len(buffer) >= 2 => buffer[2] = Sync1
  /\ Len(buffer) >= HeaderSize =>
       buffer[3] <= MaxPayload /\ Len(buffer) < PacketSize(buffer[3])

\* On an undisturbed line the packets that are not delivered are on their way: at
\* most two, the second one whole, and of the first the last byte at least.
ArrivesInOrder ==
  faults = 0 =>
    LET n == Len(delivered) IN
    /\ refused = 0 /\ n <= Len(sent) /\ delivered = SubSeq(sent, 1, n)
    /\ \/ Len(sent) = n /\ line = <<>> /\ rx = <<>> /\ buffer = <<>>
       \/ Len(sent) = n + 1 /\ sent[n + 1] = buffer \o (rx \o line) /\ rx \o line # <<>>
       \/ Len(sent) = n + 2 /\ sent[n + 1] = buffer \o rx /\ rx # <<>> /\ line = sent[n + 2]

\* What a byte finds: a buffer with room for it, which on an undisturbed line is
\* the beginning of its packet (update_stream.c:54-116).
StreamInv == AwaitsOnePacket /\ ArrivesInOrder

LastIsDelivered ==
  delivered # <<>> /\ delivered[Len(delivered)] = sent[Len(sent)] /\ buffer = <<>>

\* The parser is back in step at the latest when packets without a false header,
\* one after the other and as many bytes as the buffer holds, have passed since the
\* last fault, and then stays in step: each packet is delivered until the next
\* fault, also one with a false header in it (update_stream.c:54-116).
Resynchronizes == due /\ line = <<>> /\ rx = <<>> => LastIsDelivered

\* One disturbed byte makes at most one answer that refuses a packet, and a false
\* header in a packet one more: otherwise the host would be an answer behind for
\* every packet it sends after a fault.
RefusesOncePerFault == refused <= faults + claims

=============================================================================
