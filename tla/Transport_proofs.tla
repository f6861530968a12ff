--------------------------- MODULE Transport_proofs ---------------------------
(***************************************************************************)
(* The two ways of a packet to the device, for all packets, sizes and bounds: *)
(* the parser of the UART stream and the reassemblies of CAN frames never     *)
(* lose what arrives undisturbed, and never deliver what was not sent.       *)
(***************************************************************************)
EXTENDS UpdateStream, CanTransport, SequenceTheorems, FiniteSetTheorems, TLAPS

-----------------------------------------------------------------------------
(* Packets and what was delivered of them. *)

\* The constants of the stream, one by one.
LEMMA StreamConstants ==
  /\ Sync0 \in Nat /\ Sync1 \in Nat /\ Sync0 # Sync1 /\ MaxPayload \in Nat
  /\ NoiseBytes \subseteq Nat /\ MaxFaults \in Nat \ {0} /\ MaxPackets \in Nat
  BY StreamAssumption, PacketAssumption

\* A packet of the UART is a header with its marker, a payload and a CRC.
LEMMA PacketFacts ==
  ASSUME NEW p \in Packets
  PROVE  /\ p \in Seq(Nat) /\ Len(p) \in Nat /\ Len(p) >= 4
         /\ p[1] = Sync0 /\ p[2] = Sync1
         /\ p[3] \in Nat /\ p[3] <= MaxPayload /\ Len(p) = p[3] + 4
  <1>1. p \in Seq(Nat) /\ Encoded(p)
    BY PacketAssumption, StreamAssumption
  <1>2. Len(p) \in Nat /\ Len(p) >= 4 /\ p[1] = Sync0 /\ p[2] = Sync1 /\ p[3] <= MaxPayload
    BY <1>1 DEF Encoded, HeaderSize, CrcSize
  <1>3. p[3] \in Nat
    BY <1>1, <1>2
  <1>4. Len(p) = p[3] + 4
    BY <1>1, <1>3 DEF Encoded, PacketSize, HeaderSize, CrcSize
  <1> QED BY <1>1, <1>2, <1>3, <1>4

\* One element more of a beginning.
LEMMA LongerBeginning ==
  ASSUME NEW S, NEW s \in Seq(S), NEW n \in Nat, n < Len(s)
  PROVE  Append(SubSeq(s, 1, n), s[n + 1]) = SubSeq(s, 1, n + 1)
  <1>1. n + 1 \in 1 .. Len(s) /\ 1 \in 1 .. Len(s) /\ (n + 1) - 1 = n
    BY LenProperties
  <1>2. SubSeq(s, 1, n + 1) = SubSeq(s, 1, (n + 1) - 1) \o <<s[n + 1]>>
    BY <1>1, SubSeqRecursiveSecond
  <1>3. SubSeq(s, 1, n) \in Seq(S) /\ s[n + 1] \in S
    <2>1. \A i \in 1 .. n : s[i] \in S
      BY <1>1, ElementOfSeq
    <2> QED BY <1>1, <2>1, SubSeqProperties, ElementOfSeq
  <1> QED BY <1>1, <1>2, <1>3, AppendIsConcat

\* The beginnings of a sequence are those of a longer one.
LEMMA BeginningOfAppended ==
  ASSUME NEW S, NEW s \in Seq(S), NEW e \in S, NEW n \in 0 .. Len(s)
  PROVE  SubSeq(Append(s, e), 1, n) = SubSeq(s, 1, n)
  <1>1. /\ Append(s, e) \in Seq(S) /\ Len(Append(s, e)) = Len(s) + 1 /\ Len(s) \in Nat
        /\ \A i \in 1 .. Len(s) : Append(s, e)[i] = s[i]
    BY AppendProperties, LenProperties
  <1>2. \A i \in 1 .. n : s[i] \in S /\ Append(s, e)[i] = s[i]
    BY <1>1, ElementOfSeq
  <1>3. /\ SubSeq(s, 1, n) \in Seq(S) /\ Len(SubSeq(s, 1, n)) = n
        /\ \A i \in 1 .. n : SubSeq(s, 1, n)[i] = s[i]
    <2>1. 1 \in Int /\ n \in Int /\ \A i \in 1 .. n : s[i] \in S
      BY <1>2
    <2>2. /\ SubSeq(s, 1, n) \in Seq(S) /\ Len(SubSeq(s, 1, n)) = IF 1 <= n THEN n - 1 + 1 ELSE 0
          /\ \A i \in 1 .. n - 1 + 1 : SubSeq(s, 1, n)[i] = s[1 + i - 1]
      BY <2>1, SubSeqProperties
    <2> QED BY <1>1, <2>2
  <1>4. /\ SubSeq(Append(s, e), 1, n) \in Seq(S) /\ Len(SubSeq(Append(s, e), 1, n)) = n
        /\ \A i \in 1 .. n : SubSeq(Append(s, e), 1, n)[i] = s[i]
    <2>1. 1 \in Int /\ n \in Int /\ \A i \in 1 .. n : Append(s, e)[i] \in S
      BY <1>2
    <2> DEFINE t == Append(s, e)
    <2> HIDE DEF t
    <2>2. /\ SubSeq(t, 1, n) \in Seq(S) /\ Len(SubSeq(t, 1, n)) = IF 1 <= n THEN n - 1 + 1 ELSE 0
          /\ \A i \in 1 .. n - 1 + 1 : SubSeq(t, 1, n)[i] = t[1 + i - 1]
      BY <2>1, SubSeqProperties DEF t
    <2> QED BY <1>1, <1>2, <2>2 DEF t
  <1> QED BY <1>1, <1>3, <1>4, SeqEqual

\* Who has the first packets, in order, has nothing but what was sent.
LEMMA BeginningWasSent ==
  ASSUME sent \in Seq(Packets), delivered \in Seq(Packets), Len(delivered) <= Len(sent),
         delivered = SubSeq(sent, 1, Len(delivered))
  PROVE  DeliversWhatWasSent
  <1> DEFINE n == Len(delivered)
             at == [i \in DOMAIN delivered |-> i]
  <1>1. Len(sent) \in Nat /\ n \in Nat /\ DOMAIN sent = 1 .. Len(sent)
        /\ DOMAIN delivered = 1 .. n
    BY LenProperties
  <1>2. at \in [DOMAIN delivered -> DOMAIN sent]
    BY <1>1
  <1>3. \A i \in DOMAIN delivered : delivered[i] = sent[at[i]]
    <2>1. 1 \in Int /\ n \in Int /\ \A i \in 1 .. n : sent[i] \in Packets
      BY <1>1, ElementOfSeq
    <2> HIDE DEF n
    <2>2. \A i \in 1 .. n - 1 + 1 : SubSeq(sent, 1, n)[i] = sent[1 + i - 1]
      BY <2>1, SubSeqProperties
    <2>3. \A i \in 1 .. n : i \in 1 .. n - 1 + 1 /\ 1 + i - 1 = i
      BY <1>1
    <2>4. delivered = SubSeq(sent, 1, n)
      BY DEF n
    <2> QED BY <1>1, <2>2, <2>3, <2>4
  <1>4. \A i, j \in DOMAIN delivered : i < j => at[i] < at[j]
    OBVIOUS
  <1> HIDE DEF at
  <1> QED BY <1>2, <1>3, <1>4 DEF DeliversWhatWasSent

-----------------------------------------------------------------------------
(* What was delivered, and where it was sent. *)

\* The elements of xs are those of ys at these places, in that order.
Maps(at, xs, ys) ==
  /\ at \in [DOMAIN xs -> DOMAIN ys]
  /\ \A n \in DOMAIN xs : xs[n] = ys[at[n]]
  /\ \A m, n \in DOMAIN xs : m < n => at[m] < at[n]

\* The places stay when one more is sent.
LEMMA MapsIntoLonger ==
  ASSUME NEW S, NEW xs \in Seq(S), NEW ys \in Seq(S), NEW e \in S, NEW at, Maps(at, xs, ys)
  PROVE  Maps(at, xs, Append(ys, e)) /\ \A n \in DOMAIN xs : at[n] < Len(Append(ys, e))
  <1>1. /\ Len(ys) \in Nat /\ DOMAIN ys = 1 .. Len(ys) /\ DOMAIN xs = 1 .. Len(xs)
        /\ DOMAIN Append(ys, e) = 1 .. Len(ys) + 1 /\ Len(Append(ys, e)) = Len(ys) + 1
        /\ \A i \in 1 .. Len(ys) : Append(ys, e)[i] = ys[i]
    BY AppendProperties, LenProperties
  <1>2. /\ at \in [DOMAIN xs -> DOMAIN ys] /\ \A n \in DOMAIN xs : xs[n] = ys[at[n]]
        /\ \A m, n \in DOMAIN xs : m < n => at[m] < at[n]
    BY DEF Maps
  <1> HIDE DEF Maps
  <1>3. at \in [DOMAIN xs -> DOMAIN Append(ys, e)]
    BY <1>1, <1>2
  <1>4. \A n \in DOMAIN xs : xs[n] = Append(ys, e)[at[n]] /\ at[n] < Len(Append(ys, e))
    BY <1>1, <1>2
  <1> QED BY <1>2, <1>3, <1>4 DEF Maps

\* One more is delivered, of a later place than those before it.
LEMMA MapsOneMore ==
  ASSUME NEW S, NEW xs \in Seq(S), NEW ys \in Seq(S), NEW e \in S, NEW at, Maps(at, xs, ys),
         NEW k \in DOMAIN ys, ys[k] = e, \A n \in DOMAIN xs : at[n] < k
  PROVE  \E to : Maps(to, Append(xs, e), ys) /\ \A n \in DOMAIN Append(xs, e) : to[n] <= k
  <1>1. /\ Len(xs) \in Nat /\ DOMAIN ys = 1 .. Len(ys) /\ Len(ys) \in Nat /\ DOMAIN xs = 1 .. Len(xs)
        /\ DOMAIN Append(xs, e) = 1 .. Len(xs) + 1
        /\ \A i \in 1 .. Len(xs) : Append(xs, e)[i] = xs[i]
        /\ Append(xs, e)[Len(xs) + 1] = e
    BY AppendProperties, LenProperties
  <1>2. /\ at \in [1 .. Len(xs) -> 1 .. Len(ys)] /\ \A n \in 1 .. Len(xs) : xs[n] = ys[at[n]]
        /\ \A m, n \in 1 .. Len(xs) : m < n => at[m] < at[n]
    BY <1>1 DEF Maps
  <1> DEFINE to == [n \in 1 .. Len(xs) + 1 |-> IF n <= Len(xs) THEN at[n] ELSE k]
             zs == Append(xs, e)
  <1> HIDE DEF zs
  <1>3. /\ to \in [1 .. Len(xs) + 1 -> 1 .. Len(ys)]
        /\ \A n \in 1 .. Len(xs) + 1 : n \in 1 .. Len(xs) \/ n = Len(xs) + 1
    BY <1>1, <1>2
  <1>4. \A n \in 1 .. Len(xs) + 1 : zs[n] = ys[to[n]] /\ to[n] <= k
    BY <1>1, <1>2, <1>3 DEF zs
  <1>5. \A m, n \in 1 .. Len(xs) + 1 : m < n => to[m] < to[n]
    BY <1>1, <1>2, <1>3
  <1> HIDE DEF to
  <1> QED BY <1>1, <1>3, <1>4, <1>5 DEF Maps, zs

\* Nothing is delivered yet.
LEMMA MapsNothing ==
  ASSUME NEW ys
  PROVE  Maps([n \in {} |-> 1], <<>>, ys)
  BY DEF Maps

\* Who has such places has nothing but what was sent.
LEMMA MappedWasSent ==
  ASSUME NEW at, Maps(at, delivered, sent)
  PROVE  DeliversWhatWasSent
  BY DEF Maps, DeliversWhatWasSent

-----------------------------------------------------------------------------
(* The parser of the stream. *)

\* A sequence of one element.
LEMMA SingletonIsItsElement ==
  ASSUME NEW s \in Seq(Nat), Len(s) = 1
  PROVE  s = <<s[1]>>
  <1>1. s = [i \in 1 .. 1 |-> s[i]]
    OBVIOUS
  <1>2. <<s[1]>> = [i \in 1 .. 1 |-> s[1]]
    OBVIOUS
  <1> QED BY ONLY <1>1, <1>2

\* A marker at the beginning stays there.
LEMMA ResyncKeepsMarker ==
  ASSUME NEW bytes \in Seq(Nat), Len(bytes) >= 2, bytes[1] = Sync0, bytes[2] = Sync1
  PROVE  Resync(bytes) = bytes
  <1> DEFINE at == {i \in DOMAIN bytes : SyncAt(bytes, i)}
             first == CHOOSE i \in at : \A j \in at : i <= j
  <1>1. DOMAIN bytes = 1 .. Len(bytes) /\ Len(bytes) \in Nat
    OBVIOUS
  <1>2. 1 \in at
    BY <1>1 DEF SyncAt
  <1>3. \A j \in at : 1 <= j
    BY <1>1
  <1>4. first \in at /\ \A j \in at : first <= j
    BY <1>2, <1>3
  <1>5. first = 1
    BY <1>1, <1>2, <1>4
  <1>6. Resync(bytes) = DropPrefix(bytes, first - 1)
    BY <1>2 DEF Resync
  <1>7. first - 1 = 0
    BY <1>5
  <1>8. DropPrefix(bytes, 0) = SubSeq(bytes, 1, Len(bytes))
    BY DEF DropPrefix
  <1>9. SubSeq(bytes, 1, Len(bytes)) = bytes
    BY SubSeqFull
  <1> HIDE DEF first
  <1> QED BY <1>6, <1>7, <1>8, <1>9

\* Of one byte, and of two that are no marker, at most the last is kept.
LEMMA ResyncOfOne ==
  ASSUME NEW s \in Seq(Nat), Len(s) = 1
  PROVE  Resync(s) = IF s[1] = Sync0 THEN s ELSE <<>>
  <1>1. {i \in DOMAIN s : SyncAt(s, i)} = {}
    BY DEF SyncAt
  <1>2. s # <<>>
    <2>1. Len(<<>>) = 0 /\ Len(s) # 0
      OBVIOUS
    <2> QED BY ONLY <2>1
  <1>3. s[1] = Sync0 => s = <<Sync0>>
    BY SingletonIsItsElement
  <1> QED BY <1>1, <1>2, <1>3 DEF Resync

LEMMA ResyncOfTwo ==
  ASSUME NEW s \in Seq(Nat), Len(s) = 2, ~(s[1] = Sync0 /\ s[2] = Sync1)
  PROVE  Resync(s) = IF s[2] = Sync0 THEN <<Sync0>> ELSE <<>>
  <1>1. {i \in DOMAIN s : SyncAt(s, i)} = {}
    BY DEF SyncAt
  <1>2. Len(<<>>) = 0
    OBVIOUS
  <1>3. s # <<>>
    BY <1>2
  <1> QED BY <1>1, <1>3 DEF Resync

LEMMA ResyncOfNothing == Resync(<<>>) = <<>>
  BY DEF Resync

\* The beginnings of one packet.
IsBeginning(bytes) ==
  /\ bytes \in Seq(Nat)
  /\ Len(bytes) >= 1 => bytes[1] = Sync0
  /\ Len(bytes) >= 2 => bytes[2] = Sync1
  /\ Len(bytes) >= 3 => bytes[3] <= MaxPayload /\ Len(bytes) < bytes[3] + 4

LEMMA OneByteBegins == IsBeginning(<<>>) /\ IsBeginning(<<Sync0>>)
  BY StreamConstants DEF IsBeginning

\* Feed of a byte, by what the bytes then are.
LEMMA FeedOfHeader ==
  ASSUME buffer \in Seq(Nat), Len(buffer) < BufferSize, NEW b \in Nat,
         NEW bytes \in Seq(Nat), bytes = Resync(Append(buffer, b)),
         Len(bytes) >= 3, bytes[3] <= MaxPayload
  PROVE  /\ Len(bytes) < bytes[3] + 4 =>
              Feed(b) = [buffer |-> bytes, result |-> "BAD_LENGTH", packet |-> <<>>]
         /\ Len(bytes) = bytes[3] + 4 =>
              Feed(b) = IF bytes \in Packets
                        THEN [buffer |-> <<>>, result |-> "OK", packet |-> bytes]
                        ELSE [buffer |-> <<>>, result |-> "BAD_CRC", packet |-> <<>>]
  <1>1. WithRoom(buffer) = buffer
    BY DEF WithRoom
  <1>2. bytes[3] \in Nat /\ Len(bytes) \in Nat /\ MaxPayload \in Nat
    BY StreamConstants
  <1>3. ~(Len(bytes) < HeaderSize) /\ ~TooLong(bytes[3]) /\ PacketSize(bytes[3]) = bytes[3] + 4
    BY <1>2 DEF HeaderSize, CrcSize, TooLong, PacketSize
  <1>4. CASE Len(bytes) < bytes[3] + 4
    BY <1>1, <1>2, <1>3, <1>4 DEF Feed
  <1>5. CASE Len(bytes) = bytes[3] + 4
    <2>1. SubSeq(bytes, 1, PacketSize(bytes[3])) = bytes
      BY <1>3, <1>5, SubSeqFull
    <2>2. Without(bytes, PacketSize(bytes[3])) = <<>>
      <3>1. Len(bytes) + 1 \in Int /\ Len(bytes) \in Int /\ Len(bytes) < Len(bytes) + 1
        BY <1>2
      <3>2. SubSeq(bytes, Len(bytes) + 1, Len(bytes)) = <<>>
        BY <3>1, SubSeqEmpty
      <3> QED BY <1>3, <1>5, <3>2 DEF Without, DropPrefix
    <2>3. ~(Len(bytes) < PacketSize(bytes[3]))
      BY <1>2, <1>3, <1>5
    <2>4. Feed(b) = IF Decodes(bytes)
                    THEN [buffer |-> <<>>, result |-> "OK", packet |-> bytes]
                    ELSE [buffer |-> Resync(<<>>), result |-> "BAD_CRC", packet |-> <<>>]
      BY <1>1, <1>3, <2>1, <2>2, <2>3 DEF Feed
    <2> QED BY <1>2, <1>5, <2>4, ResyncOfNothing DEF Decodes
  <1> QED BY <1>2, <1>4, <1>5

\* Lengths below that of a header.
LEMMA UpToThree ==
  ASSUME NEW n \in Nat
  PROVE  n = 0 \/ n = 1 \/ n = 2 \/ n >= 3
  OBVIOUS

\* A byte more.
LEMMA OneByteMore ==
  ASSUME buffer \in Seq(Nat), NEW b \in Nat
  PROVE  /\ Append(buffer, b) \in Seq(Nat) /\ Len(buffer) \in Nat
         /\ Len(Append(buffer, b)) = Len(buffer) + 1
         /\ \A i \in 1 .. Len(buffer) : Append(buffer, b)[i] = buffer[i]
         /\ Append(buffer, b)[Len(buffer) + 1] = b
  BY AppendProperties

\* Less than a header is kept as it is.
LEMMA FeedOfLess ==
  ASSUME buffer \in Seq(Nat), Len(buffer) < BufferSize, NEW b \in Nat,
         Len(Resync(Append(buffer, b))) < 3
  PROVE  Feed(b) = [buffer |-> Resync(Append(buffer, b)), result |-> "BAD_LENGTH",
                    packet |-> <<>>]
  <1>1. WithRoom(buffer) = buffer
    BY DEF WithRoom
  <1>2. Len(Resync(Append(buffer, b))) < HeaderSize
    BY DEF HeaderSize
  <1> QED BY <1>1, <1>2 DEF Feed

\* What is refused: as many bytes as its header announces, and no packet.
IsRefused(bytes) ==
  /\ bytes \in Seq(Nat) /\ Len(bytes) >= 3
  /\ bytes[1] = Sync0 /\ bytes[2] = Sync1 /\ bytes[3] \in Nat /\ bytes[3] <= MaxPayload
  /\ Len(bytes) = bytes[3] + 4 /\ bytes \notin Packets

\* Whatever byte comes after a beginning, what is kept is one again, of all the bytes
\* or of the last one; nothing is kept of what is refused, and a packet ends with the
\* byte.
LEMMA FeedKeepsBeginning ==
  ASSUME Len(buffer) < BufferSize, IsBeginning(buffer), NEW b \in Nat
  PROVE  /\ IsBeginning(Feed(b).buffer)
         /\ \/ Feed(b).buffer = Append(buffer, b) \/ Feed(b).buffer = <<>>
            \/ Feed(b).buffer = <<Sync0>> /\ b = Sync0
         /\ Feed(b).result = "OK" =>
              Feed(b).packet \in Packets /\ Feed(b).packet[Len(Feed(b).packet)] = b
         /\ Feed(b).result = "BAD_CRC" => Feed(b).buffer = <<>> /\ IsRefused(Append(buffer, b))
  <1> DEFINE longer == Append(buffer, b)
             bytes == Resync(longer)
  <1>0. buffer \in Seq(Nat)
    BY DEF IsBeginning
  <1>1. /\ longer \in Seq(Nat) /\ Len(longer) = Len(buffer) + 1 /\ Len(buffer) \in Nat
        /\ \A i \in 1 .. Len(buffer) : longer[i] = buffer[i]
        /\ longer[Len(buffer) + 1] = b
    BY <1>0, OneByteMore
  <1>2. ASSUME Len(bytes) < 3
        PROVE  Feed(b) = [buffer |-> bytes, result |-> "BAD_LENGTH", packet |-> <<>>]
    BY <1>0, <1>2, FeedOfLess
  <1> HIDE DEF longer
  <1>3. Len(<<>>) = 0 /\ Len(<<Sync0>>) = 1
    OBVIOUS
  <1>4. ASSUME bytes = <<>> \/ (bytes = <<Sync0>> /\ b = Sync0)
        PROVE  /\ IsBeginning(Feed(b).buffer) /\ Feed(b).result = "BAD_LENGTH"
               /\ Feed(b).buffer = <<>> \/ (Feed(b).buffer = <<Sync0>> /\ b = Sync0)
    <2>1. Len(bytes) < 3
      <3> HIDE DEF bytes
      <3> QED BY ONLY <1>3, <1>4
    <2>2. Feed(b) = [buffer |-> bytes, result |-> "BAD_LENGTH", packet |-> <<>>]
      BY <1>2, <2>1
    <2>3. IsBeginning(bytes)
      BY <1>4, OneByteBegins
    <2> HIDE DEF bytes
    <2> QED BY <1>4, <2>2, <2>3
  <1>5. Len(buffer) = 0 \/ Len(buffer) = 1 \/ Len(buffer) = 2 \/ Len(buffer) >= 3
    BY <1>1, UpToThree
  <1>6. CASE Len(buffer) = 0
    <2>1. Len(longer) = 1
      BY <1>1, <1>6
    <2>2. bytes = IF longer[1] = Sync0 THEN longer ELSE <<>>
      BY <1>1, <2>1, ResyncOfOne
    <2>3. longer[1] = Sync0 => longer = <<Sync0>>
      BY <1>1, <2>1, SingletonIsItsElement
    <2>4. longer[1] = b
      BY <1>1, <1>6
    <2>5. bytes = <<>> \/ (bytes = <<Sync0>> /\ b = Sync0)
      BY <2>2, <2>3, <2>4
    <2> QED BY <1>4, <2>5
  <1>7. CASE Len(buffer) = 1
    <2>1. Len(longer) = 2 /\ 1 \in 1 .. Len(buffer)
      BY <1>1, <1>7
    <2>2. longer[1] = Sync0 /\ longer[2] = b
      BY <1>1, <1>7, <2>1 DEF IsBeginning
    <2>3. CASE b = Sync1
      <3>1. bytes = longer
        BY <1>1, <2>1, <2>2, <2>3, ResyncKeepsMarker
      <3>2. Len(bytes) < 3
        BY <2>1, <3>1
      <3>3. Feed(b) = [buffer |-> longer, result |-> "BAD_LENGTH", packet |-> <<>>]
        BY <1>2, <3>1, <3>2
      <3>4. IsBeginning(longer)
        BY <1>1, <2>1, <2>2, <2>3 DEF IsBeginning
      <3> QED BY <3>3, <3>4 DEF longer
    <2>4. CASE b # Sync1
      <3>1. bytes = <<>> \/ (bytes = <<Sync0>> /\ b = Sync0)
        BY <1>1, <2>1, <2>2, <2>4, ResyncOfTwo
      <3> QED BY <1>4, <3>1
    <2> QED BY <2>3, <2>4
  <1>8. ASSUME Len(buffer) >= 2
        PROVE  /\ longer[1] = Sync0 /\ longer[2] = Sync1 /\ bytes = longer /\ Len(longer) >= 3
    <2>1. 1 \in 1 .. Len(buffer) /\ 2 \in 1 .. Len(buffer) /\ Len(longer) >= 3
      BY <1>1, <1>8
    <2>2. longer[1] = Sync0 /\ longer[2] = Sync1
      BY <1>1, <1>8, <2>1 DEF IsBeginning
    <2>3. bytes = longer
      BY <1>1, <2>1, <2>2, ResyncKeepsMarker
    <2> QED BY <2>1, <2>2, <2>3
  <1>9. ASSUME Len(buffer) >= 2, longer[3] \in Nat, longer[3] <= MaxPayload,
               Len(longer) <= longer[3] + 4
        PROVE  /\ IsBeginning(Feed(b).buffer)
               /\ Feed(b).buffer = longer \/ Feed(b).buffer = <<>>
               /\ Feed(b).result = "OK" =>
                    Feed(b).packet \in Packets /\ Feed(b).packet[Len(Feed(b).packet)] = b
               /\ Feed(b).result = "BAD_CRC" => Feed(b).buffer = <<>> /\ IsRefused(longer)
    <2>1. longer = Resync(Append(buffer, b)) /\ Len(longer) \in Nat
      BY <1>1, <1>8, <1>9 DEF longer
    <2>2. CASE Len(longer) < longer[3] + 4
      <3>1. Feed(b) = [buffer |-> longer, result |-> "BAD_LENGTH", packet |-> <<>>]
        BY <1>0, <1>1, <1>8, <1>9, <2>1, <2>2, FeedOfHeader
      <3>2. IsBeginning(longer)
        BY <1>1, <1>8, <1>9, <2>2 DEF IsBeginning
      <3> QED BY <3>1, <3>2
    <2>3. CASE Len(longer) = longer[3] + 4
      <3>1. Feed(b) = IF longer \in Packets
                      THEN [buffer |-> <<>>, result |-> "OK", packet |-> longer]
                      ELSE [buffer |-> <<>>, result |-> "BAD_CRC", packet |-> <<>>]
        BY <1>0, <1>1, <1>8, <1>9, <2>1, <2>3, FeedOfHeader
      <3>2. longer[Len(longer)] = b
        BY <1>1
      <3>3. longer \notin Packets => IsRefused(longer)
        BY <1>1, <1>8, <1>9, <2>3 DEF IsRefused
      <3> QED BY <3>1, <3>2, <3>3, OneByteBegins
    <2> QED BY <1>9, <2>1, <2>2, <2>3
  <1>10. CASE Len(buffer) = 2
    <2>1. Len(longer) = 3 /\ longer[3] = b
      BY <1>1, <1>10
    <2>2. CASE b <= MaxPayload
      <3>1. Len(longer) <= longer[3] + 4
        BY <2>1
      <3> QED BY <1>9, <1>10, <2>1, <2>2, <3>1 DEF longer
    <2>3. CASE ~(b <= MaxPayload)
      <3>1. TooLong(longer[3]) /\ ~(Len(longer) < HeaderSize)
        BY <2>1, <2>3, StreamConstants DEF TooLong, HeaderSize
      <3>2. WithRoom(buffer) = buffer /\ bytes = longer
        BY <1>8, <1>10 DEF WithRoom
      <3>3. Feed(b) = [buffer |-> Resync(DropPrefix(longer, 1)), result |-> "BAD_LENGTH",
                       packet |-> <<>>]
        BY <3>1, <3>2 DEF Feed, longer
      <3> DEFINE tail == DropPrefix(longer, 1)
      <3>4. tail \in Seq(Nat) /\ Len(tail) = 2 /\ tail[1] = longer[2] /\ tail[2] = longer[3]
        <4>1. 2 \in 1 .. Len(longer) /\ 3 \in 1 .. Len(longer)
          BY <2>1
        <4>2. \A i \in 2 .. 3 : longer[i] \in Nat
          <5>1. \A i \in 1 .. Len(longer) : longer[i] \in Nat
            BY <1>1, ElementOfSeq
          <5> QED BY ONLY <2>1, <5>1
        <4>3. tail = SubSeq(longer, 2, 3)
          BY <2>1 DEF DropPrefix
        <4>4. /\ SubSeq(longer, 2, 3) \in Seq(Nat)
              /\ Len(SubSeq(longer, 2, 3)) = IF 2 <= 3 THEN 3 - 2 + 1 ELSE 0
              /\ \A i \in 1 .. 3 - 2 + 1 : SubSeq(longer, 2, 3)[i] = longer[2 + i - 1]
          BY <4>2, SubSeqProperties
        <4> HIDE DEF tail
        <4> QED BY <4>3, <4>4
      <3> HIDE DEF tail
      <3>5. tail[1] = Sync1 /\ Sync1 # Sync0
        BY <1>8, <1>10, <3>4, StreamConstants
      <3>6. Resync(tail) = <<>> \/ (Resync(tail) = <<Sync0>> /\ b = Sync0)
        BY <2>1, <3>4, <3>5, ResyncOfTwo
      <3>7. Feed(b) = [buffer |-> Resync(tail), result |-> "BAD_LENGTH", packet |-> <<>>]
        BY <3>3 DEF tail
      <3>8. IsBeginning(Resync(tail))
        BY <3>6, OneByteBegins
      <3> QED BY <3>6, <3>7, <3>8
    <2> QED BY <2>2, <2>3
  <1>11. CASE Len(buffer) >= 3
    <2>1. 3 \in 1 .. Len(buffer) /\ Len(buffer) >= 2
      BY <1>1, <1>11
    <2>2. longer[3] = buffer[3] /\ buffer[3] \in Nat
      BY <1>0, <1>1, <2>1
    <2>3. buffer[3] <= MaxPayload /\ Len(buffer) < buffer[3] + 4
      BY <1>11 DEF IsBeginning
    <2>4. Len(longer) <= longer[3] + 4
      BY <1>1, <2>2, <2>3
    <2> QED BY <1>9, <2>1, <2>2, <2>3, <2>4 DEF longer
  <1> QED BY <1>5, <1>6, <1>7, <1>10, <1>11

\* A byte of a packet, after all those before it, is kept; the last one completes it.
LEMMA FeedOfPacket ==
  ASSUME buffer \in Seq(Nat), Len(buffer) < BufferSize, NEW b \in Nat, NEW rest \in Seq(Nat),
         NEW p \in Packets, p = Append(buffer, b) \o rest
  PROVE  Feed(b) = IF rest = <<>>
                   THEN [buffer |-> <<>>, result |-> "OK", packet |-> p]
                   ELSE [buffer |-> Append(buffer, b), result |-> "BAD_LENGTH", packet |-> <<>>]
  <1> DEFINE bytes == Append(buffer, b)
  <1>1. bytes \in Seq(Nat) /\ Len(bytes) = Len(buffer) + 1 /\ Len(buffer) \in Nat
    BY OneByteMore
  <1> HIDE DEF bytes
  <1>2. p = bytes \o rest
    BY DEF bytes
  <1>3. /\ Len(p) = Len(bytes) + Len(rest) /\ Len(rest) \in Nat /\ Len(bytes) \in Nat
        /\ \A i \in 1 .. Len(bytes) + Len(rest) :
             p[i] = IF i <= Len(bytes) THEN bytes[i] ELSE rest[i - Len(bytes)]
    <2>1. /\ Len(bytes \o rest) = Len(bytes) + Len(rest)
          /\ \A i \in 1 .. Len(bytes) + Len(rest) :
               (bytes \o rest)[i] = IF i <= Len(bytes) THEN bytes[i] ELSE rest[i - Len(bytes)]
      BY <1>1, ConcatProperties
    <2>2. Len(rest) \in Nat /\ Len(bytes) \in Nat
      BY <1>1, LenProperties
    <2> QED BY ONLY <1>2, <2>1, <2>2
  <1>4. \A i \in 1 .. Len(bytes) : i \in 1 .. Len(bytes) + Len(rest) /\ i <= Len(bytes)
    BY <1>3
  <1>5. \A i \in 1 .. Len(bytes) : bytes[i] = p[i]
    BY <1>3, <1>4
  <1>6. /\ Len(p) >= 4 /\ p[1] = Sync0 /\ p[2] = Sync1
        /\ p[3] \in Nat /\ p[3] <= MaxPayload /\ Len(p) = p[3] + 4
    BY PacketFacts
  <1>7. rest = <<>> <=> Len(rest) = 0
    BY EmptySeq
  <1>8. Len(bytes) >= 1 /\ 1 \in 1 .. Len(bytes)
    BY <1>1
  <1>9. bytes[1] = Sync0
    BY <1>5, <1>6, <1>8
  <1>10. ASSUME Len(bytes) >= 2
         PROVE  Resync(bytes) = bytes
    <2>1. 2 \in 1 .. Len(bytes)
      BY <1>3, <1>10
    <2>2. bytes[2] = Sync1
      BY <1>5, <1>6, <2>1
    <2> QED BY <1>1, <1>9, <1>10, <2>2, ResyncKeepsMarker
  <1>11. Resync(bytes) = bytes
    <2>1. Len(bytes) \in Nat /\ Len(bytes) # 0
      BY <1>3, <1>8
    <2>2. CASE Len(bytes) = 1
      BY <1>1, <1>9, <2>2, ResyncOfOne
    <2>3. CASE Len(bytes) # 1
      <3> DEFINE n == Len(bytes)
      <3>1. n \in Nat /\ n # 0 /\ n # 1
        BY <2>1, <2>3
      <3> HIDE DEF n
      <3>2. n >= 2
        BY ONLY <3>1
      <3> QED BY <1>10, <3>2 DEF n
    <2> QED BY <2>2, <2>3
  <1>12. CASE Len(bytes) < 3
    <2>1. Feed(b) = [buffer |-> bytes, result |-> "BAD_LENGTH", packet |-> <<>>]
      BY <1>11, <1>12, FeedOfLess DEF bytes
    <2>2. Len(rest) # 0
      BY <1>3, <1>6, <1>12
    <2> QED BY <1>7, <2>1, <2>2 DEF bytes
  <1>13. CASE ~(Len(bytes) < 3)
    <2>1. 3 \in 1 .. Len(bytes) /\ Len(bytes) >= 3
      BY <1>3, <1>13
    <2>2. bytes[3] = p[3]
      BY <1>5, <2>1
    <2>3. bytes = Resync(Append(buffer, b))
      BY <1>11 DEF bytes
    <2>4. CASE rest = <<>>
      <3>1. bytes = p
        BY <1>1, <1>2, <2>4, ConcatEmptySeq
      <3>2. Len(bytes) = bytes[3] + 4 /\ bytes \in Packets /\ bytes[3] <= MaxPayload
        BY <1>6, <3>1
      <3>3. Feed(b) = IF bytes \in Packets
                      THEN [buffer |-> <<>>, result |-> "OK", packet |-> bytes]
                      ELSE [buffer |-> <<>>, result |-> "BAD_CRC", packet |-> <<>>]
        BY <1>1, <2>1, <2>3, <3>2, FeedOfHeader
      <3>4. Feed(b) = [buffer |-> <<>>, result |-> "OK", packet |-> p]
        BY <3>1, <3>2, <3>3
      <3> QED BY <2>4, <3>4
    <2>5. CASE rest # <<>>
      <3>1. Len(bytes) < bytes[3] + 4 /\ bytes[3] <= MaxPayload
        <4>1. Len(rest) \in Nat /\ Len(rest) # 0 /\ Len(bytes) \in Nat
          BY <1>3, <1>7, <2>5
        <4>2. Len(bytes) + Len(rest) = p[3] + 4
          BY <1>3, <1>6
        <4> QED BY ONLY <1>6, <2>2, <4>1, <4>2
      <3>2. Feed(b) = [buffer |-> bytes, result |-> "BAD_LENGTH", packet |-> <<>>]
        BY <1>1, <2>1, <2>3, <3>1, FeedOfHeader
      <3> QED BY <2>5, <3>2 DEF bytes
    <2> QED BY <2>4, <2>5
  <1> QED BY <1>12, <1>13

-----------------------------------------------------------------------------
(* What every step of the stream does to the buffer and to the packets on the way. *)

LEMMA BeginningFits ==
  ASSUME NEW bytes, IsBeginning(bytes)
  PROVE  Len(bytes) < BufferSize
  <1>1. bytes \in Seq(Nat) /\ Len(bytes) \in Nat /\ MaxPayload \in Nat
    BY StreamConstants, LenProperties DEF IsBeginning
  <1>2. BufferSize = MaxPayload + 4
    BY <1>1 DEF BufferSize, PacketSize, HeaderSize, CrcSize
  <1>3. CASE Len(bytes) < 3
    BY <1>1, <1>2, <1>3
  <1>4. CASE ~(Len(bytes) < 3)
    <2>1. bytes[3] <= MaxPayload /\ Len(bytes) < bytes[3] + 4 /\ 3 \in 1 .. Len(bytes)
      BY <1>1, <1>4 DEF IsBeginning
    <2>2. bytes[3] \in Nat
      BY <1>1, <2>1, ElementOfSeq
    <2> QED BY ONLY <1>1, <1>2, <2>1, <2>2
  <1> QED BY <1>3, <1>4

\* What AwaitsOnePacket says of the buffer.
LEMMA AwaitsOnePacketIs ==
  AwaitsOnePacket <=> StreamTypeOK /\ IsBeginning(buffer)
  <1> SUFFICES ASSUME StreamTypeOK
               PROVE  AwaitsOnePacket <=> IsBeginning(buffer)
    BY DEF AwaitsOnePacket
  <1>1. buffer \in Seq(Nat) /\ Len(buffer) \in Nat /\ MaxPayload \in Nat
    BY StreamConstants, LenProperties DEF StreamTypeOK
  <1>2. Len(buffer) >= 3 => PacketSize(buffer[3]) = buffer[3] + 4
    <2> SUFFICES ASSUME Len(buffer) >= 3
                 PROVE  PacketSize(buffer[3]) = buffer[3] + 4
      OBVIOUS
    <2>1. buffer[3] \in Nat
      BY <1>1
    <2> QED BY <2>1 DEF PacketSize, HeaderSize, CrcSize
  <1> QED BY <1>1, <1>2 DEF AwaitsOnePacket, IsBeginning, HeaderSize

\* The bytes the environment has of a packet, in the order they arrive.
LEMMA BytesInOrder ==
  ASSUME NEW front \in Seq(Nat), NEW back \in Seq(Nat), NEW b \in Nat
  PROVE  /\ front \o (<<b>> \o back) = Append(front, b) \o back
         /\ front \o <<b>> = Append(front, b)
         /\ Append(front, b) \in Seq(Nat)
  <1>1. <<b>> \in Seq(Nat)
    OBVIOUS
  <1>2. front \o <<b>> = Append(front, b) /\ Append(front, b) \in Seq(Nat)
    BY AppendIsConcat, AppendProperties
  <1>3. (front \o <<b>>) \o back = front \o (<<b>> \o back)
    BY <1>1, ConcatAssociative
  <1> QED BY <1>2, <1>3

LEMMA Nothing ==
  ASSUME NEW s \in Seq(Nat)
  PROVE  <<>> \o s = s /\ s \o <<>> = s
  BY ConcatEmptySeq

\* The packet that the host has begun last, and the one before, are packets.
LEMMA SentArePackets ==
  ASSUME StreamTypeOK, NEW n \in 1 .. Len(sent)
  PROVE  sent[n] \in Packets /\ sent[n] \in Seq(Nat) /\ sent[n] # <<>>
  <1>1. sent[n] \in Packets
    BY ElementOfSeq DEF StreamTypeOK
  <1>2. sent[n] \in Seq(Nat) /\ Len(sent[n]) >= 4
    BY <1>1, PacketFacts
  <1>3. Len(<<>>) = 0 /\ Len(sent[n]) # 0
    BY <1>2
  <1>4. sent[n] # <<>>
    BY ONLY <1>3
  <1> QED BY <1>1, <1>2, <1>4

LEMMA SendKeepsOrder ==
  ASSUME StreamInv, Send
  PROVE  ArrivesInOrder'
  <1> DEFINE n == Len(delivered)
  <1>1. PICK p \in Packets : line' = p /\ sent' = Append(sent, p)
    BY DEF Send
  <1>2. line = <<>> /\ UNCHANGED <<rx, buffer, delivered, refused, faults>>
    BY DEF Send
  <1>3. StreamTypeOK /\ ArrivesInOrder
    BY DEF StreamInv, AwaitsOnePacket
  <1>4. /\ sent \in Seq(Packets) /\ delivered \in Seq(Packets) /\ rx \in Seq(Nat)
        /\ Len(sent) \in Nat /\ n \in Nat
    BY <1>3, LenProperties DEF StreamTypeOK
  <1>5. p \in Seq(Nat) /\ Len(p) >= 4
    BY PacketFacts
  <1>6. p # <<>>
    <2>1. Len(<<>>) = 0 /\ Len(p) # 0
      BY <1>5
    <2> QED BY ONLY <2>1
  <1>7. Len(sent') = Len(sent) + 1 /\ sent'[Len(sent) + 1] = p
        /\ \A i \in 1 .. Len(sent) : sent'[i] = sent[i]
    BY <1>1, <1>4, AppendProperties
  <1> SUFFICES ASSUME faults = 0
               PROVE  /\ refused = 0 /\ n <= Len(sent') /\ delivered = SubSeq(sent', 1, n)
                      /\ \/ /\ Len(sent') = n + 1 /\ sent'[n + 1] = buffer \o (rx \o line')
                            /\ rx \o line' # <<>>
                         \/ /\ Len(sent') = n + 2 /\ sent'[n + 1] = buffer \o rx /\ rx # <<>>
                            /\ line' = sent'[n + 2]
    BY <1>2 DEF ArrivesInOrder
  <1>8. /\ refused = 0 /\ n <= Len(sent) /\ delivered = SubSeq(sent, 1, n)
        /\ \/ Len(sent) = n /\ line = <<>> /\ rx = <<>> /\ buffer = <<>>
           \/ /\ Len(sent) = n + 1 /\ sent[n + 1] = buffer \o (rx \o line) /\ rx \o line # <<>>
           \/ Len(sent) = n + 2 /\ line = sent[n + 2]
    BY <1>3 DEF ArrivesInOrder
  <1> HIDE DEF n
  <1>9. n <= Len(sent') /\ n \in 0 .. Len(sent)
    BY <1>4, <1>7, <1>8
  <1>10. delivered = SubSeq(sent', 1, n)
    BY <1>1, <1>4, <1>8, <1>9, BeginningOfAppended
  <1>11. CASE Len(sent) = n /\ rx = <<>> /\ buffer = <<>>
    <2>1. rx \o line' = p /\ buffer \o (rx \o line') = p
      BY <1>1, <1>5, <1>11, Nothing
    <2> QED BY <1>6, <1>7, <1>8, <1>9, <1>10, <1>11, <2>1
  <1>12. CASE Len(sent) = n + 1 /\ sent[n + 1] = buffer \o (rx \o line) /\ rx \o line # <<>>
    <2>1. rx \o line = rx
      BY <1>2, <1>4, Nothing
    <2>2. n + 1 \in 1 .. Len(sent)
      BY <1>4, <1>12
    <2>3. sent'[n + 1] = buffer \o rx /\ rx # <<>>
      BY <1>7, <1>12, <2>1, <2>2
    <2>4. Len(sent') = n + 2 /\ line' = sent'[n + 2]
      <3>1. Len(sent) + 1 = n + 2
        BY <1>4, <1>12
      <3> QED BY <1>1, <1>7, <3>1
    <2> QED BY <1>8, <1>9, <1>10, <2>3, <2>4
  <1>13. CASE Len(sent) = n + 2 /\ line = sent[n + 2]
    <2>1. n + 2 \in 1 .. Len(sent)
      BY <1>4, <1>13
    <2>2. sent[n + 2] # <<>>
      BY <1>3, <2>1, SentArePackets
    <2> QED BY <1>2, <1>13, <2>2
  <1> QED BY <1>8, <1>11, <1>12, <1>13

LEMMA ReceiveKeepsOrder ==
  ASSUME StreamInv, Receive
  PROVE  ArrivesInOrder'
  <1> DEFINE n == Len(delivered)
  <1>1. /\ line # <<>> /\ rx = <<>> /\ rx' = <<Head(line)>> /\ line' = Tail(line)
        /\ UNCHANGED <<buffer, sent, delivered, refused, faults>>
    BY DEF Receive
  <1>2. line \in Seq(Nat) /\ buffer \in Seq(Nat) /\ ArrivesInOrder
    BY DEF StreamInv, AwaitsOnePacket, StreamTypeOK
  <1>3. line = <<Head(line)>> \o Tail(line)
    BY <1>1, <1>2, HeadTailProperties
  <1>4. rx' \o line' = line /\ rx \o line = line
    BY <1>1, <1>2, <1>3, Nothing
  <1> SUFFICES ASSUME faults = 0
               PROVE  /\ refused = 0 /\ n <= Len(sent) /\ delivered = SubSeq(sent, 1, n)
                      /\ Len(sent) = n + 1 /\ sent[n + 1] = buffer \o (rx' \o line')
                      /\ rx' \o line' # <<>>
    BY <1>1 DEF ArrivesInOrder
  <1>5. /\ refused = 0 /\ n <= Len(sent) /\ delivered = SubSeq(sent, 1, n)
        /\ \/ line = <<>>
           \/ /\ Len(sent) = n + 1 /\ sent[n + 1] = buffer \o (rx \o line) /\ rx \o line # <<>>
           \/ rx # <<>>
    BY <1>2 DEF ArrivesInOrder
  <1> QED BY <1>1, <1>4, <1>5

LEMMA PollKeepsOrder ==
  ASSUME StreamInv, PollUart
  PROVE  ArrivesInOrder'
  <1> DEFINE n == Len(delivered)
             b == rx[1]
             turn == Feed(b)
  <1>1. /\ rx # <<>> /\ rx' = <<>> /\ buffer' = turn.buffer
        /\ delivered' = IF turn.result = "OK" THEN Append(delivered, turn.packet) ELSE delivered
        /\ refused' = IF turn.result = "BAD_CRC" THEN refused + 1 ELSE refused
        /\ UNCHANGED <<line, sent, faults>>
    BY DEF PollUart
  <1>2. StreamTypeOK /\ ArrivesInOrder
    BY DEF StreamInv, AwaitsOnePacket
  <1>3. /\ buffer \in Seq(Nat) /\ Len(buffer) < BufferSize /\ line \in Seq(Nat)
        /\ rx \in Seq(Nat) /\ Len(rx) <= 1
        /\ sent \in Seq(Packets) /\ delivered \in Seq(Packets)
    BY <1>2 DEF StreamTypeOK
  <1>4. Len(sent) \in Nat /\ n \in Nat
    BY <1>3, LenProperties
  <1>5. Len(rx) = 1
    <2> DEFINE k == Len(rx)
    <2>1. k \in Nat /\ k # 0 /\ k <= 1
      BY <1>1, <1>3, LenProperties, EmptySeq
    <2> HIDE DEF k
    <2>2. k = 1
      BY ONLY <2>1
    <2> QED BY <2>2 DEF k
  <1>6. b \in Nat /\ rx = <<b>>
    <2>1. 1 \in 1 .. Len(rx)
      BY <1>5
    <2> QED BY <1>3, <1>5, <2>1, SingletonIsItsElement, ElementOfSeq
  <1> HIDE DEF b
  <1> SUFFICES ASSUME faults = 0
               PROVE  LET m == Len(delivered') IN
                      /\ refused' = 0 /\ m <= Len(sent) /\ delivered' = SubSeq(sent, 1, m)
                      /\ \/ Len(sent) = m /\ line = <<>> /\ buffer' = <<>>
                         \/ /\ Len(sent) = m + 1 /\ sent[m + 1] = buffer' \o (<<>> \o line)
                            /\ <<>> \o line # <<>>
    BY <1>1 DEF ArrivesInOrder
  <1>7. /\ refused = 0 /\ n <= Len(sent) /\ delivered = SubSeq(sent, 1, n)
        /\ \/ rx = <<>>
           \/ Len(sent) = n + 1 /\ sent[n + 1] = buffer \o (rx \o line)
           \/ Len(sent) = n + 2 /\ sent[n + 1] = buffer \o rx /\ line = sent[n + 2]
    BY <1>2 DEF ArrivesInOrder
  <1> HIDE DEF turn
  <1>8. /\ buffer \o (rx \o line) = Append(buffer, b) \o line
        /\ buffer \o rx = Append(buffer, b) /\ Append(buffer, b) \in Seq(Nat)
    BY <1>3, <1>6, BytesInOrder
  <1>9. ASSUME Len(sent) > n, turn = [buffer |-> <<>>, result |-> "OK", packet |-> sent[n + 1]]
        PROVE  /\ refused' = 0 /\ delivered' = SubSeq(sent, 1, n + 1) /\ Len(delivered') = n + 1
               /\ buffer' = <<>>
    <2>1. n < Len(sent) /\ n + 1 \in 1 .. Len(sent)
      BY <1>4, <1>9
    <2>2. Append(SubSeq(sent, 1, n), sent[n + 1]) = SubSeq(sent, 1, n + 1)
      BY <1>3, <1>4, <2>1, LongerBeginning
    <2>3. sent[n + 1] \in Packets
      BY <1>3, <2>1, ElementOfSeq
    <2>4. Len(Append(delivered, sent[n + 1])) = n + 1
      BY <1>3, <2>3, AppendProperties
    <2> QED BY <1>1, <1>7, <1>9, <2>2, <2>4
  <1>10. CASE Len(sent) = n + 1 /\ sent[n + 1] = buffer \o (rx \o line)
    <2>1. n + 1 \in 1 .. Len(sent) /\ Len(sent) > n
      BY <1>4, <1>10
    <2>2. sent[n + 1] \in Packets
      BY <1>2, <2>1, SentArePackets
    <2>3. turn = IF line = <<>>
                THEN [buffer |-> <<>>, result |-> "OK", packet |-> sent[n + 1]]
                ELSE [buffer |-> Append(buffer, b), result |-> "BAD_LENGTH", packet |-> <<>>]
      BY <1>3, <1>6, <1>8, <1>10, <2>2, FeedOfPacket DEF turn
    <2>4. CASE line = <<>>
      <3>1. /\ refused' = 0 /\ delivered' = SubSeq(sent, 1, n + 1) /\ Len(delivered') = n + 1
            /\ buffer' = <<>>
        BY <1>9, <2>1, <2>3, <2>4
      <3>2. n + 1 <= Len(sent)
        BY <1>4, <1>10
      <3> QED BY <1>10, <2>4, <3>1, <3>2
    <2>5. CASE line # <<>>
      <3>1. buffer' = Append(buffer, b) /\ delivered' = delivered /\ refused' = 0
        BY <1>1, <1>7, <2>3, <2>5
      <3>2. <<>> \o line = line
        BY <1>3, Nothing
      <3>3. sent[n + 1] = buffer' \o (<<>> \o line)
        BY <1>8, <1>10, <3>1, <3>2
      <3> QED BY <1>7, <1>10, <2>5, <3>1, <3>2, <3>3
    <2> QED BY <2>4, <2>5
  <1>11. CASE Len(sent) = n + 2 /\ sent[n + 1] = buffer \o rx /\ line = sent[n + 2]
    <2>1. n + 1 \in 1 .. Len(sent) /\ n + 2 \in 1 .. Len(sent) /\ Len(sent) > n
      BY <1>4, <1>11
    <2>2. sent[n + 1] \in Packets /\ sent[n + 2] # <<>>
      BY <1>2, <2>1, SentArePackets
    <2>3. sent[n + 1] = Append(buffer, b) \o <<>>
      BY <1>8, <1>11, Nothing
    <2>4. turn = [buffer |-> <<>>, result |-> "OK", packet |-> sent[n + 1]]
      <3>1. <<>> \in Seq(Nat)
        OBVIOUS
      <3> QED BY <1>3, <1>6, <2>2, <2>3, <3>1, FeedOfPacket DEF turn
    <2>5. /\ refused' = 0 /\ delivered' = SubSeq(sent, 1, n + 1) /\ Len(delivered') = n + 1
          /\ buffer' = <<>>
      BY <1>9, <2>1, <2>4
    <2>6. <<>> \o line = line /\ buffer' \o (<<>> \o line) = line
      BY <1>3, <2>5, Nothing
    <2>7. Len(sent) = (n + 1) + 1 /\ n + 1 <= Len(sent) /\ (n + 1) + 1 = n + 2
      BY <1>4, <1>11
    <2>8. sent[(n + 1) + 1] = line
      BY <1>11, <2>7
    <2> QED BY <1>11, <2>2, <2>5, <2>6, <2>7, <2>8
  <1> QED BY <1>1, <1>7, <1>10, <1>11

LEMMA StreamInitInv == StreamInit => StreamInv
  <1> SUFFICES ASSUME StreamInit PROVE StreamInv
    OBVIOUS
  <1>1. /\ line = <<>> /\ rx = <<>> /\ buffer = <<>> /\ sent = <<>> /\ delivered = <<>>
        /\ refused = 0 /\ faults = 0 /\ claims = 0 /\ calm = 0 /\ due = FALSE
    BY DEF StreamInit
  <1>2. IsBeginning(buffer) /\ Len(buffer) < BufferSize
    BY <1>1, OneByteBegins, BeginningFits
  <1>3. /\ <<>> \in Seq(Nat) /\ <<>> \in Seq(Packets) /\ Len(<<>>) = 0
        /\ SubSeq(<<>>, 1, 0) = <<>>
    OBVIOUS
  <1>4. 0 <= MaxPackets /\ 0 \in 0 .. MaxFaults /\ 0 <= 1 /\ 0 \in Nat /\ 0 <= 0
    BY StreamConstants
  <1>5. StreamTypeOK
    BY <1>1, <1>2, <1>3, <1>4 DEF StreamTypeOK
  <1>6. ArrivesInOrder
    BY <1>1, <1>3, <1>4 DEF ArrivesInOrder
  <1> QED BY <1>2, <1>5, <1>6, AwaitsOnePacketIs DEF StreamInv

LEMMA FalseHeadersAreFinite ==
  ASSUME NEW p \in Packets
  PROVE  IsFiniteSet(FalseHeaders(p)) /\ Cardinality(FalseHeaders(p)) \in Nat
  <1>1. IsFiniteSet(2 .. Len(p) - 1)
    BY PacketFacts, FS_Interval
  <1>2. FalseHeaders(p) \in SUBSET (2 .. Len(p) - 1)
    BY DEF FalseHeaders
  <1> QED BY <1>1, <1>2, FS_Subset, FS_CardinalityType

\* The types, and the buffer the beginning of a packet, after every step.
LEMMA StepAwaitsOnePacket ==
  ASSUME AwaitsOnePacket, StreamNext
  PROVE  AwaitsOnePacket'
  <1>1. StreamTypeOK /\ IsBeginning(buffer)
    BY AwaitsOnePacketIs
  <1>2. /\ line \in Seq(Nat) /\ rx \in Seq(Nat) /\ Len(rx) <= 1
        /\ buffer \in Seq(Nat) /\ Len(buffer) < BufferSize
        /\ sent \in Seq(Packets) /\ delivered \in Seq(Packets) /\ Len(sent) <= MaxPackets
        /\ faults \in 0 .. MaxFaults /\ refused \in Nat
        /\ claims \in Nat /\ calm \in Nat /\ due \in BOOLEAN
    BY <1>1 DEF StreamTypeOK
  <1>3. AwaitsOnePacket' <=> StreamTypeOK' /\ IsBeginning(buffer)'
    BY AwaitsOnePacketIs, PTL
  <1>4. \A v \in Nat : <<v>> \in Seq(Nat) /\ Len(<<v>>) = 1
    OBVIOUS
  <1>5. <<>> \in Seq(Nat) /\ Len(<<>>) <= 1
    OBVIOUS
  <1>6. line # <<>> => Head(line) \in Nat /\ Tail(line) \in Seq(Nat)
    BY <1>2, HeadTailProperties
  <1>7. ASSUME Disturb
        PROVE  /\ faults' \in 0 .. MaxFaults
               /\ claims' \in Nat /\ calm' \in Nat /\ due' \in BOOLEAN
    <2>1. /\ faults' = faults + 1 /\ faults < MaxFaults /\ claims' = claims
          /\ calm' = 0 /\ due' = FALSE
      BY <1>7 DEF Disturb
    <2>2. due' \in BOOLEAN
      BY ONLY <2>1
    <2>3. faults' \in 0 .. MaxFaults /\ claims' \in Nat /\ calm' \in Nat
      BY <1>2, <2>1, StreamConstants
    <2> QED BY <2>2, <2>3
  <1>8. CASE Send
    <2>1. PICK p \in Packets :
            /\ line' = p /\ sent' = Append(sent, p)
            /\ claims' = claims + Cardinality(FalseHeaders(p))
            /\ calm' = IF Plain(p) THEN calm + Len(p) ELSE 0
      BY <1>8 DEF Send
    <2>2. /\ UNCHANGED <<rx, buffer, delivered, refused, faults>> /\ Len(sent) < MaxPackets
      BY <1>8 DEF Send
    <2>3. p \in Seq(Nat) /\ Len(p) \in Nat /\ Cardinality(FalseHeaders(p)) \in Nat
      BY PacketFacts, FalseHeadersAreFinite
    <2>4. sent' \in Seq(Packets) /\ Len(sent') = Len(sent) + 1 /\ Len(sent) \in Nat
      BY <1>2, <2>1, AppendProperties, LenProperties
    <2>5. Len(sent') <= MaxPackets
      BY <2>2, <2>4, StreamConstants
    <2>6. claims' \in Nat /\ calm' \in Nat
      <3> DEFINE n == Len(p)
                 c == Cardinality(FalseHeaders(p))
      <3>1. n \in Nat /\ c \in Nat
        BY <2>3
      <3>2. claims' = claims + c /\ (calm' = calm + n \/ calm' = 0)
        BY <2>1
      <3> HIDE DEF n, c
      <3> QED BY <1>2, <3>1, <3>2
    <2>7. due' \in BOOLEAN
      <3>1. due' = (due \/ calm >= BufferSize)
        BY <1>8 DEF Send
      <3> QED BY <3>1
    <2>8. StreamTypeOK'
      BY <1>2, <2>1, <2>2, <2>3, <2>4, <2>5, <2>6, <2>7 DEF StreamTypeOK
    <2> QED BY <1>1, <1>3, <2>2, <2>8 DEF IsBeginning
  <1>9. CASE Receive
    <2>1. /\ line # <<>> /\ rx' = <<Head(line)>> /\ line' = Tail(line)
          /\ UNCHANGED <<buffer, sent, delivered, refused, faults, claims, calm, due>>
      BY <1>9 DEF Receive, traffic
    <2>2. rx' \in Seq(Nat) /\ Len(rx') <= 1 /\ line' \in Seq(Nat)
      BY <1>4, <1>6, <2>1
    <2>3. StreamTypeOK'
      BY <1>2, <2>1, <2>2 DEF StreamTypeOK
    <2> QED BY <1>1, <1>3, <2>1, <2>3 DEF IsBeginning
  <1>10. CASE Overrun
    <2>1. /\ line # <<>> /\ line' = Tail(line) /\ Disturb
          /\ UNCHANGED <<rx, buffer, sent, delivered, refused>>
      BY <1>10 DEF Overrun
    <2>2. StreamTypeOK'
      BY <1>2, <1>6, <1>7, <2>1 DEF StreamTypeOK
    <2> QED BY <1>1, <1>3, <2>1, <2>2 DEF IsBeginning
  <1>11. CASE Noise
    <2>1. PICK b \in NoiseBytes : rx' = <<b>>
      BY <1>11 DEF Noise
    <2>2. Disturb /\ UNCHANGED <<line, buffer, sent, delivered, refused>>
      BY <1>11 DEF Noise
    <2>3. rx' \in Seq(Nat) /\ Len(rx') <= 1
      BY <1>4, <2>1, StreamConstants
    <2>4. StreamTypeOK'
      BY <1>2, <1>7, <2>2, <2>3 DEF StreamTypeOK
    <2> QED BY <1>1, <1>3, <2>2, <2>4 DEF IsBeginning
  <1>12. CASE PollUart
    <2> DEFINE turn == Feed(rx[1])
    <2>1. /\ rx # <<>> /\ rx' = <<>> /\ buffer' = turn.buffer
          /\ delivered' = IF turn.result = "OK" THEN Append(delivered, turn.packet) ELSE delivered
          /\ refused' = IF turn.result = "BAD_CRC" THEN refused + 1 ELSE refused
          /\ UNCHANGED <<line, sent, faults, claims, calm, due>>
      BY <1>12 DEF PollUart, traffic
    <2>2. rx[1] \in Nat
      <3>1. Head(rx) \in Nat /\ Head(rx) = rx[1]
        BY <1>2, <2>1, HeadTailProperties
      <3> QED BY <3>1
    <2>3. IsBeginning(turn.buffer) /\ (turn.result = "OK" => turn.packet \in Packets)
      BY <1>1, <1>2, <2>2, FeedKeepsBeginning
    <2> HIDE DEF turn
    <2>4. IsBeginning(buffer')
      BY <2>1, <2>3
    <2>5. buffer' \in Seq(Nat) /\ Len(buffer') < BufferSize
      BY <2>4, BeginningFits DEF IsBeginning
    <2>6. delivered' \in Seq(Packets)
      BY <1>2, <2>1, <2>3, AppendProperties
    <2>7. refused' \in Nat
      BY <1>2, <2>1
    <2>8. StreamTypeOK'
      BY <1>2, <1>5, <2>1, <2>5, <2>6, <2>7 DEF StreamTypeOK
    <2>9. IsBeginning(buffer)'
      BY <2>4 DEF IsBeginning
    <2> QED BY <1>3, <2>8, <2>9
  <1> QED BY <1>8, <1>9, <1>10, <1>11, <1>12 DEF StreamNext

LEMMA StreamStepInv == StreamInv /\ [StreamNext]_streamVars => StreamInv'
  <1> SUFFICES ASSUME StreamInv, [StreamNext]_streamVars
               PROVE  StreamInv'
    OBVIOUS
  <1>1. ASSUME UNCHANGED streamVars
        PROVE  StreamInv'
    BY <1>1 DEF streamVars, traffic, StreamInv, AwaitsOnePacket, StreamTypeOK, ArrivesInOrder
  <1>2. ASSUME StreamNext
        PROVE  StreamInv'
    <2>1. AwaitsOnePacket'
      BY <1>2, StepAwaitsOnePacket DEF StreamInv
    <2>2. ASSUME Disturb
          PROVE  ArrivesInOrder'
      <3>1. faults \in Nat /\ faults' = faults + 1
        BY <2>2, StreamConstants DEF Disturb, StreamInv, AwaitsOnePacket, StreamTypeOK
      <3>2. faults' # 0
        BY <3>1
      <3> QED BY <3>2 DEF ArrivesInOrder
    <2>3. ArrivesInOrder'
      BY <1>2, <2>2, SendKeepsOrder, ReceiveKeepsOrder, PollKeepsOrder
      DEF StreamNext, Overrun, Noise
    <2> QED BY <2>1, <2>3 DEF StreamInv
  <1> QED BY <1>1, <1>2

-----------------------------------------------------------------------------
(* The bytes of a packet that are still to come. *)

LEMMA ConcatFacts ==
  ASSUME NEW x \in Seq(Nat), NEW y \in Seq(Nat)
  PROVE  /\ x \o y \in Seq(Nat) /\ Len(x \o y) = Len(x) + Len(y) /\ Len(x) \in Nat /\ Len(y) \in Nat
         /\ \A i \in 1 .. Len(x) : (x \o y)[i] = x[i]
         /\ \A i \in 1 .. Len(y) : (x \o y)[Len(x) + i] = y[i]
  <1>1. /\ x \o y \in Seq(Nat) /\ Len(x \o y) = Len(x) + Len(y)
        /\ \A i \in 1 .. Len(x) + Len(y) :
             (x \o y)[i] = IF i <= Len(x) THEN x[i] ELSE y[i - Len(x)]
    BY ConcatProperties
  <1>2. Len(x) \in Nat /\ Len(y) \in Nat
    BY LenProperties
  <1> DEFINE z == x \o y
  <1>3. \A i \in 1 .. Len(x) + Len(y) : z[i] = IF i <= Len(x) THEN x[i] ELSE y[i - Len(x)]
    BY <1>1
  <1> HIDE DEF z
  <1>4. ASSUME NEW i \in 1 .. Len(x) PROVE z[i] = x[i]
    <2>1. i \in 1 .. Len(x) + Len(y) /\ i <= Len(x)
      BY <1>2
    <2> QED BY <1>3, <2>1
  <1>5. ASSUME NEW i \in 1 .. Len(y) PROVE z[Len(x) + i] = y[i]
    <2>1. Len(x) + i \in 1 .. Len(x) + Len(y) /\ ~(Len(x) + i <= Len(x)) /\ (Len(x) + i) - Len(x) = i
      BY <1>2
    <2> QED BY <1>3, <2>1
  <1> QED BY <1>1, <1>2, <1>4, <1>5 DEF z

LEMMA ConcatOfThree ==
  ASSUME NEW x \in Seq(Nat), NEW y \in Seq(Nat), NEW z \in Seq(Nat)
  PROVE  x \o (y \o z) = (x \o y) \o z /\ x \o y \in Seq(Nat) /\ x \o (y \o z) \in Seq(Nat)
  <1>1. x \o y \in Seq(Nat) /\ y \o z \in Seq(Nat)
    BY ConcatFacts
  <1>2. x \o (y \o z) \in Seq(Nat)
    BY <1>1, ConcatFacts
  <1>3. (x \o y) \o z = x \o (y \o z)
    <2>1. x \in Seq(Nat) /\ y \in Seq(Nat) /\ z \in Seq(Nat)
      OBVIOUS
    <2> QED BY ONLY <2>1, ConcatAssociative, SMTT(60)
  <1> QED BY <1>1, <1>2, <1>3

\* x is an end of p.
EndOf(x, p) ==
  Len(x) <= Len(p) /\ \A i \in 1 .. Len(x) : x[i] = p[Len(p) - Len(x) + i]

LEMMA EndOfTail ==
  ASSUME NEW b \in Nat, NEW r \in Seq(Nat), NEW p \in Seq(Nat), EndOf(<<b>> \o r, p)
  PROVE  /\ EndOf(r, p) /\ Len(r) < Len(p) /\ p[Len(p) - Len(r)] = b
         /\ Len(r) + 1 = Len(p) => <<b>> \o r = p
         /\ r # <<>> => r[1] = p[Len(p) - Len(r) + 1]
  <1> DEFINE x == <<b>> \o r
  <1>1. /\ x \in Seq(Nat) /\ Len(x) = Len(r) + 1 /\ Len(r) \in Nat /\ Len(p) \in Nat
        /\ x[1] = b /\ \A i \in 1 .. Len(r) : x[i + 1] = r[i]
    <2>1. /\ <<b>> \in Seq(Nat) /\ Len(<<b>>) = 1 /\ <<b>>[1] = b
      OBVIOUS
    <2> DEFINE one == <<b>>
    <2> HIDE DEF one
    <2>2. /\ one \o r \in Seq(Nat) /\ Len(one \o r) = Len(one) + Len(r)
          /\ \A i \in 1 .. Len(one) + Len(r) :
               (one \o r)[i] = IF i <= Len(one) THEN one[i] ELSE r[i - Len(one)]
      BY <2>1, ConcatProperties DEF one
    <2>3. one \in Seq(Nat) /\ Len(one) = 1 /\ one[1] = b /\ x = one \o r
      BY <2>1 DEF one
    <2> HIDE DEF x
    <2>4. Len(r) \in Nat /\ Len(p) \in Nat
      BY LenProperties
    <2>5. \A i \in 1 .. Len(r) : i + 1 \in 1 .. 1 + Len(r) /\ ~(i + 1 <= 1) /\ (i + 1) - 1 = i
      BY <2>4
    <2>6. 1 \in 1 .. 1 + Len(r)
      BY <2>4
    <2> QED BY <2>2, <2>3, <2>4, <2>5, <2>6
  <1> HIDE DEF x
  <1>2. Len(x) <= Len(p) /\ \A i \in 1 .. Len(x) : x[i] = p[Len(p) - Len(x) + i]
    BY DEF EndOf, x
  <1>3. EndOf(r, p) /\ Len(r) < Len(p)
    <2>1. Len(r) < Len(p)
      BY <1>1, <1>2
    <2>2. ASSUME NEW i \in 1 .. Len(r)
          PROVE  r[i] = p[Len(p) - Len(r) + i]
      <3>1. i + 1 \in 1 .. Len(x) /\ Len(p) - Len(x) + (i + 1) = Len(p) - Len(r) + i
        BY <1>1
      <3> QED BY <1>1, <1>2, <3>1
    <2> QED BY <1>1, <2>1, <2>2 DEF EndOf
  <1>4. p[Len(p) - Len(r)] = b
    <2>1. 1 \in 1 .. Len(x) /\ Len(p) - Len(x) + 1 = Len(p) - Len(r)
      BY <1>1
    <2> QED BY <1>1, <1>2, <2>1
  <1>5. ASSUME Len(r) + 1 = Len(p)
        PROVE  x = p
    <2>1. Len(x) = Len(p)
      BY <1>1, <1>5
    <2>2. \A i \in 1 .. Len(x) : x[i] = p[i]
      <3>1. Len(x) \in Nat
        BY <1>1
      <3>2. \A i \in 1 .. Len(x) : Len(p) - Len(x) + i = i
        BY ONLY <2>1, <3>1
      <3> QED BY <1>2, <3>2
    <2> QED BY <1>1, <2>1, <2>2, SeqEqual
  <1>6. ASSUME r # <<>>
        PROVE  r[1] = p[Len(p) - Len(r) + 1]
    <2>1. Len(r) # 0
      BY <1>6, EmptySeq
    <2>2. 1 \in 1 .. Len(r)
      BY <1>1, <2>1
    <2> QED BY <1>3, <2>2 DEF EndOf
  <1> QED BY <1>3, <1>4, <1>5, <1>6 DEF x

\* A byte that makes no marker with what is in the buffer.
LEMMA FeedOfTail ==
  ASSUME IsBeginning(buffer), Len(buffer) <= 1, NEW b \in Nat, buffer = <<>> \/ b # Sync1
  PROVE  Feed(b) = [buffer |-> IF b = Sync0 THEN <<Sync0>> ELSE <<>>,
                    result |-> "BAD_LENGTH", packet |-> <<>>]
  <1> DEFINE longer == Append(buffer, b)
  <1>1. /\ longer \in Seq(Nat) /\ Len(longer) = Len(buffer) + 1 /\ Len(buffer) \in Nat
        /\ \A i \in 1 .. Len(buffer) : longer[i] = buffer[i]
        /\ longer[Len(buffer) + 1] = b /\ buffer \in Seq(Nat) /\ Len(buffer) < BufferSize
    BY OneByteMore, BeginningFits DEF IsBeginning
  <1> HIDE DEF longer
  <1>2. Resync(longer) = IF b = Sync0 THEN <<Sync0>> ELSE <<>>
    <2>1. CASE Len(buffer) = 0
      <3>1. Len(longer) = 1 /\ longer[1] = b
        BY <1>1, <2>1
      <3>2. longer = <<b>>
        BY <1>1, <3>1, SingletonIsItsElement
      <3> QED BY <1>1, <3>1, <3>2, ResyncOfOne
    <2>2. CASE Len(buffer) = 1
      <3>1. Len(longer) = 2 /\ longer[2] = b
        BY <1>1, <2>2
      <3>2. buffer # <<>>
        <4>1. Len(<<>>) = 0
          OBVIOUS
        <4> QED BY <2>2, <4>1
      <3> QED BY <1>1, <3>1, <3>2, ResyncOfTwo
    <2>3. Len(buffer) = 0 \/ Len(buffer) = 1
      <3> DEFINE k == Len(buffer)
      <3>1. k \in Nat /\ k <= 1
        BY <1>1
      <3> HIDE DEF k
      <3>2. k = 0 \/ k = 1
        BY ONLY <3>1
      <3> QED BY <3>2 DEF k
    <2> QED BY <2>1, <2>2, <2>3
  <1>3. Len(Resync(longer)) < 3
    <2>1. Len(<<>>) = 0 /\ Len(<<Sync0>>) = 1
      OBVIOUS
    <2> QED BY ONLY <1>2, <2>1
  <1>4. Feed(b) = [buffer |-> Resync(longer), result |-> "BAD_LENGTH", packet |-> <<>>]
    BY <1>1, <1>3, FeedOfLess DEF longer
  <1> QED BY <1>2, <1>4

LEMMA EndOfRest ==
  ASSUME NEW x \in Seq(Nat), NEW y \in Seq(Nat), NEW p \in Seq(Nat), EndOf(x \o y, p)
  PROVE  EndOf(y, p) /\ Len(y) <= Len(x \o y)
  <1> DEFINE z == x \o y
             n == Len(x)
             m == Len(y)
             k == Len(p)
  <1>1. /\ Len(z) = n + m /\ n \in Nat /\ m \in Nat /\ k \in Nat
        /\ \A i \in 1 .. m : z[n + i] = y[i]
    BY ConcatFacts, LenProperties
  <1>2. Len(z) <= k /\ \A i \in 1 .. Len(z) : z[i] = p[k - Len(z) + i]
    BY DEF EndOf
  <1> HIDE DEF z, n, k
  <1>3. ASSUME NEW i \in 1 .. m
        PROVE  y[i] = p[k - m + i]
    <2>1. n + i \in 1 .. Len(z) /\ k - Len(z) + (n + i) = k - m + i
      BY <1>1
    <2> QED BY <1>1, <1>2, <2>1
  <1>4. m <= k /\ m <= Len(z)
    BY <1>1, <1>2
  <1> QED BY <1>3, <1>4 DEF EndOf, k, z

LEMMA StreamTypes ==
  ASSUME StreamInv
  PROVE  /\ StreamTypeOK /\ IsBeginning(buffer)
         /\ buffer \in Seq(Nat) /\ line \in Seq(Nat) /\ rx \in Seq(Nat) /\ Len(rx) <= 1
         /\ Len(buffer) \in Nat /\ Len(line) \in Nat /\ Len(rx) \in Nat
         /\ Len(buffer) < BufferSize /\ BufferSize \in Nat
         /\ sent \in Seq(Packets) /\ delivered \in Seq(Packets)
         /\ refused \in Nat /\ faults \in Nat /\ claims \in Nat /\ calm \in Nat
         /\ rx \o line \in Seq(Nat) /\ buffer \o (rx \o line) \in Seq(Nat)
  <1>1. StreamTypeOK /\ IsBeginning(buffer)
    BY AwaitsOnePacketIs DEF StreamInv
  <1>2. /\ buffer \in Seq(Nat) /\ line \in Seq(Nat) /\ rx \in Seq(Nat) /\ Len(rx) <= 1
        /\ Len(buffer) < BufferSize /\ sent \in Seq(Packets) /\ delivered \in Seq(Packets)
        /\ refused \in Nat /\ faults \in Nat /\ claims \in Nat /\ calm \in Nat
    BY <1>1, StreamConstants DEF StreamTypeOK
  <1>3. BufferSize \in Nat
    BY StreamConstants DEF BufferSize, PacketSize, HeaderSize, CrcSize
  <1>4. rx \o line \in Seq(Nat) /\ buffer \o (rx \o line) \in Seq(Nat)
    BY <1>2, ConcatProperties
  <1> QED BY <1>1, <1>2, <1>3, <1>4, LenProperties

\* The byte that is polled.
LEMMA PolledByte ==
  ASSUME StreamInv, rx # <<>>
  PROVE  rx[1] \in Nat /\ rx = <<rx[1]>> /\ Len(rx) = 1
  <1>1. rx \in Seq(Nat) /\ Len(rx) \in Nat /\ Len(rx) # 0 /\ Len(rx) <= 1
    BY StreamTypes, EmptySeq
  <1> DEFINE k == Len(rx)
  <1>2. k \in Nat /\ k # 0 /\ k <= 1
    BY <1>1
  <1> HIDE DEF k
  <1>3. k = 1
    BY ONLY <1>2
  <1>4. Len(rx) = 1 /\ 1 \in 1 .. Len(rx)
    BY <1>3 DEF k
  <1> QED BY <1>1, <1>4, SingletonIsItsElement, ElementOfSeq

\* What the host has still to send is the end of the packet it sends.
LineInv == line # <<>> => sent # <<>> /\ EndOf(line, sent[Len(sent)])

LEMMA WholeIsItsEnd ==
  ASSUME NEW p \in Packets
  PROVE  EndOf(p, p)
  <1>1. Len(p) \in Nat
    BY PacketFacts
  <1>2. Len(p) <= Len(p) /\ \A i \in 1 .. Len(p) : Len(p) - Len(p) + i = i
    BY <1>1
  <1> QED BY <1>2 DEF EndOf

LEMMA LastSent ==
  ASSUME StreamInv, sent # <<>>
  PROVE  /\ Len(sent) \in 1 .. Len(sent) /\ sent[Len(sent)] \in Packets
         /\ sent[Len(sent)] \in Seq(Nat) /\ sent[Len(sent)] # <<>>
  <1>1. Len(sent) \in Nat /\ Len(sent) # 0 /\ StreamTypeOK
    BY StreamTypes, EmptySeq, LenProperties
  <1>2. Len(sent) \in 1 .. Len(sent)
    BY <1>1
  <1> QED BY <1>1, <1>2, SentArePackets

\* A packet more is the last one then.
LEMMA SendsLast ==
  ASSUME StreamInv, NEW p \in Packets, sent' = Append(sent, p)
  PROVE  sent' # <<>> /\ sent'[Len(sent')] = p
  <1>1. sent \in Seq(Packets)
    BY StreamTypes
  <1>2. /\ Len(sent) \in Nat /\ sent' \in Seq(Packets) /\ Len(sent') = Len(sent) + 1
        /\ sent'[Len(sent) + 1] = p
    BY <1>1, AppendProperties, LenProperties
  <1> QED BY <1>2, EmptySeq

\* One byte less of the line.
LEMMA TailOfEnd ==
  ASSUME StreamInv, line # <<>>, NEW p \in Packets, EndOf(line, p)
  PROVE  EndOf(Tail(line), p)
  <1>1. line \in Seq(Nat) /\ p \in Seq(Nat)
    BY StreamTypes, PacketFacts
  <1> DEFINE h == Head(line)
             t == Tail(line)
  <1>2. h \in Nat /\ t \in Seq(Nat) /\ line = <<h>> \o t
    BY <1>1, HeadTailProperties
  <1> HIDE DEF h, t
  <1>3. EndOf(t, p)
    BY <1>1, <1>2, EndOfTail
  <1> QED BY <1>3 DEF t

LEMMA LineInvariant == StreamSpec => []LineInv
  <1>1. StreamInit => LineInv
    BY DEF StreamInit, LineInv
  <1>2. StreamInv /\ LineInv /\ [StreamNext]_streamVars => LineInv'
    <2> SUFFICES ASSUME StreamInv, LineInv, [StreamNext]_streamVars
                 PROVE  LineInv'
      OBVIOUS
    <2>1. CASE UNCHANGED <<line, sent>>
      BY <2>1 DEF LineInv
    <2>2. CASE Send
      <3>1. PICK p \in Packets : line' = p /\ sent' = Append(sent, p)
        BY <2>2 DEF Send
      <3>2. sent' # <<>> /\ sent'[Len(sent')] = p
        BY <3>1, SendsLast
      <3> QED BY <3>1, <3>2, WholeIsItsEnd DEF LineInv
    <2>3. CASE line # <<>> /\ line' = Tail(line) /\ UNCHANGED sent
      <3>1. sent # <<>> /\ EndOf(line, sent[Len(sent)])
        BY <2>3 DEF LineInv
      <3>2. EndOf(line', sent'[Len(sent')])
        BY <2>3, <3>1, LastSent, TailOfEnd
      <3> QED BY <2>3, <3>1, <3>2 DEF LineInv
    <2> QED BY <2>1, <2>2, <2>3 DEF StreamNext, streamVars, Receive, Overrun, Noise, PollUart
  <1>3. StreamSpec => []StreamInv
    BY StreamInitInv, StreamStepInv, PTL DEF StreamSpec
  <1> QED BY <1>1, <1>2, <1>3, PTL DEF StreamSpec

-----------------------------------------------------------------------------
(* Answers that refuse a packet. *)

\* A packet begins at i and is all there.
Whole(bytes, i) ==
  \E p \in Packets : Len(p) <= Len(bytes) - i + 1 /\ \A j \in 1 .. Len(p) : bytes[i + j - 1] = p[j]

\* The markers for which the parser may yet refuse something.
Doubtful(bytes) ==
  {i \in 1 .. Len(bytes) : /\ SyncAt(bytes, i)
                           /\ i + 2 <= Len(bytes) => bytes[i + 2] <= MaxPayload
                           /\ ~Whole(bytes, i)}

\* Each fault and each false header pays for one refusal, that it has caused or may yet
\* cause: a false header as long as it has not been dropped, and a fault with the buffer
\* that it came into.
RefusalsInv ==
  \/ refused + Cardinality(Doubtful(buffer \o (rx \o line))) <= faults + claims
  \/ refused + 1 + Cardinality(Doubtful(line)) <= faults + claims

\* Numbers that all fall into a finite set when they are shifted.
LEMMA ShiftedCount ==
  ASSUME NEW S \in SUBSET Int, NEW T \in SUBSET Int, IsFiniteSet(T), NEW k \in Int,
         \A i \in S : i + k \in T
  PROVE  Cardinality(S) \in Nat /\ Cardinality(T) \in Nat /\ Cardinality(S) <= Cardinality(T)
         /\ IsFiniteSet(S)
  <1> DEFINE f == [i \in S |-> i + k]
  <1>1. f \in [S -> T] /\ \A a, b \in S : f[a] = f[b] => a = b
    OBVIOUS
  <1>2. f \in Injection(S, T)
    BY <1>1 DEF Injection, IsInjective
  <1> QED BY <1>2, FS_Injection, FS_CardinalityType

LEMMA DoubtfulIsFinite ==
  ASSUME NEW bytes \in Seq(Nat)
  PROVE  /\ IsFiniteSet(Doubtful(bytes)) /\ Cardinality(Doubtful(bytes)) \in Nat
         /\ Doubtful(bytes) \in SUBSET (1 .. Len(bytes))
  <1>1. IsFiniteSet(1 .. Len(bytes))
    BY LenProperties, FS_Interval
  <1>2. Doubtful(bytes) \in SUBSET (1 .. Len(bytes))
    BY DEF Doubtful
  <1> QED BY <1>1, <1>2, FS_Subset, FS_CardinalityType

\* When the first bytes are dropped, no marker becomes doubtful.
LEMMA DoubtfulOfRest ==
  ASSUME NEW x \in Seq(Nat), NEW y \in Seq(Nat)
  PROVE  /\ Cardinality(Doubtful(y)) <= Cardinality(Doubtful(x \o y))
         /\ x # <<>> /\ 1 \in Doubtful(x \o y) =>
              Cardinality(Doubtful(y)) + 1 <= Cardinality(Doubtful(x \o y))
  <1> DEFINE z == x \o y
             n == Len(x)
  <1>1. /\ z \in Seq(Nat) /\ Len(z) = n + Len(y) /\ n \in Nat /\ Len(y) \in Nat
        /\ \A i \in 1 .. Len(y) : z[n + i] = y[i]
    BY ConcatFacts
  <1> HIDE DEF z, n
  <1>0. ASSUME NEW i \in 1 .. Len(y), NEW m \in Int, m = i + n
        PROVE  z[m] = y[i]
    <2>1. m = n + i
      BY <1>0, <1>1
    <2> QED BY <1>1, <2>1
  <1>2. ASSUME NEW i \in Doubtful(y)
        PROVE  i + n \in Doubtful(z)
    <2>1. /\ i \in 1 .. Len(y) /\ i + 1 <= Len(y) /\ y[i] = Sync0 /\ y[i + 1] = Sync1
          /\ i + 2 <= Len(y) => y[i + 2] <= MaxPayload
          /\ ~Whole(y, i)
      BY DEF Doubtful, SyncAt
    <2>2. z[i + n] = Sync0 /\ z[i + n + 1] = Sync1
      <3>1. i + 1 \in 1 .. Len(y) /\ i + n \in Int /\ i + n + 1 \in Int
            /\ i + n + 1 = (i + 1) + n
        BY <1>1, <2>1
      <3>2. z[i + n] = y[i] /\ z[i + n + 1] = y[i + 1]
        BY <1>0, <2>1, <3>1
      <3> QED BY <2>1, <3>2
    <2>3. ASSUME i + n + 2 <= Len(z) PROVE z[i + n + 2] <= MaxPayload
      <3>1. i + 2 \in 1 .. Len(y) /\ i + n + 2 \in Int /\ i + n + 2 = (i + 2) + n /\ i + 2 <= Len(y)
        BY <1>1, <2>1, <2>3
      <3>2. z[i + n + 2] = y[i + 2]
        BY <1>0, <3>1
      <3> QED BY <2>1, <3>1, <3>2
    <2>4. ~Whole(z, i + n)
      <3> SUFFICES ASSUME NEW p \in Packets, Len(p) <= Len(z) - (i + n) + 1,
                          \A j \in 1 .. Len(p) : z[i + n + j - 1] = p[j]
                   PROVE  FALSE
        BY DEF Whole
      <3>1. Len(p) \in Nat
        BY PacketFacts
      <3>2. Len(p) <= Len(y) - i + 1
        BY <1>1, <2>1, <3>1
      <3>3. ASSUME NEW j \in 1 .. Len(p) PROVE y[i + j - 1] = p[j]
        <4>1. /\ i + j - 1 \in 1 .. Len(y) /\ i + n + j - 1 \in Int
              /\ i + n + j - 1 = (i + j - 1) + n
          BY <1>1, <2>1, <3>1, <3>2
        <4>2. z[i + n + j - 1] = y[i + j - 1]
          BY <1>0, <4>1
        <4> QED BY <4>2
      <3> QED BY <2>1, <3>2, <3>3 DEF Whole
    <2>5. i + n \in 1 .. Len(z) /\ i + n + 1 <= Len(z)
      BY <1>1, <2>1
    <2> QED BY <2>2, <2>3, <2>4, <2>5 DEF Doubtful, SyncAt
  <1>3. /\ Doubtful(y) \in SUBSET Int /\ Doubtful(z) \in SUBSET Int /\ IsFiniteSet(Doubtful(z))
        /\ \A i \in Doubtful(y) : i \in 1 .. Len(y)
    BY <1>1, DoubtfulIsFinite
  <1>4. Cardinality(Doubtful(y)) <= Cardinality(Doubtful(z))
    <2>1. n \in Int
      BY <1>1
    <2> QED BY <1>2, <1>3, <2>1, ShiftedCount
  <1>5. ASSUME x # <<>>, 1 \in Doubtful(z)
        PROVE  Cardinality(Doubtful(y)) + 1 <= Cardinality(Doubtful(z))
    <2> DEFINE others == Doubtful(z) \ {1}
    <2>1. /\ IsFiniteSet(others) /\ Cardinality(others) = Cardinality(Doubtful(z)) - 1
          /\ Cardinality(Doubtful(z)) \in Nat
      BY <1>3, <1>5, FS_RemoveElement, FS_CardinalityType
    <2>2. n >= 1
      BY <1>1, <1>5, EmptySeq DEF n
    <2>3. \A i \in Doubtful(y) : i + n \in others
      BY <1>1, <1>2, <1>3, <2>2
    <2>4. Cardinality(Doubtful(y)) <= Cardinality(others) /\ Cardinality(Doubtful(y)) \in Nat
      <3>1. others \in SUBSET Int /\ n \in Int
        BY <1>1, <1>3
      <3> HIDE DEF others
      <3> QED BY <1>3, <2>1, <2>3, <3>1, ShiftedCount
    <2> QED BY <2>1, <2>4
  <1> QED BY <1>4, <1>5 DEF z

\* A packet behind other bytes adds its false headers.
LEMMA DoubtfulOfLonger ==
  ASSUME NEW x \in Seq(Nat), NEW p \in Packets
  PROVE  Cardinality(Doubtful(x \o p)) <= Cardinality(Doubtful(x)) + Cardinality(FalseHeaders(p))
  <1> DEFINE z == x \o p
             n == Len(x)
  <1>0. /\ p \in Seq(Nat) /\ Len(p) \in Nat /\ Len(p) >= 4 /\ p[1] = Sync0 /\ p[2] = Sync1
        /\ Sync0 # Sync1
    BY PacketFacts, StreamConstants
  <1>1. /\ z \in Seq(Nat) /\ Len(z) = n + Len(p) /\ n \in Nat
        /\ \A i \in 1 .. n : z[i] = x[i]
        /\ \A i \in 1 .. Len(p) : z[n + i] = p[i]
    BY <1>0, ConcatFacts
  <1> HIDE DEF z
  <1> DEFINE old == Doubtful(z) \cap (1 .. n)
             new == Doubtful(z) \ (1 .. n)
  <1>2. /\ IsFiniteSet(Doubtful(z)) /\ Doubtful(z) \in SUBSET (1 .. Len(z))
        /\ IsFiniteSet(Doubtful(x)) /\ Cardinality(Doubtful(x)) \in Nat
        /\ IsFiniteSet(FalseHeaders(p)) /\ Cardinality(FalseHeaders(p)) \in Nat
    BY <1>1, DoubtfulIsFinite, FalseHeadersAreFinite
  <1>3. ASSUME NEW i \in old
        PROVE  i \in Doubtful(x)
    <2>1. /\ i \in 1 .. n /\ z[i] = Sync0 /\ z[i + 1] = Sync1
          /\ i + 2 <= Len(z) => z[i + 2] <= MaxPayload
          /\ ~Whole(z, i)
      BY DEF Doubtful, SyncAt
    <2>2. i # n
      <3>1. z[n + 1] = Sync0
        <4>1. 1 \in 1 .. Len(p)
          BY <1>0
        <4> QED BY <1>0, <1>1, <4>1
      <3> QED BY <1>0, <2>1, <3>1
    <2>3. i + 1 \in 1 .. n
      BY <1>1, <2>1, <2>2
    <2>4. x[i] = Sync0 /\ x[i + 1] = Sync1
      BY <1>1, <2>1, <2>3
    <2>5. ASSUME i + 2 <= n PROVE x[i + 2] <= MaxPayload
      <3>1. i + 2 \in 1 .. n /\ i + 2 <= Len(z)
        BY <1>0, <1>1, <2>1, <2>5
      <3> QED BY <1>1, <2>1, <3>1
    <2>6. ~Whole(x, i)
      <3> SUFFICES ASSUME NEW q \in Packets, Len(q) <= n - i + 1,
                          \A j \in 1 .. Len(q) : x[i + j - 1] = q[j]
                   PROVE  FALSE
        BY DEF Whole
      <3>1. Len(q) \in Nat
        BY PacketFacts
      <3>2. Len(q) <= Len(z) - i + 1
        BY <1>0, <1>1, <2>1, <3>1
      <3>3. ASSUME NEW j \in 1 .. Len(q) PROVE z[i + j - 1] = q[j]
        <4>1. i + j - 1 \in 1 .. n
          BY <1>1, <2>1, <3>1
        <4> QED BY <1>1, <4>1
      <3> QED BY <2>1, <3>2, <3>3 DEF Whole
    <2>7. i \in 1 .. Len(x) /\ i + 1 <= Len(x) /\ (i + 2 <= Len(x) => x[i + 2] <= MaxPayload)
      BY <1>1, <2>1, <2>3, <2>5
    <2> QED BY <2>4, <2>6, <2>7 DEF Doubtful, SyncAt
  <1>4. ASSUME NEW i \in new
        PROVE  i + (-n) \in FalseHeaders(p)
    <2>1. /\ i \in 1 .. Len(z) /\ i \notin 1 .. n /\ i + 1 <= Len(z)
          /\ z[i] = Sync0 /\ z[i + 1] = Sync1
          /\ i + 2 <= Len(z) => z[i + 2] <= MaxPayload
          /\ ~Whole(z, i)
      BY DEF Doubtful, SyncAt
    <2> DEFINE k == i - n
    <2>2. /\ k \in 1 .. Len(p) /\ k + 1 \in 1 .. Len(p) /\ i = n + k /\ i + 1 = n + (k + 1)
          /\ i + (-n) = k
      <3> DEFINE m == Len(p)
      <3>1. m \in Nat /\ n \in Nat /\ Len(z) = n + m
        BY <1>0, <1>1
      <3>2. i \in Int /\ 1 <= i /\ ~(i <= n) /\ i + 1 <= n + m
        BY <2>1, <3>1
      <3> HIDE DEF m, n
      <3>3. k \in 1 .. m /\ k + 1 \in 1 .. m
        BY <3>1, <3>2
      <3>4. i = n + k /\ i + 1 = n + (k + 1) /\ i + (-n) = k
        BY <3>1, <3>2
      <3> QED BY <3>3, <3>4 DEF m
    <2> HIDE DEF k
    <2>3. p[k] = Sync0 /\ p[k + 1] = Sync1
      BY <1>1, <2>1, <2>2
    <2>4. ASSUME k + 2 <= Len(p) PROVE p[k + 2] <= MaxPayload
      <3>1. k + 2 \in 1 .. Len(p) /\ i + 2 = n + (k + 2) /\ i + 2 <= Len(z)
        BY <1>0, <1>1, <2>2, <2>4
      <3> QED BY <1>1, <2>1, <3>1
    <2>5. k # 1
      <3> SUFFICES ASSUME k = 1 PROVE FALSE
        OBVIOUS
      <3>1. Len(p) <= Len(z) - i + 1
        BY <1>0, <1>1, <2>2
      <3>2. \A j \in 1 .. Len(p) : i + j - 1 = n + j
        BY <1>0, <1>1, <2>2
      <3> QED BY <1>1, <2>1, <3>1, <3>2 DEF Whole
    <2>6. k \in 2 .. Len(p) - 1
      BY <1>0, <2>2, <2>5
    <2> QED BY <2>2, <2>3, <2>4, <2>6 DEF FalseHeaders
  <1>5. IsFiniteSet(old) /\ Cardinality(old) \in Nat /\ Cardinality(old) <= Cardinality(Doubtful(x))
    <2>1. old \in SUBSET Doubtful(x)
      BY <1>3
    <2> QED BY <1>2, <2>1, FS_Subset, FS_CardinalityType
  <1>6. /\ IsFiniteSet(new) /\ Cardinality(new) \in Nat
        /\ Cardinality(new) <= Cardinality(FalseHeaders(p))
    <2>1. new \in SUBSET Int
      BY <1>2
    <2>2. FalseHeaders(p) \in SUBSET Int
      BY DEF FalseHeaders
    <2>3. -n \in Int
      BY <1>1
    <2> HIDE DEF new, n
    <2> QED BY <1>2, <1>4, <2>1, <2>2, <2>3, ShiftedCount
  <1>7. Doubtful(z) = old \cup new /\ old \cap new = {}
    OBVIOUS
  <1> HIDE DEF old, new, n
  <1>8. Cardinality(Doubtful(z)) = Cardinality(old) + Cardinality(new)
    <2>1. Cardinality(old \cup new) = Cardinality(old) + Cardinality(new) - Cardinality(old \cap new)
      BY <1>5, <1>6, FS_Union
    <2>2. Cardinality(old \cap new) = 0
      BY <1>7, FS_EmptySet
    <2> QED BY <1>5, <1>6, <1>7, <2>1, <2>2
  <1> QED BY <1>2, <1>5, <1>6, <1>8 DEF z

\* What is refused began at a doubtful marker.
LEMMA RefusedWasDoubtful ==
  ASSUME NEW x, IsRefused(x), NEW y \in Seq(Nat)
  PROVE  1 \in Doubtful(x \o y) /\ x # <<>>
  <1> DEFINE z == x \o y
  <1>1. /\ x \in Seq(Nat) /\ Len(x) \in Nat /\ Len(x) >= 3
        /\ x[1] = Sync0 /\ x[2] = Sync1 /\ x[3] \in Nat /\ x[3] <= MaxPayload
        /\ Len(x) = x[3] + 4 /\ x \notin Packets
    BY LenProperties DEF IsRefused
  <1>2. /\ z \in Seq(Nat) /\ Len(z) = Len(x) + Len(y) /\ Len(y) \in Nat
        /\ \A i \in 1 .. Len(x) : z[i] = x[i]
    BY <1>1, ConcatFacts
  <1> HIDE DEF z
  <1>3. 1 \in 1 .. Len(x) /\ 2 \in 1 .. Len(x) /\ 3 \in 1 .. Len(x) /\ 1 \in 1 .. Len(z) /\ 2 <= Len(z)
    <2> DEFINE m == Len(x)
               k == Len(y)
    <2>1. m \in Nat /\ k \in Nat /\ m >= 3 /\ Len(z) = m + k
      BY <1>1, <1>2
    <2> HIDE DEF m, k
    <2>2. 1 \in 1 .. m /\ 2 \in 1 .. m /\ 3 \in 1 .. m /\ 1 \in 1 .. m + k /\ 2 <= m + k
      BY <2>1
    <2> QED BY <2>1, <2>2 DEF m
  <1>4. z[1] = Sync0 /\ z[2] = Sync1 /\ z[3] = x[3]
    BY <1>1, <1>2, <1>3
  <1>5. ~Whole(z, 1)
    <2> SUFFICES ASSUME NEW p \in Packets, Len(p) <= Len(z) - 1 + 1,
                        \A j \in 1 .. Len(p) : z[1 + j - 1] = p[j]
                 PROVE  FALSE
      BY DEF Whole
    <2>1. p \in Seq(Nat) /\ Len(p) \in Nat /\ Len(p) >= 4 /\ Len(p) = p[3] + 4
      BY PacketFacts
    <2>2. \A j \in 1 .. Len(p) : 1 + j - 1 = j
      BY <2>1
    <2>3. \A j \in 1 .. Len(p) : z[j] = p[j]
      BY <2>2
    <2>4. 3 \in 1 .. Len(p)
      BY <2>1
    <2>5. Len(p) = Len(x)
      BY <1>1, <1>4, <2>1, <2>3, <2>4
    <2>6. p = x
      BY <1>1, <1>2, <2>1, <2>3, <2>5, SeqEqual
    <2> QED BY <1>1, <2>6
  <1>6. 1 + 1 <= Len(z) /\ 1 + 1 = 2 /\ 1 + 2 = 3
    BY <1>3
  <1>7. x # <<>>
    BY <1>1, EmptySeq
  <1> QED BY <1>1, <1>3, <1>4, <1>5, <1>6, <1>7 DEF Doubtful, SyncAt, z

LEMMA SendKeepsRefusals ==
  ASSUME StreamInv, RefusalsInv, Send
  PROVE  RefusalsInv'
  <1>1. PICK p \in Packets : line' = p /\ claims' = claims + Cardinality(FalseHeaders(p))
    BY DEF Send
  <1>2. line = <<>> /\ UNCHANGED <<rx, buffer, refused, faults>>
    BY DEF Send
  <1>3. /\ rx \in Seq(Nat) /\ buffer \in Seq(Nat) /\ refused \in Nat /\ faults \in Nat
        /\ claims \in Nat /\ p \in Seq(Nat) /\ buffer \o rx \in Seq(Nat)
    BY StreamTypes, PacketFacts, ConcatProperties
  <1>4. /\ buffer' \o (rx' \o line') = (buffer \o rx) \o p
        /\ buffer \o (rx \o line) = buffer \o rx
        /\ <<>> \o p = p /\ <<>> \in Seq(Nat)
    <2>1. buffer \o (rx \o p) = (buffer \o rx) \o p
      <3>1. \A q \in Seq(Nat) : buffer \o (rx \o q) = (buffer \o rx) \o q
        <4> SUFFICES ASSUME NEW q \in Seq(Nat) PROVE buffer \o (rx \o q) = (buffer \o rx) \o q
          OBVIOUS
        <4>1. buffer \in Seq(Nat) /\ rx \in Seq(Nat) /\ q \in Seq(Nat)
          BY <1>3
        <4> QED BY <4>1, ConcatOfThree
      <3> QED BY <1>3, <3>1
    <2>2. rx \o <<>> = rx /\ <<>> \o p = p
      BY <1>3, Nothing
    <2> QED BY <1>1, <1>2, <2>1, <2>2, EmptySeq
  <1> DEFINE c == Cardinality(FalseHeaders(p))
             d1 == Cardinality(Doubtful(buffer \o rx))
             e1 == Cardinality(Doubtful((buffer \o rx) \o p))
             d2 == Cardinality(Doubtful(<<>>))
             e2 == Cardinality(Doubtful(<<>> \o p))
  <1>5. e1 <= d1 + c /\ e2 <= d2 + c
    BY <1>3, <1>4, DoubtfulOfLonger
  <1>6. c \in Nat /\ d1 \in Nat /\ e1 \in Nat /\ d2 \in Nat /\ e2 \in Nat
    <2>1. (buffer \o rx) \o p \in Seq(Nat)
      BY <1>3, ConcatProperties
    <2> QED BY <1>3, <1>4, <2>1, DoubtfulIsFinite, FalseHeadersAreFinite
  <1>7. refused + d1 <= faults + claims \/ refused + 1 + d2 <= faults + claims
    BY <1>2, <1>4 DEF RefusalsInv
  <1>8. /\ claims' = claims + c /\ refused' = refused /\ faults' = faults
        /\ e1 = Cardinality(Doubtful(buffer' \o (rx' \o line')))
        /\ e2 = Cardinality(Doubtful(line'))
    BY <1>1, <1>2, <1>4
  <1> HIDE DEF c, d1, e1, d2, e2
  <1>9. refused' + e1 <= faults' + claims' \/ refused' + 1 + e2 <= faults' + claims'
    BY <1>3, <1>5, <1>6, <1>7, <1>8
  <1> QED BY <1>8, <1>9 DEF RefusalsInv

\* What is lost of a line that is otherwise as it was.
LEMMA TailOfLine ==
  ASSUME StreamInv, line # <<>>
  PROVE  /\ Head(line) \in Nat /\ Tail(line) \in Seq(Nat) /\ line = <<Head(line)>> \o Tail(line)
         /\ Cardinality(Doubtful(Tail(line))) <= Cardinality(Doubtful(line))
  <1>1. line \in Seq(Nat)
    BY StreamTypes
  <1>2. Head(line) \in Nat /\ Tail(line) \in Seq(Nat) /\ line = <<Head(line)>> \o Tail(line)
    BY <1>1, HeadTailProperties
  <1>3. <<Head(line)>> \in Seq(Nat)
    BY <1>2
  <1>4. Cardinality(Doubtful(Tail(line))) <= Cardinality(Doubtful(<<Head(line)>> \o Tail(line)))
    BY <1>2, <1>3, DoubtfulOfRest
  <1> QED BY <1>2, <1>4

LEMMA ReceiveKeepsRefusals ==
  ASSUME StreamInv, RefusalsInv, Receive
  PROVE  RefusalsInv'
  <1>1. /\ line # <<>> /\ rx = <<>> /\ rx' = <<Head(line)>> /\ line' = Tail(line)
        /\ UNCHANGED <<buffer, refused, faults, claims>>
    BY DEF Receive, traffic
  <1>2. line \in Seq(Nat) /\ rx' \o line' = line /\ rx \o line = line
    BY <1>1, StreamTypes, TailOfLine, Nothing
  <1>3. CASE refused + Cardinality(Doubtful(buffer \o (rx \o line))) <= faults + claims
    BY <1>1, <1>2, <1>3 DEF RefusalsInv
  <1>4. CASE refused + 1 + Cardinality(Doubtful(line)) <= faults + claims
    <2> DEFINE d == Cardinality(Doubtful(line))
               e == Cardinality(Doubtful(line'))
    <2>1. e <= d /\ e \in Nat /\ d \in Nat
      BY <1>1, <1>2, TailOfLine, DoubtfulIsFinite
    <2>2. refused + 1 + d <= faults + claims /\ refused \in Nat /\ faults \in Nat /\ claims \in Nat
      BY <1>4, StreamTypes
    <2> HIDE DEF d, e
    <2>3. refused + 1 + e <= faults + claims
      BY <2>1, <2>2
    <2> QED BY <1>1, <2>3 DEF RefusalsInv, e
  <1> QED BY <1>3, <1>4 DEF RefusalsInv

LEMMA DisturbanceKeepsRefusals ==
  ASSUME StreamInv, RefusalsInv, Overrun \/ Noise
  PROVE  RefusalsInv'
  <1>1. faults' = faults + 1 /\ UNCHANGED <<refused, claims>>
    BY DEF Overrun, Noise, Disturb
  <1>2. /\ line' \in Seq(Nat) /\ Cardinality(Doubtful(line')) <= Cardinality(Doubtful(line))
    <2>1. CASE Overrun
      BY <2>1, TailOfLine DEF Overrun
    <2>2. CASE Noise
      <3>1. line' = line /\ line \in Seq(Nat)
        BY <2>2, StreamTypes DEF Noise
      <3> QED BY <3>1, DoubtfulIsFinite
    <2> QED BY <2>1, <2>2
  <1> DEFINE w == buffer \o (rx \o line)
             d == Cardinality(Doubtful(line))
             e == Cardinality(Doubtful(line'))
             f == Cardinality(Doubtful(w))
  <1>3. d <= f
    <2>1. buffer \in Seq(Nat) /\ rx \in Seq(Nat) /\ line \in Seq(Nat)
      BY StreamTypes
    <2>2. w = (buffer \o rx) \o line /\ buffer \o rx \in Seq(Nat)
      BY <2>1, ConcatOfThree
    <2> QED BY <2>1, <2>2, DoubtfulOfRest
  <1>4. d \in Nat /\ e \in Nat /\ f \in Nat /\ e <= d
    BY <1>2, StreamTypes, DoubtfulIsFinite
  <1>5. refused \in Nat /\ faults \in Nat /\ claims \in Nat
    BY StreamTypes
  <1>6. refused + f <= faults + claims \/ refused + 1 + d <= faults + claims
    BY DEF RefusalsInv
  <1> HIDE DEF w, d, e, f
  <1>7. refused' + 1 + e <= faults' + claims'
    BY <1>1, <1>3, <1>4, <1>5, <1>6
  <1> QED BY <1>7 DEF RefusalsInv, e

LEMMA PollKeepsRefusals ==
  ASSUME StreamInv, RefusalsInv, PollUart
  PROVE  RefusalsInv'
  <1> DEFINE b == rx[1]
             turn == Feed(b)
             longer == Append(buffer, b)
  <1>1. /\ rx # <<>> /\ rx' = <<>> /\ buffer' = turn.buffer
        /\ refused' = IF turn.result = "BAD_CRC" THEN refused + 1 ELSE refused
        /\ UNCHANGED <<line, faults, claims>>
    BY DEF PollUart, traffic
  <1>2. /\ IsBeginning(buffer) /\ buffer \in Seq(Nat) /\ line \in Seq(Nat)
        /\ Len(buffer) < BufferSize /\ refused \in Nat /\ faults \in Nat /\ claims \in Nat
    BY StreamTypes
  <1>3. b \in Nat /\ rx = <<b>>
    BY <1>1, PolledByte
  <1> HIDE DEF b
  <1>4. /\ turn.buffer = longer \/ turn.buffer = <<>> \/ (turn.buffer = <<Sync0>> /\ b = Sync0)
        /\ turn.result = "BAD_CRC" => turn.buffer = <<>> /\ IsRefused(longer)
    BY <1>2, <1>3, FeedKeepsBeginning
  <1>5. /\ buffer \o (rx \o line) = longer \o line /\ longer \in Seq(Nat)
        /\ <<b>> \in Seq(Nat) /\ <<b>> \o line \in Seq(Nat) /\ longer \o line \in Seq(Nat)
    <2>1. buffer \o (<<b>> \o line) = longer \o line /\ longer \in Seq(Nat)
      BY <1>2, <1>3, BytesInOrder
    <2>2. <<b>> \in Seq(Nat)
      BY <1>3
    <2>3. <<b>> \o line \in Seq(Nat) /\ longer \o line \in Seq(Nat)
      <3> HIDE DEF longer
      <3> QED BY <1>2, <2>1, <2>2, ConcatFacts
    <2> QED BY <1>3, <2>1, <2>2, <2>3
  <1>6. rx' \o line' = line
    BY <1>1, <1>2, Nothing
  <1> HIDE DEF turn, longer
  <1> DEFINE f == Cardinality(Doubtful(longer \o line))
             g == Cardinality(Doubtful(buffer' \o line))
             d == Cardinality(Doubtful(line))
  <1>7. d <= f /\ (IsRefused(longer) => d + 1 <= f)
    BY <1>2, <1>5, DoubtfulOfRest, RefusedWasDoubtful
  <1>8. buffer' = <<>> => g = d
    BY <1>2, Nothing
  <1>9. g <= f
    <2>1. CASE buffer' = longer
      <3>1. f \in Nat
        BY <1>5, DoubtfulIsFinite
      <3>2. g = f
        BY <2>1
      <3> HIDE DEF f, g
      <3> QED BY <3>1, <3>2
    <2>2. CASE buffer' = <<>>
      BY <1>7, <1>8, <2>2
    <2>3. CASE buffer' = <<b>>
      <3>1. longer \o line = buffer \o (<<b>> \o line)
        BY <1>2, <1>3, BytesInOrder DEF longer
      <3>2. Cardinality(Doubtful(<<b>> \o line)) <= Cardinality(Doubtful(buffer \o (<<b>> \o line)))
        BY <1>2, <1>5, DoubtfulOfRest
      <3> QED BY <2>3, <3>1, <3>2
    <2> QED BY <1>1, <1>4, <2>1, <2>2, <2>3
  <1>10. d \in Nat /\ f \in Nat /\ g \in Nat
    <2>1. buffer' \in Seq(Nat)
      BY <1>1, <1>4, <1>5, StreamConstants, EmptySeq
    <2>2. buffer' \o line \in Seq(Nat)
      BY <1>2, <2>1, ConcatFacts
    <2> QED BY <1>2, <1>5, <2>2, DoubtfulIsFinite
  <1>11. refused + f <= faults + claims \/ refused + 1 + d <= faults + claims
    BY <1>5 DEF RefusalsInv
  <1>12. SUFFICES \/ refused' + g <= faults + claims
                  \/ refused' + 1 + d <= faults + claims
    BY <1>1, <1>6 DEF RefusalsInv
  <1> HIDE DEF d, f, g
  <1>13. CASE turn.result = "BAD_CRC"
    <2>1. refused' = refused + 1 /\ g = d /\ d + 1 <= f
      BY <1>1, <1>4, <1>7, <1>8, <1>13
    <2> QED BY <1>2, <1>10, <1>11, <2>1
  <1>14. CASE turn.result # "BAD_CRC"
    <2>1. refused' = refused
      BY <1>1, <1>14
    <2> QED BY <1>2, <1>9, <1>10, <1>11, <2>1
  <1> QED BY <1>13, <1>14

LEMMA InitRefusals == StreamInit => RefusalsInv
  <1> SUFFICES ASSUME StreamInit PROVE RefusalsInv
    OBVIOUS
  <1>1. line = <<>> /\ rx = <<>> /\ buffer = <<>> /\ refused = 0 /\ faults = 0 /\ claims = 0
    BY DEF StreamInit
  <1>2. <<>> \o (<<>> \o <<>>) = <<>> /\ Doubtful(<<>>) = {}
    BY DEF Doubtful
  <1>3. Cardinality(Doubtful(buffer \o (rx \o line))) = 0
    BY <1>1, <1>2, FS_EmptySet
  <1> QED BY <1>1, <1>3 DEF RefusalsInv

LEMMA StepKeepsRefusals ==
  StreamInv /\ RefusalsInv /\ [StreamNext]_streamVars => RefusalsInv'
  <1> SUFFICES ASSUME StreamInv, RefusalsInv, [StreamNext]_streamVars
               PROVE  RefusalsInv'
    OBVIOUS
  <1>1. CASE UNCHANGED streamVars
    BY <1>1 DEF streamVars, traffic, RefusalsInv
  <1>2. CASE StreamNext
    BY <1>2, SendKeepsRefusals, ReceiveKeepsRefusals, DisturbanceKeepsRefusals,
       PollKeepsRefusals DEF StreamNext
  <1> QED BY <1>1, <1>2

-----------------------------------------------------------------------------
(* Back in step. *)

Final(s) == s[Len(s)]

\* The packet sent last is delivered, or the parser will find its beginning.
Delivering ==
  \/ line = <<>> /\ rx = <<>> /\ LastIsDelivered
  \/ rx \o line # <<>> /\ buffer \o (rx \o line) = Final(sent)
  \/ rx \o line = Final(sent) /\ Len(buffer) <= 1
  \/ rx # <<>> /\ line = Final(sent) /\ Len(Feed(rx[1]).buffer) <= 1

\* The beginning of the packet is lost, and the buffer is given up before the next.
CutOff ==
  /\ EndOf(buffer \o (rx \o line), Final(sent))
  /\ Len(buffer \o (rx \o line)) < Len(Final(sent))
  /\ Len(buffer) <= IF rx \o line = <<>> THEN 1 ELSE 2

\* All of the calm is still in the buffer or on its way to it.
Behind == calm <= Len(buffer) + Len(rx) + Len(line)

InStepInv ==
  /\ calm > 0 \/ due => sent # <<>> /\ (line = Final(sent) \/ EndOf(rx \o line, Final(sent)))
  /\ due => Delivering
  /\ calm > 0 => Plain(Final(sent)) /\ (Delivering \/ CutOff \/ Behind)

\* What is left of a packet whose beginning is lost: a marker in it is given up with
\* the length behind it.
LEMMA FeedOfCutOff ==
  ASSUME StreamInv, sent # <<>>, Plain(Final(sent)), rx # <<>>, CutOff
  PROVE  LET kept == Feed(rx[1]).buffer IN
         /\ EndOf(kept \o line, Final(sent)) /\ Len(kept \o line) < Len(Final(sent))
         /\ Len(kept) <= IF line = <<>> THEN 1 ELSE 2
  <1> DEFINE b == rx[1]
             kept == Feed(b).buffer
             q == Final(sent)
             longer == Append(buffer, b)
  <1>1. b \in Nat /\ rx = <<b>>
    BY PolledByte
  <1>2. /\ IsBeginning(buffer) /\ buffer \in Seq(Nat) /\ Len(buffer) \in Nat
        /\ Len(buffer) < BufferSize /\ line \in Seq(Nat) /\ Len(line) \in Nat
    BY StreamTypes
  <1>3. q \in Packets /\ q \in Seq(Nat) /\ Len(q) \in Nat
    BY LastSent, PacketFacts DEF Final
  <1> HIDE DEF b, q
  <1>4. /\ IsBeginning(kept)
        /\ kept = longer \/ kept = <<>> \/ (kept = <<Sync0>> /\ b = Sync0)
    BY <1>1, <1>2, FeedKeepsBeginning
  <1>5. /\ longer \in Seq(Nat) /\ Len(longer) = Len(buffer) + 1
        /\ buffer \o (rx \o line) = longer \o line
    BY <1>1, <1>2, OneByteMore, BytesInOrder
  <1>6. EndOf(longer \o line, q) /\ Len(longer \o line) < Len(q)
    BY <1>5 DEF CutOff, q
  <1> HIDE DEF kept
  <1>7. CASE kept = longer
    <2> HIDE DEF longer
    <2> DEFINE w == longer \o line
               n == Len(longer)
               m == Len(line)
               i == Len(q) - Len(w) + 1
    <2>1. /\ Len(w) = n + m /\ n \in Nat /\ m \in Nat
          /\ \A j \in 1 .. n : w[j] = longer[j]
      BY <1>2, <1>5, ConcatFacts
    <2>2. Len(w) <= Len(q) /\ \A j \in 1 .. Len(w) : w[j] = q[Len(q) - Len(w) + j]
      BY <1>6 DEF EndOf
    <2> HIDE DEF w, i
    <2>3. ASSUME n >= 2
          PROVE  i + 2 <= Len(q) /\ ~(q[i + 2] <= MaxPayload)
      <3>1. i \in 2 .. Len(q) - 1
        BY <1>3, <1>6, <2>1, <2>3 DEF w, i
      <3>2. 1 \in 1 .. n /\ 2 \in 1 .. n /\ 1 \in 1 .. Len(w) /\ 2 \in 1 .. Len(w)
        BY <2>1, <2>3
      <3>3. Len(q) - Len(w) + 1 = i /\ Len(q) - Len(w) + 2 = i + 1
        BY <1>3, <2>1 DEF i
      <3>4. longer[1] = Sync0 /\ longer[2] = Sync1
        BY <1>4, <1>7, <2>1, <2>3 DEF IsBeginning
      <3>5. q[i] = Sync0 /\ q[i + 1] = Sync1
        BY <2>1, <2>2, <3>2, <3>3, <3>4
      <3>6. i \notin FalseHeaders(q)
        BY DEF Plain, q
      <3> QED BY <3>1, <3>5, <3>6 DEF FalseHeaders
    <2>4. ~(n >= 3)
      <3> SUFFICES ASSUME n >= 3 PROVE FALSE
        OBVIOUS
      <3>1. 3 \in 1 .. n /\ 3 \in 1 .. Len(w) /\ n >= 2
        BY <2>1
      <3>2. Len(q) - Len(w) + 3 = i + 2
        BY <1>3, <2>1 DEF i
      <3>3. longer[3] <= MaxPayload
        BY <1>4, <1>7 DEF IsBeginning
      <3>4. q[i + 2] = longer[3]
        BY <2>1, <2>2, <3>1, <3>2
      <3> QED BY <2>3, <3>1, <3>3, <3>4
    <2>5. n >= 2 => m # 0
      <3> DEFINE k == Len(q)
      <3>1. k \in Nat /\ (n >= 2 => k - Len(w) + 1 + 2 <= k) /\ ~(n >= 3)
        BY <1>3, <2>3, <2>4 DEF i
      <3> HIDE DEF k, n, m
      <3> QED BY <2>1, <3>1
    <2>6. line = <<>> => m = 0
      BY EmptySeq
    <2>7. n <= IF line = <<>> THEN 1 ELSE 2
      <3> HIDE DEF n, m
      <3> QED BY <2>1, <2>4, <2>5, <2>6
    <2> QED BY <1>6, <1>7, <2>7 DEF kept, b, q
  <1>8. CASE kept = <<>>
    <2>1. EndOf(line, q) /\ Len(line) <= Len(longer \o line)
      BY <1>2, <1>3, <1>5, <1>6, EndOfRest
    <2>2. kept \o line = line /\ Len(kept) = 0
      BY <1>2, <1>8, Nothing, EmptySeq
    <2>3. Len(longer \o line) \in Nat
      BY <1>2, <1>5, ConcatFacts
    <2>4. Len(line) < Len(q)
      BY <1>2, <1>3, <1>6, <2>1, <2>3
    <2>5. 0 <= IF line = <<>> THEN 1 ELSE 2
      OBVIOUS
    <2> QED BY <2>1, <2>2, <2>4, <2>5 DEF kept, b, q
  <1>9. CASE kept = <<b>>
    <2>1. longer \o line = buffer \o (<<b>> \o line) /\ <<b>> \in Seq(Nat) /\ Len(<<b>>) = 1
      BY <1>1, <1>2, BytesInOrder
    <2>2. <<b>> \o line \in Seq(Nat) /\ Len(<<b>> \o line) \in Nat
      <3>1. <<b>> \o line \in Seq(Nat)
        BY <1>2, <2>1, ConcatFacts
      <3> QED BY <3>1, LenProperties
    <2>3. EndOf(<<b>> \o line, q) /\ Len(<<b>> \o line) <= Len(longer \o line)
      BY <1>2, <1>3, <1>6, <2>1, <2>2, EndOfRest
    <2>4. Len(longer \o line) \in Nat
      BY <1>2, <1>5, ConcatFacts
    <2>5. Len(<<b>> \o line) < Len(q)
      BY <1>3, <1>6, <2>2, <2>3, <2>4
    <2>6. 1 <= IF line = <<>> THEN 1 ELSE 2
      OBVIOUS
    <2> QED BY <1>9, <2>1, <2>3, <2>5, <2>6 DEF kept, b, q
  <1> QED BY <1>4, <1>7, <1>8, <1>9

\* A packet that is sent when as many bytes as the buffer holds have passed finds
\* the parser at its beginning; and so does one after a packet that is delivered.
LEMMA NextIsDelivered ==
  ASSUME StreamInv, sent # <<>>, line = <<>>, UNCHANGED <<rx, buffer>>,
         NEW p \in Packets, line' = p, Final(sent') = p,
         \/ Delivering
         \/ Plain(Final(sent)) /\ CutOff
         \/ Behind /\ calm >= BufferSize
  PROVE  Delivering'
  <1> DEFINE q == Final(sent)
             b == rx[1]
  <1>1. /\ q \in Packets /\ q \in Seq(Nat) /\ Len(q) >= 4 /\ q # <<>>
        /\ p \in Seq(Nat) /\ Len(p) >= 4
    BY LastSent, PacketFacts DEF Final
  <1>2. /\ IsBeginning(buffer) /\ buffer \in Seq(Nat) /\ Len(buffer) \in Nat
        /\ Len(buffer) < BufferSize /\ BufferSize \in Nat /\ rx \in Seq(Nat) /\ calm \in Nat
    BY StreamTypes
  <1>3. rx \o line = rx
    BY <1>2, Nothing
  <1>4. Len(<<>>) = 0
    BY EmptySeq
  <1>5. CASE rx = <<>>
    <2>1. Len(buffer) <= 1
      <3>1. CASE Delivering
        <4>1. buffer = <<>>
          BY <1>1, <1>3, <1>5, <3>1 DEF Delivering, LastIsDelivered
        <4> QED BY <1>4, <4>1
      <3>2. CASE CutOff
        BY <1>3, <1>5, <3>2 DEF CutOff
      <3>3. CASE Behind /\ calm >= BufferSize
        <4>1. calm <= Len(buffer) + 0 + 0
          BY <1>4, <1>5, <3>3 DEF Behind
        <4> QED BY <1>2, <3>3, <4>1
      <3> QED BY <3>1, <3>2, <3>3
    <2>2. rx' \o line' = p
      BY <1>1, <1>5, Nothing
    <2> QED BY <2>1, <2>2 DEF Delivering
  <1>6. CASE rx # <<>>
    <2>1. b \in Nat /\ rx = <<b>> /\ Len(rx) = 1
      BY <1>6, PolledByte
    <2> HIDE DEF b
    <2>2. Len(Feed(b).buffer) <= 1
      <3>1. CASE Delivering
        <4>1. buffer \o rx = q
          <5>1. rx # q /\ line # q
            <6>1. Len(rx) = 1 /\ Len(line) = 0 /\ Len(q) >= 4
              BY <1>1, <1>4, <2>1
            <6>2. line = <<>> /\ q # <<>>
              BY <1>1
            <6>3. ASSUME rx = q PROVE FALSE
              <7>1. Len(q) = 1
                BY <6>1, <6>3
              <7>2. Len(q) \in Nat
                BY <1>1, LenProperties
              <7> HIDE DEF q
              <7> QED BY <6>1, <7>1, <7>2
            <6> QED BY <6>2, <6>3
          <5> HIDE DEF q
          <5> QED BY <1>3, <1>6, <3>1, <5>1 DEF Delivering, q
        <4>2. q = Append(buffer, b) \o <<>> /\ <<>> \in Seq(Nat)
          BY <1>2, <2>1, <4>1, BytesInOrder, Nothing, EmptySeq
        <4>3. Feed(b).buffer = <<>>
          <5> DEFINE none == <<>>
          <5>1. none \in Seq(Nat) /\ none = <<>> /\ q = Append(buffer, b) \o none /\ q \in Packets
            BY <1>1, <4>2
          <5> HIDE DEF q, none
          <5>2. Feed(b) = [buffer |-> <<>>, result |-> "OK", packet |-> q]
            BY <1>2, <2>1, <5>1, FeedOfPacket
          <5> QED BY <5>2
        <4> QED BY <1>4, <4>3
      <3>2. CASE Plain(Final(sent)) /\ CutOff
        BY <1>6, <3>2, FeedOfCutOff DEF b
      <3>3. CASE Behind /\ calm >= BufferSize
        <4>1. calm <= Len(buffer) + 1 + 0
          BY <1>4, <2>1, <3>3 DEF Behind
        <4>2. Len(Append(buffer, b)) = Len(buffer) + 1 /\ Len(Append(buffer, b)) >= BufferSize
          BY <1>2, <2>1, <3>3, <4>1, OneByteMore
        <4>3. /\ IsBeginning(Feed(b).buffer)
              /\ \/ Feed(b).buffer = Append(buffer, b) \/ Feed(b).buffer = <<>>
                 \/ Feed(b).buffer = <<Sync0>>
          BY <1>2, <2>1, FeedKeepsBeginning
        <4>4. Feed(b).buffer # Append(buffer, b)
          <5> SUFFICES ASSUME IsBeginning(Append(buffer, b)) PROVE FALSE
            BY <4>3
          <5>1. Len(Append(buffer, b)) < BufferSize
            BY BeginningFits
          <5> QED BY <1>2, <4>2, <5>1
        <4>5. Len(<<Sync0>>) = 1
          OBVIOUS
        <4>6. CASE Feed(b).buffer = <<>>
          BY <1>4, <4>6
        <4>7. CASE Feed(b).buffer = <<Sync0>>
          BY <4>5, <4>7
        <4> QED BY <4>3, <4>4, <4>6, <4>7
      <3> QED BY <3>1, <3>2, <3>3
    <2>3. Feed(rx[1])' = Feed(b)
      BY DEF Feed, WithRoom, b
    <2>4. rx' # <<>> /\ line' = Final(sent')
      BY <1>6
    <2> QED BY <2>2, <2>3, <2>4 DEF Delivering
  <1> QED BY <1>5, <1>6

LEMMA SendKeepsInStep ==
  ASSUME StreamInv, InStepInv, Send
  PROVE  InStepInv'
  <1>1. PICK p \in Packets : /\ line' = p /\ sent' = Append(sent, p)
                             /\ calm' = IF Plain(p) THEN calm + Len(p) ELSE 0
    BY DEF Send
  <1>2. /\ line = <<>> /\ UNCHANGED <<rx, buffer, delivered>>
        /\ due' = (due \/ calm >= BufferSize)
    BY DEF Send
  <1>3. sent' # <<>> /\ Final(sent') = p
    BY <1>1, SendsLast DEF Final
  <1>4. /\ calm \in Nat /\ BufferSize \in Nat /\ Len(p) \in Nat /\ Len(p) >= 4
        /\ Len(buffer) \in Nat /\ Len(rx) \in Nat
    BY StreamTypes, PacketFacts
  <1>5. BufferSize > 0
    BY StreamConstants DEF BufferSize, PacketSize, HeaderSize, CrcSize
  <1>6. ASSUME sent # <<>>,
               Delivering \/ (Plain(Final(sent)) /\ CutOff) \/ (Behind /\ calm >= BufferSize)
        PROVE  Delivering'
    BY <1>1, <1>2, <1>3, <1>6, NextIsDelivered
  <1>7. ASSUME due' PROVE Delivering'
    <2>1. due \/ calm >= BufferSize
      BY <1>2, <1>7
    <2>2. CASE due
      BY <1>6, <2>2 DEF InStepInv
    <2>3. CASE calm >= BufferSize
      <3>1. calm > 0
        BY <1>4, <1>5, <2>3
      <3> QED BY <1>6, <2>3, <3>1 DEF InStepInv
    <2> QED BY <2>1, <2>2, <2>3
  <1>8. ASSUME calm' > 0 PROVE Plain(p) /\ (Delivering' \/ CutOff' \/ Behind')
    <2>1. Plain(p) /\ calm' = calm + Len(p)
      BY <1>1, <1>8
    <2>2. ASSUME Behind \/ calm = 0 PROVE Behind'
      <3>1. Len(line) = 0 /\ Len(line') = Len(p) /\ Len(rx') = Len(rx) /\ Len(buffer') = Len(buffer)
        BY <1>1, <1>2, EmptySeq
      <3>2. calm <= Len(buffer) + Len(rx)
        BY <1>4, <2>2, <3>1 DEF Behind
      <3>3. calm + Len(p) <= Len(buffer) + Len(rx) + Len(p)
        BY <1>4, <3>2
      <3> QED BY <2>1, <3>1, <3>3 DEF Behind
    <2>3. CASE calm = 0
      BY <2>1, <2>2, <2>3
    <2>4. CASE calm # 0
      <3>1. calm > 0
        BY <1>4, <2>4
      <3> QED BY <1>6, <2>1, <2>2, <3>1 DEF InStepInv
    <2> QED BY <2>3, <2>4
  <1> QED BY <1>1, <1>3, <1>7, <1>8 DEF InStepInv

LEMMA ReceiveKeepsInStep ==
  ASSUME StreamInv, InStepInv, Receive
  PROVE  InStepInv'
  <1>1. /\ line # <<>> /\ rx = <<>> /\ rx' = <<Head(line)>> /\ line' = Tail(line)
        /\ UNCHANGED <<buffer, sent, delivered, calm, due>>
    BY DEF Receive, traffic
  <1>2. /\ line \in Seq(Nat) /\ Len(line) \in Nat /\ Len(line') = Len(line) - 1
        /\ line = <<Head(line)>> \o Tail(line) /\ Len(buffer) \in Nat
    BY <1>1, StreamTypes, HeadTailProperties
  <1>3. rx' \o line' = line /\ rx \o line = line
    BY <1>1, <1>2, Nothing
  <1>4. ASSUME sent # <<>>, line = Final(sent) PROVE EndOf(line, Final(sent))
    BY <1>4, LastSent, WholeIsItsEnd DEF Final
  <1>5. ASSUME Behind PROVE Behind'
    <2>1. Len(rx) = 0 /\ Len(rx') = 1
      BY <1>1, EmptySeq
    <2>2. Len(buffer) + 0 + Len(line) = Len(buffer) + 1 + (Len(line) - 1)
      BY <1>2
    <2> QED BY <1>1, <1>2, <1>5, <2>1, <2>2 DEF Behind
  <1>6. ASSUME Delivering PROVE Delivering'
    BY <1>1, <1>3, <1>6 DEF Delivering
  <1>7. ASSUME CutOff PROVE CutOff'
    BY <1>1, <1>3, <1>7 DEF CutOff
  <1> QED BY <1>1, <1>3, <1>4, <1>5, <1>6, <1>7 DEF InStepInv

LEMMA PollKeepsInStep ==
  ASSUME StreamInv, InStepInv, PollUart
  PROVE  InStepInv'
  <1> DEFINE b == rx[1]
             turn == Feed(b)
             q == Final(sent)
  <1>1. /\ rx # <<>> /\ rx' = <<>> /\ buffer' = turn.buffer
        /\ delivered' = IF turn.result = "OK" THEN Append(delivered, turn.packet) ELSE delivered
        /\ UNCHANGED <<line, sent, calm, due>>
    BY DEF PollUart, traffic
  <1>2. /\ IsBeginning(buffer) /\ buffer \in Seq(Nat) /\ Len(buffer) \in Nat
        /\ Len(buffer) < BufferSize /\ line \in Seq(Nat) /\ Len(line) \in Nat /\ calm \in Nat
        /\ delivered \in Seq(Packets)
    BY StreamTypes
  <1>3. b \in Nat /\ rx = <<b>> /\ Len(rx) = 1
    BY <1>1, PolledByte
  <1>4. rx' \o line' = line /\ rx \o line = <<b>> \o line
    BY <1>1, <1>2, <1>3, Nothing
  <1>5. ASSUME sent # <<>>
        PROVE  /\ q \in Packets /\ q \in Seq(Nat) /\ Len(q) >= 4 /\ q # <<>>
               /\ q[1] = Sync0 /\ Len(q) \in Nat
    BY <1>5, LastSent, PacketFacts DEF Final
  <1> HIDE DEF b
  <1>6. turn.buffer = Append(buffer, b) \/ turn.buffer = <<>> \/ (turn.buffer = <<Sync0>> /\ b = Sync0)
    BY <1>2, <1>3, FeedKeepsBeginning
  <1>7. Len(<<>>) = 0 /\ Len(<<Sync0>>) = 1
    BY EmptySeq
  <1>8. ASSUME sent # <<>>, line = q \/ EndOf(rx \o line, q)
        PROVE  line = q \/ EndOf(line, q)
    <2>1. EndOf(<<b>> \o line, q) => EndOf(line, q)
      <3> HIDE DEF q
      <3> QED BY <1>2, <1>3, <1>5, <1>8, EndOfTail
    <2> QED BY <1>4, <1>8, <2>1
  <1>9. ASSUME sent # <<>>, Delivering
        PROVE  Delivering'
    <2> HIDE DEF turn, q
    <2>1. CASE buffer \o (rx \o line) = q
      <3>1. q = Append(buffer, b) \o line
        BY <1>2, <1>3, <1>4, <2>1, BytesInOrder
      <3>2. turn = IF line = <<>>
                   THEN [buffer |-> <<>>, result |-> "OK", packet |-> q]
                   ELSE [buffer |-> Append(buffer, b), result |-> "BAD_LENGTH", packet |-> <<>>]
        BY <1>2, <1>3, <1>5, <1>9, <3>1, FeedOfPacket DEF turn
      <3>3. CASE line = <<>>
        <4>1. buffer' = <<>> /\ delivered' = Append(delivered, q)
          BY <1>1, <3>2, <3>3
        <4>2. delivered' # <<>> /\ delivered'[Len(delivered')] = q
          <5>1. /\ Len(delivered') = Len(delivered) + 1 /\ Len(delivered) \in Nat
                /\ delivered'[Len(delivered) + 1] = q
            BY <1>2, <1>5, <1>9, <4>1, AppendProperties, LenProperties
          <5> QED BY <1>7, <5>1
        <4> QED BY <1>1, <3>3, <4>1, <4>2 DEF Delivering, LastIsDelivered, Final, q
      <3>4. CASE line # <<>>
        <4>1. buffer' = Append(buffer, b)
          BY <1>1, <3>2, <3>4
        <4> QED BY <1>1, <1>4, <3>1, <3>4, <4>1 DEF Delivering, q
      <3> QED BY <3>3, <3>4
    <2>2. CASE rx \o line = q /\ Len(buffer) <= 1
      <3>1. q = <<b>> \o line
        BY <1>4, <2>2
      <3>2. <<b>> \in Seq(Nat) /\ Len(<<b>>) = 1 /\ <<b>>[1] = b
        BY <1>3
      <3>3. Len(q) = 1 + Len(line) /\ q[1] = b
        <4>1. /\ Len(<<b>> \o line) = Len(<<b>>) + Len(line)
              /\ \A i \in 1 .. Len(<<b>>) : (<<b>> \o line)[i] = <<b>>[i]
          BY <1>2, <3>2, ConcatFacts
        <4>2. 1 \in 1 .. Len(<<b>>)
          BY <3>2
        <4> QED BY <3>1, <3>2, <4>1, <4>2
      <3>4. b = Sync0 /\ b # Sync1
        BY <1>5, <1>9, <3>3, StreamConstants
      <3>5. turn.buffer = <<Sync0>>
        BY <1>2, <1>3, <2>2, <3>4, FeedOfTail DEF turn
      <3>6. buffer' \o line = q
        BY <1>1, <3>1, <3>4, <3>5
      <3>7. line # <<>>
        BY <1>5, <1>7, <1>9, <3>3
      <3> QED BY <1>1, <1>4, <3>6, <3>7 DEF Delivering, q
    <2>3. CASE line = q /\ Len(turn.buffer) <= 1
      BY <1>1, <1>4, <2>3 DEF Delivering, q
    <2> QED BY <1>1, <1>9, <2>1, <2>2, <2>3 DEF Delivering, turn, q, b
  <1>10. ASSUME sent # <<>>, Plain(q), CutOff
         PROVE  CutOff'
    <2>1. /\ EndOf(turn.buffer \o line, q) /\ Len(turn.buffer \o line) < Len(q)
          /\ Len(turn.buffer) <= IF line = <<>> THEN 1 ELSE 2
      BY <1>1, <1>10, FeedOfCutOff DEF b
    <2> HIDE DEF turn
    <2>2. buffer' \o (rx' \o line') = turn.buffer \o line /\ Final(sent') = q
      BY <1>1, <1>4
    <2> QED BY <1>1, <1>4, <2>1, <2>2 DEF CutOff
  <1>11. ASSUME sent # <<>>, Behind, line = q \/ EndOf(rx \o line, q)
         PROVE  Delivering' \/ CutOff' \/ Behind'
    <2> HIDE DEF turn, q
    <2>1. CASE turn.buffer = Append(buffer, b)
      <3>1. Len(buffer') = Len(buffer) + 1 /\ Len(rx') = 0 /\ Len(line') = Len(line)
        BY <1>1, <1>2, <1>3, <1>7, <2>1, OneByteMore
      <3>2. Len(buffer) + 1 + Len(line) = (Len(buffer) + 1) + 0 + Len(line)
        BY <1>2
      <3>3. calm <= Len(buffer) + 1 + Len(line)
        BY <1>3, <1>11 DEF Behind
      <3>4. Behind'
        BY <1>1, <3>1, <3>2, <3>3 DEF Behind
      <3> QED BY <3>4
    <2>2. CASE turn.buffer = <<>> \/ (turn.buffer = <<Sync0>> /\ b = Sync0)
      <3>1. Len(turn.buffer) <= 1
        <4>1. CASE turn.buffer = <<>>
          BY <1>7, <4>1
        <4>2. CASE turn.buffer = <<Sync0>>
          BY <1>7, <4>2
        <4> QED BY <2>2, <4>1, <4>2
      <3>2. CASE line = q
        BY <1>1, <1>4, <3>1, <3>2 DEF Delivering, q
      <3>3. CASE EndOf(<<b>> \o line, q)
        <4>1. /\ EndOf(line, q) /\ Len(line) < Len(q)
              /\ Len(line) + 1 = Len(q) => <<b>> \o line = q
          <5>1. b \in Nat /\ line \in Seq(Nat) /\ q \in Seq(Nat)
            BY <1>2, <1>3, <1>5, <1>11
          <5> QED BY ONLY <3>3, <5>1, EndOfTail
        <4>2. Len(<<b>> \o line) = 1 + Len(line)
          <5>1. <<b>> \in Seq(Nat) /\ Len(<<b>>) = 1
            BY <1>3
          <5> QED BY <1>2, <5>1, ConcatFacts
        <4>3. CASE turn.buffer = <<>>
          <5>1. buffer' \o (rx' \o line') = line
            BY <1>1, <1>2, <1>4, <4>3, Nothing
          <5>2. Len(buffer') <= IF rx' \o line' = <<>> THEN 1 ELSE 2
            BY <1>1, <1>7, <4>3
          <5> QED BY <1>1, <4>1, <5>1, <5>2 DEF CutOff, q
        <4>4. CASE turn.buffer = <<b>>
          <5>1. buffer' \o (rx' \o line') = <<b>> \o line
            BY <1>1, <1>4, <4>4
          <5>2. CASE Len(line) + 1 = Len(q)
            <6>1. line # <<>>
              BY <1>5, <1>7, <1>11, <5>2
            <6>2. rx' \o line' = line
              BY <1>4
            <6>3. buffer' \o (rx' \o line') = q
              BY <4>1, <5>1, <5>2
            <6> QED BY <1>1, <6>1, <6>2, <6>3 DEF Delivering, q
          <5>3. CASE Len(line) + 1 # Len(q)
            <6>1. Len(<<b>> \o line) < Len(q)
              BY <1>2, <1>5, <1>11, <4>1, <4>2, <5>3
            <6>2. Len(buffer') <= IF rx' \o line' = <<>> THEN 1 ELSE 2
              BY <1>1, <4>4
            <6> QED BY <1>1, <3>3, <5>1, <6>1, <6>2 DEF CutOff, q
          <5> QED BY <5>2, <5>3
        <4> QED BY <2>2, <4>3, <4>4
      <3> QED BY <1>4, <1>11, <3>2, <3>3
    <2> QED BY <1>6, <2>1, <2>2 DEF turn
  <1>12. calm > 0 \/ due => sent # <<>> /\ (line = q \/ EndOf(rx \o line, q))
    BY DEF InStepInv
  <1>13. calm' > 0 \/ due' => sent' # <<>> /\ (line' = Final(sent') \/ EndOf(rx' \o line', Final(sent')))
    BY <1>1, <1>4, <1>8, <1>12
  <1>14. due' => Delivering'
    BY <1>1, <1>9, <1>12 DEF InStepInv
  <1>15. calm' > 0 => Plain(Final(sent')) /\ (Delivering' \/ CutOff' \/ Behind')
    <2> SUFFICES ASSUME calm > 0
                 PROVE  Plain(q) /\ (Delivering' \/ CutOff' \/ Behind')
      BY <1>1
    <2>1. Plain(q) /\ (Delivering \/ CutOff \/ Behind)
      BY DEF InStepInv
    <2> QED BY <1>9, <1>10, <1>11, <1>12, <2>1
  <1> QED BY <1>13, <1>14, <1>15 DEF InStepInv

LEMMA StepKeepsInStep ==
  StreamInv /\ InStepInv /\ [StreamNext]_streamVars => InStepInv'
  <1> SUFFICES ASSUME StreamInv, InStepInv, [StreamNext]_streamVars
               PROVE  InStepInv'
    OBVIOUS
  <1>1. CASE UNCHANGED streamVars
    <2>1. UNCHANGED <<line, rx, buffer, sent, delivered, calm, due>>
      BY <1>1 DEF streamVars, traffic
    <2>2. Feed(rx[1])' = Feed(rx[1])
      BY <2>1 DEF Feed, WithRoom
    <2> QED BY <2>1, <2>2 DEF InStepInv, Delivering, CutOff, Behind, LastIsDelivered
  <1>2. CASE Disturb
    <2>1. calm' = 0 /\ due' = FALSE
      BY <1>2 DEF Disturb
    <2>2. ~(calm' > 0) /\ ~due'
      BY <2>1
    <2> QED BY <2>2 DEF InStepInv
  <1> QED BY <1>1, <1>2, SendKeepsInStep, ReceiveKeepsInStep, PollKeepsInStep
      DEF StreamNext, Overrun, Noise

-----------------------------------------------------------------------------
(* The stream. *)

\* Whatever is lost or made up on the line, the buffer of update_stream_feed holds
\* the beginning of one packet and has room for the next byte; and until something
\* is, the packets not yet delivered are on their way, whole and in order.
THEOREM StreamInvariant == StreamSpec => []StreamInv
  BY StreamInitInv, StreamStepInv, PTL DEF StreamSpec

\* At no time has the device anything else than the first of the packets sent.  On a
\* disturbed line noise can spell a packet: then it is the CRC's affair.
THEOREM LineDeliversWhatWasSent == StreamSpec => [](faults = 0 => DeliversWhatWasSent)
  <1>1. StreamInv => (faults = 0 => DeliversWhatWasSent)
    <2> SUFFICES ASSUME StreamInv, faults = 0
                 PROVE  DeliversWhatWasSent
      OBVIOUS
    <2>1. sent \in Seq(Packets) /\ delivered \in Seq(Packets) /\ ArrivesInOrder
      BY DEF StreamInv, AwaitsOnePacket, StreamTypeOK
    <2>2. Len(delivered) <= Len(sent) /\ delivered = SubSeq(sent, 1, Len(delivered))
      BY <2>1 DEF ArrivesInOrder
    <2> QED BY <2>1, <2>2, BeginningWasSent
  <1> QED BY <1>1, StreamInvariant, PTL

\* A disturbed byte makes no more than one answer that refuses a packet, and a false
\* header no more than another: what is refused began at a marker that was not the
\* beginning of a packet, or holds a fault, and is dropped as a whole.
THEOREM OneRefusalPerFault == StreamSpec => []RefusesOncePerFault
  <1>1. StreamInv /\ RefusalsInv => RefusesOncePerFault
    <2> SUFFICES ASSUME StreamInv, RefusalsInv
                 PROVE  refused <= faults + claims
      BY DEF RefusesOncePerFault
    <2> DEFINE c == Cardinality(Doubtful(buffer \o (rx \o line)))
               d == Cardinality(Doubtful(line))
    <2>1. c \in Nat /\ d \in Nat /\ refused \in Nat /\ faults \in Nat /\ claims \in Nat
      BY StreamTypes, DoubtfulIsFinite
    <2>2. refused + c <= faults + claims \/ refused + 1 + d <= faults + claims
      BY DEF RefusalsInv
    <2> HIDE DEF c, d
    <2> QED BY <2>1, <2>2
  <1>2. StreamSpec => []StreamInv
    BY StreamInvariant
  <1>3. StreamSpec => []RefusalsInv
    BY <1>2, InitRefusals, StepKeepsRefusals, PTL DEF StreamSpec
  <1> QED BY <1>1, <1>2, <1>3, PTL

\* When packets without a false header, together as long as the buffer, have passed
\* since the last fault, every packet is delivered until the next fault, whatever it
\* holds.
THEOREM ParserIsBackInStep == StreamSpec => []Resynchronizes
  <1>1. StreamInit => InStepInv
    <2> SUFFICES ASSUME StreamInit PROVE InStepInv
      OBVIOUS
    <2>1. calm = 0 /\ due = FALSE
      BY DEF StreamInit
    <2>2. ~(calm > 0) /\ ~due
      BY <2>1
    <2> QED BY <2>2 DEF InStepInv
  <1>2. StreamInv /\ InStepInv => Resynchronizes
    <2> SUFFICES ASSUME StreamInv, InStepInv, due, line = <<>>, rx = <<>>
                 PROVE  LastIsDelivered
      BY DEF Resynchronizes
    <2>1. Delivering /\ sent # <<>>
      BY DEF InStepInv
    <2>2. Final(sent) # <<>> /\ rx \o line = <<>>
      BY <2>1, LastSent DEF Final
    <2> QED BY <2>1, <2>2 DEF Delivering
  <1>3. StreamSpec => []StreamInv
    BY StreamInvariant
  <1> QED BY <1>1, <1>2, <1>3, StepKeepsInStep, PTL DEF StreamSpec

-----------------------------------------------------------------------------
(* A noisy line. *)

IsCrc(b) == \E p \in Packets : b = Crc(p)

\* What was delivered was sent before what is still on the line, and before the
\* packet whose CRC is in the register.
SentBefore(at) ==
  /\ line # <<>> => \A n \in DOMAIN delivered : at[n] < Len(sent)
  /\ rx # <<>> /\ IsCrc(rx[1]) =>
       \E k \in DOMAIN sent :
         /\ rx[1] = Crc(sent[k])
         /\ line # <<>> => k < Len(sent)
         /\ \A n \in DOMAIN delivered : at[n] < k

OriginsInv == \E at : Maps(at, delivered, sent) /\ SentBefore(at)

LEMMA SendKeepsOrigins ==
  ASSUME StreamInv, OriginsInv, Send
  PROVE  OriginsInv'
  <1>1. PICK p \in Packets : line' = p /\ sent' = Append(sent, p)
    BY DEF Send
  <1>2. line = <<>> /\ UNCHANGED <<rx, delivered>>
    BY DEF Send
  <1>3. sent \in Seq(Packets) /\ delivered \in Seq(Packets)
    BY DEF StreamInv, AwaitsOnePacket, StreamTypeOK
  <1>4. PICK at : Maps(at, delivered, sent) /\ SentBefore(at)
    BY DEF OriginsInv
  <1>5. /\ Len(sent') = Len(sent) + 1 /\ sent'[Len(sent')] = p /\ Len(sent) \in Nat
        /\ DOMAIN sent = 1 .. Len(sent) /\ DOMAIN sent' = 1 .. Len(sent')
        /\ \A k \in 1 .. Len(sent) : sent'[k] = sent[k]
    BY <1>1, <1>3, AppendProperties, LenProperties
  <1>7. Maps(at, delivered', sent') /\ \A n \in DOMAIN delivered' : at[n] < Len(sent')
    BY <1>1, <1>2, <1>3, <1>4, MapsIntoLonger
  <1>8. ASSUME rx # <<>>, IsCrc(rx[1])
        PROVE  \E k \in DOMAIN sent' : /\ rx[1] = Crc(sent'[k]) /\ k < Len(sent')
                                       /\ \A n \in DOMAIN delivered : at[n] < k
    <2>1. PICK k \in DOMAIN sent : rx[1] = Crc(sent[k]) /\ \A n \in DOMAIN delivered : at[n] < k
      BY <1>4, <1>8 DEF SentBefore
    <2>2. k \in DOMAIN sent' /\ k < Len(sent') /\ sent'[k] = sent[k]
      BY <1>5
    <2> QED BY <2>1, <2>2
  <1>9. SentBefore(at)'
    BY <1>2, <1>7, <1>8 DEF SentBefore, IsCrc
  <1> QED BY <1>7, <1>9 DEF OriginsInv

\* The byte that leaves the line.
LEMMA HeadOfLine ==
  ASSUME StreamInv, LineInv, line # <<>>
  PROVE  /\ Len(sent) \in DOMAIN sent /\ sent[Len(sent)] \in Packets
         /\ \E i \in DOMAIN sent[Len(sent)] :
              /\ Head(line) = sent[Len(sent)][i]
              /\ i = Len(sent[Len(sent)]) => Tail(line) = <<>>
  <1> DEFINE p == sent[Len(sent)]
  <1>1. line \in Seq(Nat) /\ sent \in Seq(Packets) /\ Len(sent) \in Nat
    BY StreamTypes, LenProperties
  <1>2. sent # <<>> /\ EndOf(line, p)
    BY DEF LineInv
  <1>3. Len(sent) \in DOMAIN sent /\ p \in Packets
    BY <1>1, <1>2, LastSent, LenProperties
  <1>4. p \in Seq(Nat) /\ Len(p) \in Nat /\ DOMAIN p = 1 .. Len(p)
    BY <1>3, PacketFacts, LenProperties
  <1> HIDE DEF p
  <1>6. /\ Len(line) \in Nat /\ Len(line) >= 1 /\ Len(Tail(line)) = Len(line) - 1
        /\ Tail(line) \in Seq(Nat)
    BY <1>1, EmptySeq, HeadTailProperties
  <1>7. Head(line) = line[1] /\ line[1] = p[Len(p) - Len(line) + 1]
    BY <1>1, <1>2, <1>6 DEF EndOf
  <1> DEFINE i == Len(p) - Len(line) + 1
  <1>8. i \in DOMAIN p
    BY <1>2, <1>4, <1>6 DEF EndOf
  <1>9. ASSUME i = Len(p) PROVE Tail(line) = <<>>
    <2>1. Len(Tail(line)) = 0
      BY <1>4, <1>6, <1>9
    <2> QED BY <1>6, <2>1, EmptySeq
  <1> QED BY <1>3, <1>7, <1>8, <1>9 DEF p

LEMMA ReceiveKeepsOrigins ==
  ASSUME StreamInv, LineInv, OriginsInv, CrcTells, Receive
  PROVE  OriginsInv'
  <1>1. /\ line # <<>> /\ rx' = <<Head(line)>> /\ line' = Tail(line)
        /\ UNCHANGED <<sent, delivered>>
    BY DEF Receive
  <1> DEFINE p == sent[Len(sent)]
  <1>2. Len(sent) \in DOMAIN sent /\ p \in Packets
    BY <1>1, HeadOfLine
  <1>3. PICK i \in DOMAIN p : Head(line) = p[i] /\ (i = Len(p) => line' = <<>>)
    BY <1>1, HeadOfLine
  <1>4. PICK at : Maps(at, delivered, sent) /\ SentBefore(at)
    BY DEF OriginsInv
  <1>5. \A n \in DOMAIN delivered : at[n] < Len(sent)
    BY <1>1, <1>4 DEF SentBefore
  <1>6. ASSUME IsCrc(rx'[1])
        PROVE  rx'[1] = Crc(p) /\ line' = <<>>
    <2>1. PICK q \in Packets : Head(line) = Crc(q)
      BY <1>1, <1>6 DEF IsCrc
    <2>2. i = Len(p) /\ q = p
      BY <1>2, <1>3, <2>1 DEF CrcTells
    <2> QED BY <1>1, <1>3, <2>1, <2>2
  <1>7. SentBefore(at)'
    BY <1>1, <1>2, <1>5, <1>6 DEF SentBefore, IsCrc
  <1> QED BY <1>1, <1>4, <1>7 DEF OriginsInv

LEMMA OverrunKeepsOrigins ==
  ASSUME StreamInv, OriginsInv, Overrun
  PROVE  OriginsInv'
  <1>1. line # <<>> /\ line' = Tail(line) /\ UNCHANGED <<rx, sent, delivered>>
    BY DEF Overrun
  <1>3. PICK at : Maps(at, delivered, sent) /\ SentBefore(at)
    BY DEF OriginsInv
  <1>4. SentBefore(at)'
    BY <1>1, <1>3 DEF SentBefore, IsCrc
  <1> QED BY <1>1, <1>3, <1>4 DEF OriginsInv

LEMMA NoiseKeepsOrigins ==
  ASSUME StreamInv, OriginsInv, CrcTells, Noise
  PROVE  OriginsInv'
  <1>1. UNCHANGED <<line, sent, delivered>>
    BY DEF Noise
  <1>2. PICK b \in NoiseBytes : rx' = <<b>>
    BY DEF Noise
  <1>3. ~IsCrc(rx'[1])
    BY <1>2 DEF CrcTells, IsCrc
  <1>4. PICK at : Maps(at, delivered, sent) /\ SentBefore(at)
    BY DEF OriginsInv
  <1>5. SentBefore(at)'
    BY <1>1, <1>3, <1>4 DEF SentBefore, IsCrc
  <1> QED BY <1>1, <1>4, <1>5 DEF OriginsInv

LEMMA PollKeepsOrigins ==
  ASSUME StreamInv, OriginsInv, CrcTells, PollUart
  PROVE  OriginsInv'
  <1> DEFINE took == Feed(rx[1])
  <1>1. /\ rx # <<>> /\ rx' = <<>> /\ UNCHANGED <<line, sent>>
        /\ delivered' = IF took.result = "OK" THEN Append(delivered, took.packet) ELSE delivered
    BY DEF PollUart
  <1>2. PICK at : Maps(at, delivered, sent) /\ SentBefore(at)
    BY DEF OriginsInv
  <1>3. /\ sent \in Seq(Packets) /\ delivered \in Seq(Packets) /\ rx[1] \in Nat
        /\ Len(buffer) < BufferSize /\ IsBeginning(buffer)
    <2>1. StreamTypeOK
      BY DEF StreamInv, AwaitsOnePacket
    <2>2. 1 \in 1 .. Len(rx)
      BY <1>1, <2>1, EmptySeq DEF StreamTypeOK
    <2> QED BY <2>1, <2>2, ElementOfSeq, AwaitsOnePacketIs DEF StreamInv, StreamTypeOK
  <1> HIDE DEF took
  <1>4. CASE took.result # "OK"
    BY <1>1, <1>2, <1>4 DEF OriginsInv, SentBefore
  <1>5. CASE took.result = "OK"
    <2>1. took.packet \in Packets /\ rx[1] = Crc(took.packet)
      BY <1>3, <1>5, FeedKeepsBeginning DEF Crc, took
    <2>2. PICK k \in DOMAIN sent : /\ rx[1] = Crc(sent[k]) /\ (line # <<>> => k < Len(sent))
                                  /\ \A n \in DOMAIN delivered : at[n] < k
      BY <1>1, <1>2, <2>1 DEF SentBefore, IsCrc
    <2>3. sent[k] \in Packets
      BY <1>3, LenProperties, ElementOfSeq
    <2>4. sent[k] = took.packet
      <3>1. Len(sent[k]) \in DOMAIN sent[k] /\ sent[k][Len(sent[k])] = Crc(took.packet)
        BY <2>1, <2>2, <2>3, PacketFacts, LenProperties DEF Crc
      <3> QED BY <2>1, <2>3, <3>1 DEF CrcTells
    <2>5. PICK to : /\ Maps(to, Append(delivered, took.packet), sent)
                    /\ \A n \in DOMAIN Append(delivered, took.packet) : to[n] <= k
      BY <1>2, <1>3, <2>1, <2>2, <2>4, MapsOneMore
    <2>6. Maps(to, delivered', sent') /\ \A n \in DOMAIN delivered' : to[n] <= k
      BY <1>1, <1>5, <2>5
    <2>7. line # <<>> => \A n \in DOMAIN delivered' : to[n] < Len(sent)
      <3>1. k \in Nat /\ Len(sent) \in Nat /\ DOMAIN sent = 1 .. Len(sent)
        BY <1>3, LenProperties
      <3>2. \A n \in DOMAIN delivered' : to[n] \in Nat
        BY <1>1, <2>6, <3>1 DEF Maps
      <3> QED BY <2>2, <2>6, <3>1, <3>2
    <2>8. SentBefore(to)'
      BY <1>1, <2>7 DEF SentBefore
    <2> QED BY <1>1, <2>6, <2>8 DEF OriginsInv
  <1> QED BY <1>4, <1>5

\* Even on a line that loses bytes and makes some up, as long as the CRC tells what
\* is a packet.
THEOREM NoisyLineDeliversWhatWasSent ==
  ASSUME CrcTells
  PROVE  StreamSpec => []DeliversWhatWasSent
  <1>1. StreamInit => OriginsInv
    <2> SUFFICES ASSUME StreamInit PROVE OriginsInv
      OBVIOUS
    <2>1. line = <<>> /\ rx = <<>> /\ delivered = <<>>
      BY DEF StreamInit
    <2> QED BY <2>1, MapsNothing DEF OriginsInv, SentBefore
  <1>2. StreamInv /\ LineInv /\ OriginsInv /\ [StreamNext]_streamVars => OriginsInv'
    <2> SUFFICES ASSUME StreamInv, LineInv, OriginsInv, [StreamNext]_streamVars
                 PROVE  OriginsInv'
      OBVIOUS
    <2>1. CASE UNCHANGED streamVars
      <3>1. UNCHANGED <<line, rx, sent, delivered>>
        BY <2>1 DEF streamVars
      <3> QED BY <3>1 DEF OriginsInv, SentBefore
    <2>2. CASE StreamNext
      BY <2>2, SendKeepsOrigins, ReceiveKeepsOrigins, OverrunKeepsOrigins,
         NoiseKeepsOrigins, PollKeepsOrigins DEF StreamNext
    <2> QED BY <2>1, <2>2
  <1>3. OriginsInv => DeliversWhatWasSent
    BY MappedWasSent DEF OriginsInv
  <1>4. StreamSpec => []StreamInv /\ []LineInv
    BY StreamInvariant, LineInvariant
  <1> QED BY <1>1, <1>2, <1>3, <1>4, PTL DEF StreamSpec

-----------------------------------------------------------------------------
(* Fragments of a CAN packet: how many, and where they begin. *)

LEMMA CanConstants ==
  /\ FirstChunk \in Nat /\ FirstChunk >= 1 /\ NextChunk \in Nat /\ NextChunk >= 1
  /\ MinLength \in Nat /\ MaxLength \in Nat
  /\ FirstChunk < MinLength /\ MinLength <= MaxLength /\ FirstChunk < MaxLength
  /\ MaxFaults \in Nat /\ MaxFaults >= 1 /\ MaxPackets \in Nat
  BY CanAssumption, PacketAssumption

LEMMA CanPacketFacts ==
  ASSUME NEW p \in Packets
  PROVE  /\ p \in Seq(Nat) /\ Len(p) \in Nat /\ Len(p) \in MinLength .. MaxLength
         /\ FirstChunk < Len(p) /\ Len(p) >= 1 /\ Len(p) <= MaxLength
  <1>1. p \in Seq(Nat) /\ Len(p) \in MinLength .. MaxLength
    BY PacketAssumption, CanAssumption
  <1>2. Len(p) \in Nat
    BY <1>1, LenProperties
  <1> QED BY <1>1, <1>2, CanConstants

\* What a division that is rounded up says.
LEMMA RoundedUp ==
  ASSUME NEW d \in Nat, NEW n \in Nat, n >= 1, NEW j \in Nat
  PROVE  /\ (d + n - 1) \div n \in Nat
         /\ j < (d + n - 1) \div n <=> j * n < d
  <1> DEFINE a == d + n - 1
             q == a \div n
  <1>1. a \in Nat
    OBVIOUS
  <1>2. q \in Nat /\ q * n <= a /\ a < q * n + n
    BY <1>1
  <1> HIDE DEF q
  <1>3. j < q => j * n < d
    <2> SUFFICES ASSUME j < q PROVE j * n < d
      OBVIOUS
    <2>1. j + 1 <= q
      BY <1>2
    <2>2. (j + 1) * n <= q * n
      BY <1>2, <2>1
    <2>3. (j + 1) * n = j * n + n /\ j * n \in Nat /\ q * n \in Nat
      BY <1>2
    <2> QED BY <1>2, <2>2, <2>3
  <1>4. ~(j < q) => ~(j * n < d)
    <2> SUFFICES ASSUME ~(j < q) PROVE ~(j * n < d)
      OBVIOUS
    <2>1. q * n <= j * n
      BY <1>2
    <2>2. j * n \in Nat /\ q * n \in Nat
      BY <1>2
    <2> QED BY <1>2, <2>1, <2>2
  <1> QED BY <1>2, <1>3, <1>4 DEF q

\* The fragments before the last index are those that begin within the packet.
LEMMA Offsets ==
  ASSUME NEW len \in Nat, FirstChunk < len, NEW k \in Nat
  PROVE  /\ CountFor(len) \in Nat /\ CountFor(len) >= 2
         /\ OffsetOf(k) \in Nat /\ (OffsetOf(k) = 0 <=> k = 0)
         /\ k < CountFor(len) <=> OffsetOf(k) < len
  <1> DEFINE d == len - FirstChunk
             q == (d + NextChunk - 1) \div NextChunk
  <1>1. d \in Nat /\ d >= 1
    BY CanConstants
  <1>2. q \in Nat /\ \A j \in Nat : j < q <=> j * NextChunk < d
    BY <1>1, CanConstants, RoundedUp
  <1>3. 0 * NextChunk = 0
    BY CanConstants
  <1>4. q >= 1
    <2>1. 0 < q <=> 0 * NextChunk < d
      BY <1>2
    <2> QED BY <1>1, <1>2, <1>3, <2>1
  <1> HIDE DEF q
  <1>5. CountFor(len) = 1 + q
    BY DEF CountFor, q
  <1>6. CASE k = 0
    <2>1. OffsetOf(k) = 0
      BY <1>6 DEF OffsetOf
    <2>2. CountFor(len) \in Nat /\ CountFor(len) >= 2
      BY <1>2, <1>4, <1>5
    <2>3. k < CountFor(len) /\ 0 < len
      BY <1>6, <2>2, CanConstants
    <2> QED BY <1>6, <2>1, <2>2, <2>3
  <1>7. CASE k # 0
    <2> DEFINE j == k - 1
    <2>1. j \in Nat /\ k = j + 1
      BY <1>7
    <2>2. OffsetOf(k) = FirstChunk + j * NextChunk
      BY <1>7 DEF OffsetOf
    <2>3. j < q <=> j * NextChunk < d
      BY <1>2, <2>1
    <2> DEFINE m == j * NextChunk
    <2> HIDE DEF j
    <2>4. m \in Nat
      BY <2>1, CanConstants
    <2> HIDE DEF m
    <2>5. m < d <=> FirstChunk + m < len
      BY <1>1, <2>4, CanConstants
    <2>6. OffsetOf(k) = FirstChunk + m /\ (j < q <=> m < d)
      BY <2>2, <2>3 DEF m
    <2>7. k < CountFor(len) <=> j < q
      BY <1>2, <1>5, <2>1
    <2>8. OffsetOf(k) \in Nat /\ OffsetOf(k) # 0
      BY <2>4, <2>6, CanConstants
    <2> QED BY <1>2, <1>4, <1>5, <1>7, <2>5, <2>6, <2>7, <2>8
  <1> QED BY <1>6, <1>7

\* A fragment begins where the one before ends.
LEMMA NextOffset ==
  ASSUME NEW k \in Nat
  PROVE  /\ Capacity(OffsetOf(k)) \in Nat /\ Capacity(OffsetOf(k)) >= 1
         /\ Capacity(OffsetOf(k)) = IF k = 0 THEN FirstChunk ELSE NextChunk
         /\ OffsetOf(k) \in Nat
         /\ OffsetOf(k + 1) = OffsetOf(k) + Capacity(OffsetOf(k))
  <1>1. CASE k = 0
    <2>1. OffsetOf(k) = 0 /\ OffsetOf(k + 1) = FirstChunk + 0 * NextChunk
      BY <1>1 DEF OffsetOf
    <2>2. 0 * NextChunk = 0
      BY CanConstants
    <2> QED BY <1>1, <2>1, <2>2, CanConstants DEF Capacity
  <1>2. CASE k # 0
    <2> DEFINE m == (k - 1) * NextChunk
    <2>1. OffsetOf(k) = FirstChunk + m
      BY <1>2 DEF OffsetOf
    <2>2. k - 1 \in Nat
      BY <1>2
    <2>3. m \in Nat
      BY <2>2, CanConstants
    <2>4. OffsetOf(k + 1) = FirstChunk + k * NextChunk
      BY <1>2 DEF OffsetOf
    <2>5. k * NextChunk = m + NextChunk
      BY <1>2, CanConstants
    <2> HIDE DEF m
    <2>6. OffsetOf(k) # 0 /\ OffsetOf(k) \in Nat
      BY <2>1, <2>3, CanConstants
    <2>7. Capacity(OffsetOf(k)) = NextChunk
      BY <2>6 DEF Capacity
    <2>8. OffsetOf(k + 1) = OffsetOf(k) + NextChunk
      BY <2>1, <2>3, <2>4, <2>5, CanConstants
    <2> QED BY <1>2, <2>6, <2>7, <2>8, CanConstants
  <1> QED BY <1>1, <1>2

\* No packet has more fragments than the longest one.
LEMMA CountOfPacket ==
  ASSUME NEW p \in Packets
  PROVE  /\ CountFor(Len(p)) \in Nat /\ CountFor(Len(p)) >= 2
         /\ MaxFragments \in Nat /\ CountFor(Len(p)) <= MaxFragments
  <1>1. Len(p) \in Nat /\ FirstChunk < Len(p) /\ Len(p) <= MaxLength
    BY CanPacketFacts
  <1>2. MaxLength \in Nat /\ FirstChunk < MaxLength
    BY <1>1, CanConstants
  <1> DEFINE c == CountFor(Len(p))
  <1>3. c \in Nat /\ c >= 2
    BY <1>1, Offsets
  <1>4. MaxFragments \in Nat
    BY <1>2, Offsets DEF MaxFragments
  <1>5. c - 1 \in Nat
    BY <1>3
  <1>6. OffsetOf(c - 1) \in Nat /\ (c - 1 < c <=> OffsetOf(c - 1) < Len(p))
    BY <1>1, <1>5, Offsets
  <1>7. c - 1 < MaxFragments <=> OffsetOf(c - 1) < MaxLength
    BY <1>2, <1>5, Offsets DEF MaxFragments
  <1> HIDE DEF c
  <1>8. OffsetOf(c - 1) < MaxLength
    BY <1>1, <1>2, <1>3, <1>6
  <1>9. c <= MaxFragments
    BY <1>3, <1>4, <1>7, <1>8
  <1> QED BY <1>3, <1>4, <1>9 DEF c

-----------------------------------------------------------------------------
(* Frames. *)

LEMMA FrameFacts ==
  ASSUME NEW p \in Packets, NEW o \in 0 .. Len(p) - 1, NEW i
  PROVE  LET f == Frame(p, o, i) IN
         /\ f.start = (o = 0) /\ f.index = i /\ f.total = IF o = 0 THEN Len(p) ELSE 0
         /\ f.end \in BOOLEAN /\ (f.end <=> Len(p) <= o + Capacity(o))
         /\ f.data \in Seq(Nat) /\ Len(f.data) = Capacity(o) /\ Capacity(o) \in Nat
         /\ \A k \in 1 .. Capacity(o) : f.data[k] = IF o + k <= Len(p) THEN p[o + k] ELSE 0
  <1> DEFINE chunk == Lesser(Len(p) - o, Capacity(o))
             f == Frame(p, o, i)
  <1>1. p \in Seq(Nat) /\ Len(p) \in Nat /\ o \in Nat /\ o < Len(p)
    BY CanPacketFacts
  <1>2. Capacity(o) \in Nat /\ Capacity(o) >= 1
    BY CanConstants DEF Capacity
  <1>3. chunk \in Nat /\ chunk <= Capacity(o) /\ chunk <= Len(p) - o
        /\ (chunk = Len(p) - o \/ chunk = Capacity(o))
    BY <1>1, <1>2 DEF Lesser
  <1>4. f = [ start |-> o = 0, end |-> o + chunk = Len(p), index |-> i,
              total |-> IF o = 0 THEN Len(p) ELSE 0,
              data |-> [k \in 1 .. Capacity(o) |-> IF k <= chunk THEN p[o + k] ELSE 0] ]
    BY DEF Frame, Padding
  <1> HIDE DEF chunk, f
  <1>5. /\ f.start = (o = 0) /\ f.index = i /\ f.total = IF o = 0 THEN Len(p) ELSE 0
        /\ f.end = (o + chunk = Len(p))
        /\ f.data = [k \in 1 .. Capacity(o) |-> IF k <= chunk THEN p[o + k] ELSE 0]
    BY <1>4
  <1>6. o + chunk = Len(p) <=> Len(p) <= o + Capacity(o)
    BY <1>1, <1>2, <1>3
  <1>7. \A k \in 1 .. Capacity(o) : f.data[k] = IF o + k <= Len(p) THEN p[o + k] ELSE 0
    <2> TAKE k \in 1 .. Capacity(o)
    <2>1. f.data[k] = IF k <= chunk THEN p[o + k] ELSE 0
      BY <1>5
    <2>2. k <= chunk <=> o + k <= Len(p)
      BY <1>1, <1>2, <1>3
    <2> QED BY <2>1, <2>2
  <1>8. f.data \in Seq(Nat)
    <2>1. \A k \in 1 .. Capacity(o) : (IF k <= chunk THEN p[o + k] ELSE 0) \in Nat
      <3> TAKE k \in 1 .. Capacity(o)
      <3>1. CASE k <= chunk
        <4>1. o + k \in 1 .. Len(p)
          BY <1>1, <1>2, <1>3, <3>1
        <4> QED BY <1>1, <3>1, <4>1, ElementOfSeq
      <3>2. CASE ~(k <= chunk)
        BY <3>2
      <3> QED BY <3>1, <3>2
    <2> QED BY <1>2, <1>5, <2>1, IsASeq
  <1>9. Len(f.data) = Capacity(o)
    <2>1. DOMAIN f.data = 1 .. Capacity(o)
      BY <1>5
    <2>2. DOMAIN f.data = 1 .. Len(f.data) /\ Len(f.data) \in Nat
      BY <1>8, LenProperties
    <2> QED BY <1>2, <1>8, <2>1, LenProperties
  <1> QED BY <1>2, <1>5, <1>6, <1>7, <1>8, <1>9 DEF f

\* What every frame is like, whatever it was part of.
LEMMA FramesFacts ==
  ASSUME NEW f \in Frames
  PROVE  /\ f.start \in BOOLEAN /\ f.end \in BOOLEAN
         /\ f.index \in 0 .. MaxFragments - 1
         /\ f.start => f.total \in MinLength .. MaxLength
         /\ f.data \in Seq(Nat)
         /\ Len(f.data) = IF f.start THEN FirstChunk ELSE NextChunk
  <1>1. PICK p \in Packets :
          f \in {Frame(p, o, i) : o \in 0 .. Len(p) - 1, i \in 0 .. MaxFragments - 1}
    BY DEF Frames
  <1>2. PICK o \in 0 .. Len(p) - 1, i \in 0 .. MaxFragments - 1 : f = Frame(p, o, i)
    BY <1>1
  <1>3. /\ f.start = (o = 0) /\ f.index = i /\ f.total = IF o = 0 THEN Len(p) ELSE 0
        /\ f.end \in BOOLEAN /\ f.data \in Seq(Nat) /\ Len(f.data) = Capacity(o)
    BY <1>2, FrameFacts
  <1>4. Len(p) \in MinLength .. MaxLength
    BY CanPacketFacts
  <1> QED BY <1>3, <1>4 DEF Capacity

-----------------------------------------------------------------------------
(* The two reassemblies, of one frame. *)

\* A beginning of the frame's data, behind what there is, is a beginning of both.
LEMMA CutOfBoth ==
  ASSUME NEW front \in Seq(Nat), NEW data \in Seq(Nat), NEW e \in Nat, Len(front) <= e
  PROVE  LET both == front \o data
             fits == SubSeq(data, 1, Lesser(Len(data), e - Len(front))) IN
         /\ fits \in Seq(Nat) /\ Len(fits) = Lesser(Len(data), e - Len(front))
         /\ \A k \in 1 .. Len(fits) : fits[k] = data[k]
         /\ SubSeq(both, 1, Lesser(Len(both), e)) = front \o fits
         /\ Len(both) = Len(front) + Len(data)
         /\ Len(front \o fits) = Lesser(Len(front) + Len(data), e)
  <1> DEFINE both == front \o data
             n == Lesser(Len(data), e - Len(front))
             fits == SubSeq(data, 1, n)
             m == Lesser(Len(both), e)
             cut == SubSeq(both, 1, m)
  <1>1. Len(front) \in Nat /\ Len(data) \in Nat
    BY LenProperties
  <1>2. n \in Nat /\ n <= Len(data)
    BY <1>1 DEF Lesser
  <1>3. both \in Seq(Nat) /\ Len(both) = Len(front) + Len(data)
        /\ \A i \in 1 .. Len(front) + Len(data) :
             both[i] = IF i <= Len(front) THEN front[i] ELSE data[i - Len(front)]
    BY ConcatProperties
  <1>4. m = Len(front) + n /\ m \in Nat /\ m <= Len(both)
    BY <1>1, <1>3 DEF Lesser
  <1>5. m = Lesser(Len(front) + Len(data), e)
    BY <1>3
  <1> HIDE DEF n, both, m
  <1>6. fits \in Seq(Nat) /\ Len(fits) = n /\ \A k \in 1 .. n : fits[k] = data[k]
    <2>1. 1 \in Int /\ n \in Int /\ \A k \in 1 .. n : data[k] \in Nat
      BY <1>1, <1>2, ElementOfSeq
    <2>2. /\ fits \in Seq(Nat) /\ Len(fits) = IF 1 <= n THEN n - 1 + 1 ELSE 0
          /\ \A k \in 1 .. n - 1 + 1 : fits[k] = data[1 + k - 1]
      BY <2>1, SubSeqProperties
    <2> HIDE DEF fits
    <2> QED BY <1>2, <2>2
  <1>7. cut \in Seq(Nat) /\ Len(cut) = m /\ \A k \in 1 .. m : cut[k] = both[k]
    <2>1. 1 \in Int /\ m \in Int /\ \A k \in 1 .. m : both[k] \in Nat
      BY <1>3, <1>4, ElementOfSeq
    <2>2. /\ cut \in Seq(Nat) /\ Len(cut) = IF 1 <= m THEN m - 1 + 1 ELSE 0
          /\ \A k \in 1 .. m - 1 + 1 : cut[k] = both[1 + k - 1]
      BY <2>1, SubSeqProperties
    <2> HIDE DEF cut
    <2> QED BY <1>4, <2>2
  <1> HIDE DEF fits, cut
  <1>8. /\ front \o fits \in Seq(Nat) /\ Len(front \o fits) = Len(front) + n
        /\ \A i \in 1 .. Len(front) + n :
             (front \o fits)[i] = IF i <= Len(front) THEN front[i] ELSE fits[i - Len(front)]
    BY <1>6, ConcatProperties
  <1> DEFINE joined == front \o fits
  <1>9. /\ joined \in Seq(Nat) /\ Len(joined) = Len(front) + n
        /\ \A i \in 1 .. Len(front) + n :
             joined[i] = IF i <= Len(front) THEN front[i] ELSE fits[i - Len(front)]
    BY <1>8
  <1> HIDE DEF joined
  <1>10. \A i \in 1 .. m : cut[i] = joined[i]
    <2> TAKE i \in 1 .. m
    <2>1. i \in 1 .. Len(front) + Len(data) /\ i \in 1 .. Len(front) + n
      BY <1>1, <1>2, <1>4
    <2>2. CASE i <= Len(front)
      BY <1>3, <1>7, <1>9, <2>1, <2>2
    <2>3. CASE ~(i <= Len(front))
      <3>1. i - Len(front) \in 1 .. n
        BY <1>1, <1>2, <1>4, <2>3
      <3> QED BY <1>3, <1>6, <1>7, <1>9, <2>1, <2>3, <3>1
    <2> QED BY <2>2, <2>3
  <1>11. cut = joined
    BY <1>4, <1>7, <1>9, <1>10, SeqEqual
  <1>12. /\ fits \in Seq(Nat) /\ Len(fits) = n /\ \A k \in 1 .. Len(fits) : fits[k] = data[k]
         /\ cut = front \o fits /\ Len(both) = Len(front) + Len(data)
         /\ Len(front \o fits) = Lesser(Len(front) + Len(data), e)
    BY <1>3, <1>4, <1>5, <1>6, <1>8, <1>11 DEF joined
  <1> QED BY <1>12 DEF fits, cut, both, n, m

\* The rest of both is the rest of the data.
LEMMA RestOfBoth ==
  ASSUME NEW front \in Seq(Nat), NEW data \in Seq(Nat), NEW e \in Nat, Len(front) <= e
  PROVE  LET both == front \o data
             rest == SubSeq(both, e + 1, Len(both)) IN
         /\ rest # <<>> <=> Len(data) > e - Len(front)
         /\ IsPadding(rest) <=>
              \A k \in (e - Len(front)) + 1 .. Len(data) : data[k] = Padding
  <1> DEFINE both == front \o data
             rest == SubSeq(both, e + 1, Len(both))
             room == e - Len(front)
  <1>1. Len(front) \in Nat /\ Len(data) \in Nat
    BY LenProperties
  <1>2. room \in Nat /\ e = Len(front) + room
    BY <1>1
  <1>3. both \in Seq(Nat) /\ Len(both) = Len(front) + Len(data)
        /\ \A i \in 1 .. Len(front) + Len(data) :
             both[i] = IF i <= Len(front) THEN front[i] ELSE data[i - Len(front)]
    BY ConcatProperties
  <1> HIDE DEF both, room
  <1>4. CASE Len(data) <= room
    <2>1. Len(both) < e + 1 /\ e + 1 \in Int /\ Len(both) \in Int
      BY <1>1, <1>2, <1>3, <1>4
    <2>2. rest = <<>>
      BY <2>1, SubSeqEmpty
    <2> HIDE DEF rest
    <2>3. IsPadding(rest)
      BY <2>2 DEF IsPadding
    <2>4. \A k \in room + 1 .. Len(data) : data[k] = Padding
      BY <1>1, <1>2, <1>4
    <2>5. ~(Len(data) > room)
      BY <1>1, <1>2, <1>4
    <2> QED BY <2>2, <2>3, <2>4, <2>5 DEF rest, both, room
  <1>5. CASE ~(Len(data) <= room)
    <2> DEFINE left == Len(data) - room
    <2>1. left \in Nat /\ left >= 1 /\ Len(data) = room + left
      BY <1>1, <1>2, <1>5
    <2>2. Len(both) = e + left /\ e + 1 <= Len(both)
      BY <1>1, <1>2, <1>3, <2>1
    <2> HIDE DEF left
    <2>3. e + 1 \in Int /\ Len(both) \in Int /\ \A i \in e + 1 .. Len(both) : both[i] \in Nat
      <3>1. \A i \in e + 1 .. Len(both) : i \in 1 .. Len(both)
        BY <2>1, <2>2
      <3> QED BY <1>3, <2>1, <2>2, <3>1, ElementOfSeq
    <2>4. /\ rest \in Seq(Nat)
          /\ Len(rest) = IF e + 1 <= Len(both) THEN Len(both) - (e + 1) + 1 ELSE 0
          /\ \A i \in 1 .. Len(both) - (e + 1) + 1 : rest[i] = both[(e + 1) + i - 1]
      BY <2>3, SubSeqProperties
    <2> HIDE DEF rest
    <2>5. Len(both) - (e + 1) + 1 = left
      BY <2>1, <2>2
    <2>6. /\ rest \in Seq(Nat) /\ Len(rest) = left
          /\ \A i \in 1 .. left : rest[i] = both[(e + 1) + i - 1]
      BY <2>2, <2>4, <2>5
    <2>7. \A i \in 1 .. left : rest[i] = data[room + i]
      <3> TAKE i \in 1 .. left
      <3>1. (e + 1) + i - 1 = Len(front) + (room + i) /\ room + i \in 1 .. Len(data)
        BY <1>1, <1>2, <2>1
      <3> DEFINE j == Len(front) + (room + i)
      <3>2. rest[i] = both[j]
        BY <2>6, <3>1
      <3>3. j = Len(front) + (room + i)
        OBVIOUS
      <3> HIDE DEF j
      <3>4. /\ j \in 1 .. Len(front) + Len(data) /\ ~(j <= Len(front))
            /\ j - Len(front) = room + i
        BY ONLY <1>1, <3>1, <3>3
      <3>5. both[j] = data[j - Len(front)]
        BY <1>3, <3>4
      <3> QED BY <3>2, <3>4, <3>5
    <2>8. rest # <<>>
      <3>1. Len(<<>>) = 0 /\ Len(rest) # 0
        BY <2>1, <2>6
      <3> QED BY ONLY <3>1
    <2>9. DOMAIN rest = 1 .. left
      BY <2>6, LenProperties
    <2>10. ASSUME IsPadding(rest), NEW k \in room + 1 .. Len(data)
           PROVE  data[k] = Padding
      <3>1. k - room \in 1 .. left /\ room + (k - room) = k
        BY <1>2, <2>1
      <3>2. rest[k - room] = Padding
        BY <2>9, <2>10, <3>1 DEF IsPadding
      <3> QED BY <2>7, <3>1, <3>2
    <2>11. ASSUME \A k \in room + 1 .. Len(data) : data[k] = Padding
           PROVE  IsPadding(rest)
      <3> SUFFICES ASSUME NEW i \in 1 .. left
                   PROVE  rest[i] = Padding
        BY <2>9 DEF IsPadding
      <3>1. room + i \in room + 1 .. Len(data)
        BY <1>2, <2>1
      <3> QED BY <2>7, <2>11, <3>1
    <2>12. Len(data) > room
      BY <1>1, <1>2, <1>5
    <2> QED BY <2>8, <2>10, <2>11, <2>12 DEF rest, both, room
  <1> QED BY <1>1, <1>2, <1>4, <1>5

Reassemblies ==
  [active : BOOLEAN, expected : 0 .. MaxLength, next : 0 .. MaxFragments, packet : Seq(Nat)]

\* A reassembly that is within a packet and has been given a frame of it.
WithinPacket(r, frame) ==
  /\ r.next >= 1 /\ r.expected \in MinLength .. MaxLength
  /\ Len(r.packet) = OffsetOf(r.next - 1) /\ Len(r.packet) < r.expected
  /\ Len(frame.data) = Capacity(OffsetOf(r.next - 1))

LEMMA OpenedFacts ==
  ASSUME CanTypeOK, AtFragments, NEW f \in Frames
  PROVE  /\ Opened(f) \in Reassemblies
         /\ Len(Opened(f).packet) <= Opened(f).expected
         /\ Opened(f).active => WithinPacket(Opened(f), f)
  <1> DEFINE o == Opened(f)
             r == reassembly
  <1>1. /\ r \in Reassemblies /\ Len(r.packet) <= r.expected
        /\ r.active => /\ r.next >= 1 /\ r.expected \in MinLength .. MaxLength
                       /\ Len(r.packet) = OffsetOf(r.next) /\ Len(r.packet) < r.expected
    BY DEF CanTypeOK, AtFragments, Reassemblies
  <1>2. /\ f.start \in BOOLEAN /\ f.index \in 0 .. MaxFragments - 1 /\ f.data \in Seq(Nat)
        /\ f.start => f.total \in MinLength .. MaxLength
        /\ Len(f.data) = IF f.start THEN FirstChunk ELSE NextChunk
    BY FramesFacts
  <1>3. MaxFragments \in Nat /\ MaxFragments >= 2
    BY CanConstants, Offsets DEF MaxFragments
  <1> DEFINE stopped == [r EXCEPT !.active = FALSE]
  <1>4. /\ stopped \in Reassemblies /\ stopped.active = FALSE
        /\ stopped.packet = r.packet /\ stopped.expected = r.expected
    BY <1>1 DEF Reassemblies
  <1>5. CASE f.start
    <2>1. CASE f.index # 0
      <3>1. o = stopped
        BY <1>5, <2>1 DEF Opened, IsStart
      <3> HIDE DEF o, stopped
      <3> QED BY <1>1, <1>4, <3>1 DEF o
    <2>2. CASE f.index = 0
      <3>1. f.total \in MinLength .. MaxLength
        BY <1>2, <1>5
      <3>2. o = [active |-> TRUE, expected |-> f.total, next |-> 1, packet |-> <<>>]
        BY <1>5, <2>2, <3>1 DEF Opened, IsStart
      <3>3. f.total \in 0 .. MaxLength /\ f.total > 0 /\ 1 \in 0 .. MaxFragments
        BY <1>3, <3>1, CanConstants
      <3>4. <<>> \in Seq(Nat) /\ Len(<<>>) = 0
        OBVIOUS
      <3>5. o \in Reassemblies
        BY <3>2, <3>3, <3>4 DEF Reassemblies
      <3>6. OffsetOf(0) = 0 /\ Capacity(0) = FirstChunk
        BY DEF OffsetOf, Capacity
      <3>7. o.active /\ o.expected = f.total /\ o.next = 1 /\ o.packet = <<>> /\ 1 - 1 = 0
        BY <3>2
      <3> HIDE DEF o
      <3>8. Len(f.data) = FirstChunk
        BY <1>2, <1>5
      <3>9. WithinPacket(o, f)
        BY <3>1, <3>3, <3>4, <3>6, <3>7, <3>8 DEF WithinPacket
      <3>10. Len(o.packet) <= o.expected
        BY <3>3, <3>4, <3>7
      <3> QED BY <3>5, <3>9, <3>10 DEF o
    <2> QED BY <2>1, <2>2
  <1>6. CASE ~f.start
    <2>1. CASE r.active /\ f.index = r.next
      <3>1. o = [r EXCEPT !.next = @ + 1]
        BY <1>6, <2>1 DEF Opened, IsStart
      <3>2. r.next \in Nat /\ r.next + 1 \in 0 .. MaxFragments /\ (r.next + 1) - 1 = r.next
            /\ r.next >= 1
        BY <1>1, <1>2, <1>3, <2>1
      <3>3. o \in Reassemblies
        BY <1>1, <3>1, <3>2 DEF Reassemblies
      <3>4. o.packet = r.packet /\ o.expected = r.expected /\ o.next = r.next + 1
        BY <1>1, <3>1 DEF Reassemblies
      <3> HIDE DEF o, r
      <3>5. Capacity(OffsetOf(r.next)) = NextChunk
        BY <3>2, NextOffset
      <3>6. Len(f.data) = NextChunk
        BY <1>2, <1>6
      <3>7. WithinPacket(o, f)
        BY <1>1, <2>1, <3>2, <3>4, <3>5, <3>6 DEF WithinPacket
      <3> QED BY <1>1, <3>3, <3>4, <3>7 DEF o
    <2>2. CASE ~(r.active /\ f.index = r.next)
      <3>1. o = stopped
        BY <1>6, <2>2 DEF Opened, IsStart
      <3> HIDE DEF o, stopped
      <3> QED BY <1>1, <1>4, <3>1 DEF o
    <2> QED BY <2>1, <2>2
  <1> QED BY <1>2, <1>5, <1>6

\* A frame within a packet brings it to the next fragment, or to its end.
LEMMA ExtendedFacts ==
  ASSUME NEW f \in Frames, NEW o \in Reassemblies, WithinPacket(o, f)
  PROVE  LET r == Extended(o, f) IN
         /\ r = [o EXCEPT !.packet = r.packet] /\ r.packet \in Seq(Nat)
         /\ r.packet = o.packet \o SubSeq(f.data, 1, Lesser(Len(f.data), Room(o)))
         /\ Len(r.packet) = Lesser(OffsetOf(o.next), o.expected)
         /\ r \in Reassemblies /\ r.active = o.active /\ r.expected = o.expected
         /\ r.next = o.next
  <1> DEFINE r == Extended(o, f)
             longer == o.packet \o SubSeq(f.data, 1, Lesser(Len(f.data), Room(o)))
  <1>1. /\ o.packet \in Seq(Nat) /\ o.expected \in Nat /\ o.next \in Nat /\ o.next >= 1
        /\ Len(o.packet) \in Nat /\ Len(o.packet) <= o.expected
        /\ Len(o.packet) = OffsetOf(o.next - 1)
        /\ Len(f.data) = Capacity(OffsetOf(o.next - 1))
    <2>1. o.packet \in Seq(Nat) /\ o.expected \in Nat /\ o.next \in Nat
      BY CanConstants, Offsets DEF Reassemblies, MaxFragments
    <2>2. Len(o.packet) \in Nat
      BY <2>1, LenProperties
    <2> QED BY <2>1, <2>2 DEF WithinPacket
  <1>2. f.data \in Seq(Nat)
    BY FramesFacts
  <1>3. Len(longer) = Lesser(Len(o.packet) + Len(f.data), o.expected)
    BY <1>1, <1>2, CutOfBoth DEF Room
  <1>4. longer \in Seq(Nat)
    <2>1. SubSeq(f.data, 1, Lesser(Len(f.data), Room(o))) \in Seq(Nat)
      BY <1>1, <1>2, CutOfBoth DEF Room
    <2> QED BY <1>1, <2>1, ConcatProperties
  <1>5. r = [o EXCEPT !.packet = longer]
    BY DEF Extended
  <1>6. Len(o.packet) + Len(f.data) = OffsetOf(o.next)
    <2>1. o.next - 1 \in Nat /\ (o.next - 1) + 1 = o.next
      BY <1>1
    <2>2. OffsetOf((o.next - 1) + 1) = OffsetOf(o.next - 1) + Capacity(OffsetOf(o.next - 1))
      BY <2>1, NextOffset
    <2> QED BY <1>1, <2>1, <2>2
  <1> HIDE DEF longer, r
  <1>7. r.packet = longer /\ r.active = o.active /\ r.expected = o.expected /\ r.next = o.next
    BY <1>5 DEF Reassemblies
  <1>8. r \in Reassemblies
    BY <1>4, <1>5 DEF Reassemblies
  <1> QED BY <1>3, <1>4, <1>5, <1>6, <1>7, <1>8 DEF r, longer

\* The frames that neither reassembly refuses.
TakesFrame(frame) ==
  LET o == Opened(frame) IN
  /\ o.active /\ FitsOrIsPadded(o, frame)
  /\ frame.end = (Len(Extended(o, frame).packet) = Extended(o, frame).expected)

\* update_can_reassembly_feed, of any frame.
LEMMA FeedResultIs ==
  ASSUME CanTypeOK, AtFragments, NEW f \in Frames
  PROVE  LET r == Extended(Opened(f), f)
             res == FeedResult(f) IN
         /\ TakesFrame(f) /\ f.end =>
              /\ res = [state |-> [r EXCEPT !.active = FALSE], result |-> "COMPLETE"]
              /\ res.state.active = FALSE /\ res.state.packet = r.packet
         /\ TakesFrame(f) /\ ~f.end =>
              /\ res = [state |-> r, result |-> "NONE"]
              /\ r.active /\ r.next >= 1 /\ r.expected \in MinLength .. MaxLength
              /\ Len(r.packet) = OffsetOf(r.next) /\ Len(r.packet) < r.expected
         /\ ~TakesFrame(f) => res.result = "ERROR" /\ res.state.active = FALSE
         /\ res.state \in Reassemblies /\ Len(res.state.packet) <= res.state.expected
         /\ res.result \in {"NONE", "COMPLETE", "ERROR"}
  <1> DEFINE o == Opened(f)
             r == Extended(o, f)
             res == FeedResult(f)
             whole == Len(r.packet) = r.expected
  <1>1. o \in Reassemblies /\ Len(o.packet) <= o.expected
    BY OpenedFacts
  <1>2. ASSUME o.active
        PROVE  /\ WithinPacket(o, f) /\ r \in Reassemblies /\ r.active
               /\ r.expected = o.expected /\ r.next = o.next
               /\ Len(r.packet) = Lesser(OffsetOf(o.next), o.expected)
               /\ Len(r.packet) <= r.expected /\ o.next >= 1
               /\ o.expected \in MinLength .. MaxLength
               /\ ~whole => Len(r.packet) = OffsetOf(r.next) /\ Len(r.packet) < r.expected
    <2>1. WithinPacket(o, f)
      BY <1>2, OpenedFacts
    <2>2. /\ r \in Reassemblies /\ r.active = o.active /\ r.expected = o.expected
          /\ r.next = o.next /\ Len(r.packet) = Lesser(OffsetOf(o.next), o.expected)
      BY <1>1, <2>1, ExtendedFacts
    <2>3. o.next >= 1 /\ o.expected \in MinLength .. MaxLength
      BY <2>1 DEF WithinPacket
    <2> HIDE DEF r, o
    <2>4. o.next \in Nat /\ o.expected \in Nat
      BY <1>1, CanConstants, Offsets DEF Reassemblies, MaxFragments
    <2>5. OffsetOf(o.next) \in Nat
      BY <2>4, NextOffset
    <2>6. Len(r.packet) <= r.expected
      BY <2>2, <2>4, <2>5 DEF Lesser
    <2>7. ~whole => Len(r.packet) = OffsetOf(r.next) /\ Len(r.packet) < r.expected
      BY <2>2, <2>4, <2>5 DEF Lesser
    <2> QED BY <1>2, <2>1, <2>2, <2>3, <2>6, <2>7
  <1>3. TakesFrame(f) <=> o.active /\ FitsOrIsPadded(o, f) /\ f.end = whole
    BY DEF TakesFrame
  <1>4. res = IF ~o.active \/ ~FitsOrIsPadded(o, f)
              THEN [state |-> [o EXCEPT !.active = FALSE], result |-> "ERROR"]
              ELSE IF f.end # whole
              THEN [state |-> [r EXCEPT !.active = FALSE], result |-> "ERROR"]
              ELSE IF f.end THEN [state |-> [r EXCEPT !.active = FALSE], result |-> "COMPLETE"]
              ELSE [state |-> r, result |-> "NONE"]
    BY DEF FeedResult
  <1>5. f.end \in BOOLEAN
    BY FramesFacts
  <1>6. \A x \in Reassemblies :
          /\ [x EXCEPT !.active = FALSE] \in Reassemblies
          /\ [x EXCEPT !.active = FALSE].active = FALSE
          /\ [x EXCEPT !.active = FALSE].packet = x.packet
          /\ [x EXCEPT !.active = FALSE].expected = x.expected
    BY DEF Reassemblies
  <1> HIDE DEF o, r, res, whole
  <1>7. CASE ~TakesFrame(f)
    <2>1. CASE ~o.active \/ ~FitsOrIsPadded(o, f)
      <3>1. res.state = [o EXCEPT !.active = FALSE] /\ res.result = "ERROR"
        BY <1>4, <2>1
      <3> QED BY <1>1, <1>6, <1>7, <3>1 DEF o, r, res
    <2>2. CASE o.active /\ FitsOrIsPadded(o, f)
      <3>1. res.state = [r EXCEPT !.active = FALSE] /\ res.result = "ERROR"
        BY <1>3, <1>4, <1>7, <2>2
      <3>2. r \in Reassemblies /\ Len(r.packet) <= r.expected
        BY <1>2, <2>2
      <3> QED BY <1>6, <1>7, <3>1, <3>2 DEF o, r, res
    <2> QED BY <2>1, <2>2
  <1>8. CASE TakesFrame(f) /\ f.end
    <2>1. o.active /\ FitsOrIsPadded(o, f) /\ f.end = whole
      BY <1>3, <1>8
    <2>2. res = [state |-> [r EXCEPT !.active = FALSE], result |-> "COMPLETE"]
      BY <1>4, <1>8, <2>1
    <2>3. r \in Reassemblies /\ Len(r.packet) <= r.expected
      BY <1>2, <2>1
    <2>4. res.state = [r EXCEPT !.active = FALSE] /\ res.result = "COMPLETE"
      BY <2>2
    <2> QED BY <1>6, <1>8, <2>2, <2>3, <2>4 DEF o, r, res
  <1>9. CASE TakesFrame(f) /\ ~f.end
    <2>1. o.active /\ FitsOrIsPadded(o, f) /\ f.end = whole
      BY <1>3, <1>9
    <2>2. ~whole
      BY <1>5, <1>9, <2>1
    <2>3. res = [state |-> r, result |-> "NONE"]
      BY <1>4, <1>9, <2>1
    <2>4. res.state = r /\ res.result = "NONE"
      BY <2>3
    <2>5. /\ r \in Reassemblies /\ r.active /\ r.next >= 1
          /\ r.expected \in MinLength .. MaxLength
          /\ Len(r.packet) = OffsetOf(r.next) /\ Len(r.packet) < r.expected
          /\ Len(r.packet) <= r.expected
      BY <1>2, <2>1, <2>2
    <2> QED BY <1>9, <2>3, <2>4, <2>5 DEF o, r, res
  <1> QED BY <1>7, <1>8, <1>9

\* PacketReassembler.feed, of any frame: what update_can_reassembly_feed does.
LEMMA HostFeedIs ==
  ASSUME CanTypeOK, AtFragments, ReassembliesAgree, NEW f \in Frames
  PROVE  HostFeed(f) =
           IF TakesFrame(f)
           THEN IF f.end
                THEN [state |-> NoReassembly, returned |-> Extended(Opened(f), f).packet]
                ELSE [state |-> Extended(Opened(f), f), returned |-> <<>>]
           ELSE [state |-> NoReassembly, returned |-> <<>>]
  <1> DEFINE o == Opened(f)
             r == Extended(o, f)
             accepted == IF f.start THEN f.index = 0 /\ f.total \in MinLength .. MaxLength
                         ELSE reassembler.active /\ f.index = reassembler.next
             opened == IF f.start
                       THEN [NoReassembly EXCEPT !.active = TRUE, !.expected = f.total]
                       ELSE reassembler
             packet == opened.packet \o f.data
             useful == SubSeq(packet, 1, Lesser(Len(packet), opened.expected))
             rest == SubSeq(packet, opened.expected + 1, Len(packet))
             whole == Len(useful) = opened.expected
             fits == rest # <<>> => f.end /\ IsPadding(rest)
  <1>1. HostFeed(f) =
          IF accepted /\ fits /\ f.end = whole
          THEN IF f.end THEN [state |-> NoReassembly, returned |-> useful]
               ELSE [state |-> [opened EXCEPT !.next = @ + 1, !.packet = useful],
                     returned |-> <<>>]
          ELSE [state |-> NoReassembly, returned |-> <<>>]
    BY DEF HostFeed
  <1>2. reassembly \in Reassemblies
    BY DEF CanTypeOK, Reassemblies
  <1>3. /\ reassembler.active = reassembly.active
        /\ reassembly.active => reassembler = reassembly
    BY DEF ReassembliesAgree
  <1>4. f.start \in BOOLEAN /\ f.end \in BOOLEAN /\ f.data \in Seq(Nat)
    BY FramesFacts
  <1> HIDE DEF fits, whole, rest, useful, packet, opened, accepted
  <1>5. CASE ~o.active
    <2>1. ~accepted
      <3>1. CASE f.start
        <4>1. f.index = 0 /\ f.total \in MinLength .. MaxLength => o.active
          BY <3>1 DEF Opened, IsStart
        <4> QED BY <1>5, <3>1, <4>1 DEF accepted
      <3>2. CASE ~f.start
        <4>1. reassembly.active /\ f.index = reassembly.next
                => o = [reassembly EXCEPT !.next = @ + 1]
          BY <3>2 DEF Opened, IsStart
        <4>2. [reassembly EXCEPT !.next = @ + 1].active = reassembly.active
          BY <1>2 DEF Reassemblies
        <4> HIDE DEF o
        <4>3. ~(reassembly.active /\ f.index = reassembly.next)
          BY <1>5, <4>1, <4>2
        <4> QED BY <1>3, <3>2, <4>3 DEF accepted
      <3> QED BY <1>4, <3>1, <3>2
    <2>2. ~TakesFrame(f)
      BY <1>5 DEF TakesFrame
    <2> QED BY <1>1, <2>1, <2>2
  <1>6. CASE o.active
    <2>1. o \in Reassemblies /\ WithinPacket(o, f) /\ Len(o.packet) <= o.expected
      BY <1>6, OpenedFacts
    <2>2. o.packet \in Seq(Nat) /\ o.expected \in Nat
      BY <2>1, CanConstants DEF Reassemblies
    <2>3. /\ accepted /\ opened.packet = o.packet /\ opened.expected = o.expected
          /\ \A s \in Seq(Nat) :
               [opened EXCEPT !.next = @ + 1, !.packet = s] = [o EXCEPT !.packet = s]
      <3>1. CASE f.start
        <4>1. f.index = 0 /\ f.total \in MinLength .. MaxLength
          <5> SUFFICES ASSUME ~(f.index = 0 /\ f.total \in MinLength .. MaxLength)
                       PROVE  FALSE
            OBVIOUS
          <5>1. CASE f.index # 0
            <6>1. o = [reassembly EXCEPT !.active = FALSE]
              BY <3>1, <5>1 DEF Opened, IsStart
            <6>2. [reassembly EXCEPT !.active = FALSE].active = FALSE
              BY <1>2 DEF Reassemblies
            <6> HIDE DEF o
            <6> QED BY <1>6, <6>1, <6>2
          <5>2. CASE f.index = 0
            <6>1. f.total \in MinLength .. MaxLength
              BY <3>1, FramesFacts
            <6> QED BY <5>2, <6>1
          <5> QED BY <5>1, <5>2
        <4>2. o = [active |-> TRUE, expected |-> f.total, next |-> 1, packet |-> <<>>]
          BY <3>1, <4>1 DEF Opened, IsStart
        <4>3. opened = [active |-> TRUE, expected |-> f.total, next |-> 0, packet |-> <<>>]
          BY <3>1 DEF opened, NoReassembly
        <4>4. accepted
          BY <3>1, <4>1 DEF accepted
        <4>5. \A s \in Seq(Nat) :
                [opened EXCEPT !.next = @ + 1, !.packet = s] = [o EXCEPT !.packet = s]
          <5>1. f.total \in Nat /\ <<>> \in Seq(Nat) /\ 0 \in Nat /\ 1 = 0 + 1 /\ 1 \in Nat
            BY <4>1, CanConstants
          <5>2. opened \in [active : BOOLEAN, expected : Nat, next : Nat, packet : Seq(Nat)]
            BY <4>3, <5>1
          <5>3. o \in [active : BOOLEAN, expected : Nat, next : Nat, packet : Seq(Nat)]
            BY <4>2, <5>1
          <5>4. o.active = opened.active /\ o.expected = opened.expected
                /\ o.next = opened.next + 1
            BY <4>2, <4>3, <5>1
          <5> HIDE DEF o
          <5> QED BY <5>2, <5>3, <5>4
        <4>6. opened.packet = o.packet /\ opened.expected = o.expected
          BY <4>2, <4>3
        <4> QED BY <4>4, <4>5, <4>6
      <3>2. CASE ~f.start
        <4>1. reassembly.active /\ f.index = reassembly.next
          <5>1. ~(reassembly.active /\ f.index = reassembly.next)
                  => o = [reassembly EXCEPT !.active = FALSE]
            BY <3>2 DEF Opened, IsStart
          <5>2. [reassembly EXCEPT !.active = FALSE].active = FALSE
            BY <1>2 DEF Reassemblies
          <5> HIDE DEF o
          <5> QED BY <1>6, <5>1, <5>2
        <4>2. o = [reassembly EXCEPT !.next = @ + 1]
          BY <3>2, <4>1 DEF Opened, IsStart
        <4>3. opened = reassembly /\ accepted
          BY <1>3, <3>2, <4>1 DEF opened, accepted
        <4> HIDE DEF o
        <4>4. opened.packet = o.packet /\ opened.expected = o.expected
          BY <1>2, <4>2, <4>3 DEF Reassemblies
        <4>5. \A s \in Seq(Nat) :
                [opened EXCEPT !.next = @ + 1, !.packet = s] = [o EXCEPT !.packet = s]
          BY <1>2, <4>2, <4>3 DEF Reassemblies
        <4> QED BY <4>3, <4>4, <4>5
      <3> QED BY <1>4, <3>1, <3>2
    <2>4. r.packet = o.packet \o SubSeq(f.data, 1, Lesser(Len(f.data), Room(o)))
          /\ r = [o EXCEPT !.packet = r.packet] /\ r.packet \in Seq(Nat)
          /\ r.expected = o.expected
      BY <2>1, ExtendedFacts
    <2>5. useful = r.packet
      <3>1. SubSeq(o.packet \o f.data, 1, Lesser(Len(o.packet \o f.data), o.expected))
              = o.packet \o SubSeq(f.data, 1, Lesser(Len(f.data), Room(o)))
        BY <1>4, <2>1, <2>2, CutOfBoth DEF Room
      <3> HIDE DEF o, r
      <3> QED BY <2>3, <2>4, <3>1 DEF useful, packet
    <2>6. fits <=> FitsOrIsPadded(o, f)
      <3> DEFINE left == SubSeq(o.packet \o f.data, o.expected + 1, Len(o.packet \o f.data))
      <3>1. /\ left # <<>> <=> Len(f.data) > Room(o)
            /\ IsPadding(left) <=> \A k \in Room(o) + 1 .. Len(f.data) : f.data[k] = Padding
        BY <1>4, <2>1, <2>2, RestOfBoth DEF Room
      <3>2. rest = left
        BY <2>3 DEF rest, packet
      <3> HIDE DEF left, o
      <3> QED BY <3>1, <3>2 DEF fits, FitsOrIsPadded
    <2>7. whole <=> Len(r.packet) = r.expected
      BY <2>3, <2>4, <2>5 DEF whole
    <2>8. TakesFrame(f) <=> fits /\ f.end = whole
      BY <1>6, <2>6, <2>7 DEF TakesFrame
    <2>9. [opened EXCEPT !.next = @ + 1, !.packet = useful] = r
      BY <2>3, <2>4, <2>5
    <2> HIDE DEF o, r
    <2> QED BY <1>1, <2>3, <2>5, <2>8, <2>9 DEF o, r
  <1> QED BY <1>5, <1>6, OpenedFacts DEF Reassemblies

-----------------------------------------------------------------------------
(* The steps of the CAN transport. *)

LEMMA WithoutFirst ==
  ASSUME NEW S, NEW s \in Seq(S), s # <<>>
  PROVE  WithoutNth(s, 1) = Tail(s)
  <1>1. SubSeq(s, 1, 0) = <<>>
    BY SubSeqEmpty
  <1>2. SubSeq(s, 2, Len(s)) = Tail(s)
    BY TailIsSubSeq
  <1>3. Tail(s) \in Seq(S)
    BY HeadTailProperties
  <1>4. <<>> \o Tail(s) = Tail(s)
    BY <1>3, ConcatEmptySeq
  <1>5. 1 - 1 = 0 /\ 1 + 1 = 2
    OBVIOUS
  <1> QED BY <1>1, <1>2, <1>4, <1>5 DEF WithoutNth

\* The last elements of a sequence, counted from its end.
LEMMA LastOfFacts ==
  ASSUME NEW S, NEW s \in Seq(S), NEW n \in Nat, n >= 1
  PROVE  /\ LastOf(s, n) \in Seq(S) /\ Len(LastOf(s, n)) = Lesser(Len(s), n)
         /\ Len(s) \in Nat /\ Len(LastOf(s, n)) \in Nat /\ Len(LastOf(s, n)) <= n
         /\ \A i \in 0 .. Len(LastOf(s, n)) - 1 :
              LastOf(s, n)[Len(LastOf(s, n)) - i] = s[Len(s) - i]
  <1> DEFINE len == Len(s)
             from == IF len > n THEN len - n + 1 ELSE 1
             t == SubSeq(s, from, len)
  <1>1. len \in Nat
    BY LenProperties
  <1>2. t = LastOf(s, n)
    BY DEF LastOf
  <1>3. \A k \in 1 .. len : s[k] \in S
    BY ElementOfSeq
  <1> HIDE DEF len
  <1>4. from \in Nat /\ from >= 1 /\ len - from + 1 = Lesser(len, n)
        /\ (from <= len <=> Lesser(len, n) >= 1) /\ Lesser(len, n) \in Nat /\ Lesser(len, n) <= n
    BY <1>1 DEF Lesser
  <1> HIDE DEF from
  <1>5. from \in Int /\ len \in Int /\ \A k \in from .. len : s[k] \in S
    BY <1>1, <1>3, <1>4
  <1>6. /\ t \in Seq(S) /\ Len(t) = IF from <= len THEN len - from + 1 ELSE 0
        /\ \A k \in 1 .. len - from + 1 : t[k] = s[from + k - 1]
    BY <1>5, SubSeqProperties
  <1> HIDE DEF t
  <1>7. Len(t) = Lesser(len, n)
    BY <1>4, <1>6
  <1>8. \A i \in 0 .. Len(t) - 1 : t[Len(t) - i] = s[len - i]
    <2> TAKE i \in 0 .. Len(t) - 1
    <2> DEFINE k == Len(t) - i
    <2>1. k \in 1 .. len - from + 1 /\ from + k - 1 = len - i
      BY <1>1, <1>4, <1>7
    <2> HIDE DEF k
    <2>2. t[k] = s[from + k - 1]
      BY <1>6, <2>1
    <2> QED BY <2>1, <2>2 DEF k
  <1> QED BY <1>1, <1>2, <1>4, <1>6, <1>7, <1>8 DEF len

\* The fragment that the sender makes next, and where it goes on.
LEMMA NextFragment ==
  ASSUME CanTypeOK, AtFragments, fragmenter # Idle
  PROVE  LET f == fragmenter
             p == f.packet
             next == f.offset + Lesser(Len(p) - f.offset, Capacity(f.offset)) IN
         /\ p \in Packets /\ f.index \in Nat /\ f.index < CountFor(Len(p))
         /\ f.offset = OffsetOf(f.index) /\ f.offset \in 0 .. Len(p) - 1
         /\ Frame(p, f.offset, f.index) \in Frames
         /\ Frame(p, f.offset, f.index) = Fragments(p)[f.index + 1]
         /\ next = Len(p) <=> f.index + 1 = CountFor(Len(p))
         /\ next # Len(p) =>
              /\ next = OffsetOf(f.index + 1) /\ next < Len(p) /\ next \in 0 .. MaxLength
              /\ f.index + 1 \in 0 .. MaxFragments
  <1> DEFINE f == fragmenter
             p == f.packet
             next == f.offset + Lesser(Len(p) - f.offset, Capacity(f.offset))
             count == CountFor(Len(p))
  <1>1. p \in Packets /\ f.offset < Len(p) /\ f.offset = OffsetOf(f.index)
    BY DEF AtFragments
  <1>2. f.offset \in Nat /\ f.index \in Nat
    BY CanConstants, Offsets DEF CanTypeOK, MaxFragments
  <1>3. Len(p) \in Nat /\ FirstChunk < Len(p) /\ Len(p) <= MaxLength
    BY <1>1, CanPacketFacts
  <1>4. count \in Nat /\ MaxFragments \in Nat /\ count <= MaxFragments
    BY <1>1, CountOfPacket
  <1>5. f.index < count /\ (f.index + 1 < count <=> OffsetOf(f.index + 1) < Len(p))
    <2>1. f.index < count <=> OffsetOf(f.index) < Len(p)
      BY <1>2, <1>3, Offsets
    <2>2. f.index + 1 \in Nat
      BY <1>2
    <2>3. f.index + 1 < count <=> OffsetOf(f.index + 1) < Len(p)
      BY <1>3, <2>2, Offsets
    <2> QED BY <1>1, <2>1, <2>3
  <1>6. OffsetOf(f.index + 1) = f.offset + Capacity(f.offset) /\ Capacity(f.offset) \in Nat
    BY <1>1, <1>2, NextOffset
  <1>7. f.offset \in 0 .. Len(p) - 1 /\ f.index \in 0 .. MaxFragments - 1
    BY <1>1, <1>2, <1>3, <1>4, <1>5
  <1>8. Frame(p, f.offset, f.index) \in Frames
    BY <1>1, <1>7 DEF Frames
  <1>9. Frame(p, f.offset, f.index) = Fragments(p)[f.index + 1]
    <2>1. f.index + 1 \in 1 .. count /\ (f.index + 1) - 1 = f.index
      BY <1>2, <1>4, <1>5
    <2> QED BY <1>1, <2>1 DEF Fragments
  <1> HIDE DEF p, count, f
  <1>10. next = Len(p) <=> ~(OffsetOf(f.index + 1) < Len(p))
    BY <1>1, <1>2, <1>3, <1>6 DEF Lesser
  <1>11. next # Len(p) => next = OffsetOf(f.index + 1)
    BY <1>1, <1>2, <1>3, <1>6 DEF Lesser
  <1>12. f.index + 1 = count <=> ~(f.index + 1 < count)
    BY <1>2, <1>4, <1>5
  <1>13. OffsetOf(f.index + 1) < Len(p) =>
           OffsetOf(f.index + 1) \in 0 .. MaxLength /\ f.index + 1 \in 0 .. MaxFragments
    BY <1>2, <1>3, <1>4, <1>5, <1>6, CanConstants
  <1> HIDE DEF next
  <1>14. next = Len(p) <=> f.index + 1 = count
    BY <1>5, <1>10, <1>12
  <1>15. next # Len(p) =>
           /\ next = OffsetOf(f.index + 1) /\ next < Len(p) /\ next \in 0 .. MaxLength
           /\ f.index + 1 \in 0 .. MaxFragments
    BY <1>10, <1>11, <1>13
  <1> QED BY <1>1, <1>2, <1>5, <1>7, <1>8, <1>9, <1>14, <1>15 DEF next, p, f, count

\* What is left in a FIFO that a frame arrives in.
LEMMA ArriveFacts ==
  ASSUME fifo \in Seq(Frames), Len(fifo) <= FifoDepth, NEW frame \in Frames, Arrive(frame)
  PROVE  /\ fifo' \in Seq(Frames) /\ Len(fifo') <= FifoDepth
         /\ Len(fifo) < FifoDepth => fifo' = Append(fifo, frame)
  <1>1. Len(fifo) \in Nat /\ FifoDepth = 3
    BY LenProperties DEF FifoDepth
  <1>2. CASE Len(fifo) < FifoDepth
    <2>1. fifo' = Append(fifo, frame)
      BY <1>2 DEF Arrive
    <2>2. fifo' \in Seq(Frames) /\ Len(fifo') = Len(fifo) + 1
      BY <2>1, AppendProperties
    <2> QED BY <1>1, <1>2, <2>1, <2>2
  <1>3. CASE ~(Len(fifo) < FifoDepth)
    <2>1. fifo' = [fifo EXCEPT ![FifoDepth] = frame]
      BY <1>3 DEF Arrive
    <2>2. FifoDepth \in 1 .. Len(fifo)
      BY <1>1, <1>3
    <2>3. fifo' \in Seq(Frames) /\ Len(fifo') = Len(fifo)
      BY <2>1, <2>2, ExceptSeq
    <2> QED BY <1>3, <2>3
  <1> QED BY <1>2, <1>3

\* The frame the controller sends, and the ones it still holds.
LEMMA TransmittableFacts ==
  ASSUME mailboxes \in Seq(Frames), Len(mailboxes) <= Mailboxes, NEW n \in Transmittable
  PROVE  /\ n = 1 /\ mailboxes # <<>> /\ mailboxes[1] \in Frames /\ mailboxes[1] = Head(mailboxes)
         /\ WithoutNth(mailboxes, n) = Tail(mailboxes)
         /\ Tail(mailboxes) \in Seq(Frames) /\ Len(Tail(mailboxes)) <= Mailboxes
  <1>1. mailboxes # <<>> /\ n = 1
    BY DEF Transmittable
  <1>2. WithoutNth(mailboxes, n) = Tail(mailboxes)
    BY <1>1, WithoutFirst
  <1>3. /\ Tail(mailboxes) \in Seq(Frames) /\ Head(mailboxes) \in Frames
        /\ Len(Tail(mailboxes)) = Len(mailboxes) - 1
    BY <1>1, HeadTailProperties
  <1>4. Len(mailboxes) \in Nat /\ Mailboxes = 3
    BY LenProperties DEF Mailboxes
  <1>5. Len(Tail(mailboxes)) <= Mailboxes
    BY <1>3, <1>4
  <1>6. Head(mailboxes) = mailboxes[1]
    BY <1>1
  <1> QED BY <1>1, <1>2, <1>3, <1>5, <1>6

LEMMA CanTypes ==
  ASSUME CanTypeOK
  PROVE  /\ fragmenter \in [packet : Packets \cup {<<>>}, offset : 0 .. MaxLength,
                            index : 0 .. MaxFragments]
         /\ mailboxes \in Seq(Frames) /\ Len(mailboxes) <= Mailboxes
         /\ fifo \in Seq(Frames) /\ Len(fifo) <= FifoDepth
         /\ reassembly \in Reassemblies
         /\ outcome \in {"NONE", "COMPLETE", "ERROR"}
         /\ sent \in Seq(Packets) /\ delivered \in Seq(Packets)
         /\ fed \in Seq(Frames) /\ faults \in 0 .. MaxFaults
         /\ MaxFragments \in Nat /\ MaxFragments >= 2
  BY CanConstants, Offsets DEF CanTypeOK, Reassemblies, MaxFragments

\* The part of the state that only PollCan changes.
ReceiverOK ==
  /\ reassembly \in Reassemblies /\ outcome \in {"NONE", "COMPLETE", "ERROR"}
  /\ delivered \in Seq(Packets) /\ fed \in Seq(Frames)
  /\ Len(reassembly.packet) <= reassembly.expected
  /\ reassembly.active =>
       /\ reassembly.next >= 1 /\ reassembly.expected \in MinLength .. MaxLength
       /\ Len(reassembly.packet) = OffsetOf(reassembly.next)
       /\ Len(reassembly.packet) < reassembly.expected
  /\ ReassembliesAgree

\* And the part that it does not.
SenderOK ==
  /\ fragmenter \in [packet : Packets \cup {<<>>}, offset : 0 .. MaxLength,
                     index : 0 .. MaxFragments]
  /\ mailboxes \in Seq(Frames) /\ Len(mailboxes) <= Mailboxes
  /\ fifo \in Seq(Frames) /\ Len(fifo) <= FifoDepth
  /\ sent \in Seq(Packets) /\ faults \in 0 .. MaxFaults
  /\ fragmenter # Idle =>
       /\ fragmenter.packet \in Packets /\ fragmenter.offset < Len(fragmenter.packet)
       /\ fragmenter.offset = OffsetOf(fragmenter.index)

LEMMA CanInvParts == CanInv <=> SenderOK /\ ReceiverOK
  BY DEF CanInv, CanTypeOK, AtFragments, SenderOK, ReceiverOK, Reassemblies

LEMMA ReceiverUnchanged ==
  ASSUME ReceiverOK, UNCHANGED reassemblies
  PROVE  ReceiverOK'
  BY DEF ReceiverOK, ReassembliesAgree, reassemblies

\* What PollCan does to the reassemblies.
LEMMA PollKeepsReceiver ==
  ASSUME CanInv, PollCan
  PROVE  ReceiverOK'
  <1> DEFINE f == Head(fifo)
             res == FeedResult(f)
             host == HostFeed(f)
             r == Extended(Opened(f), f)
  <1>1. /\ fifo # <<>> /\ reassembly' = res.state /\ outcome' = res.result
        /\ delivered' = IF res.result = "COMPLETE" /\ Decodes(res.state.packet)
                        THEN Append(delivered, res.state.packet) ELSE delivered
        /\ reassembler' = host.state /\ returned' = host.returned
        /\ fed' = LastOf(Append(fed, f), MaxFragments)
    BY DEF PollCan
  <1>2. CanTypeOK /\ AtFragments /\ ReassembliesAgree
    BY DEF CanInv
  <1>3. /\ fifo \in Seq(Frames) /\ delivered \in Seq(Packets) /\ fed \in Seq(Frames)
        /\ MaxFragments \in Nat /\ MaxFragments >= 2
    BY <1>2, CanTypes
  <1>4. f \in Frames
    BY <1>1, <1>3, HeadTailProperties
  <1>5. f.end \in BOOLEAN
    BY <1>4, FramesFacts
  <1> HIDE DEF f
  <1>6. /\ TakesFrame(f) /\ f.end =>
             /\ res = [state |-> [r EXCEPT !.active = FALSE], result |-> "COMPLETE"]
             /\ res.state.active = FALSE /\ res.state.packet = r.packet
        /\ TakesFrame(f) /\ ~f.end =>
             /\ res = [state |-> r, result |-> "NONE"]
             /\ r.active /\ r.next >= 1 /\ r.expected \in MinLength .. MaxLength
             /\ Len(r.packet) = OffsetOf(r.next) /\ Len(r.packet) < r.expected
        /\ ~TakesFrame(f) => res.result = "ERROR" /\ res.state.active = FALSE
        /\ res.state \in Reassemblies /\ Len(res.state.packet) <= res.state.expected
        /\ res.result \in {"NONE", "COMPLETE", "ERROR"}
    BY <1>2, <1>4, FeedResultIs
  <1>7. host = IF TakesFrame(f)
               THEN IF f.end THEN [state |-> NoReassembly, returned |-> r.packet]
                    ELSE [state |-> r, returned |-> <<>>]
               ELSE [state |-> NoReassembly, returned |-> <<>>]
    BY <1>2, <1>4, HostFeedIs
  <1> HIDE DEF res, host, r
  <1>8. delivered' \in Seq(Packets)
    BY <1>1, <1>3, AppendProperties DEF Decodes
  <1>9. fed' \in Seq(Frames)
    <2>1. Append(fed, f) \in Seq(Frames)
      BY <1>3, <1>4, AppendProperties
    <2>2. MaxFragments >= 1
      BY <1>3
    <2> QED BY <1>1, <1>3, <2>1, <2>2, LastOfFacts
  <1>10. NoReassembly.active = FALSE
    BY DEF NoReassembly
  <1>11. /\ reassembly' \in Reassemblies /\ outcome' \in {"NONE", "COMPLETE", "ERROR"}
         /\ Len(reassembly'.packet) <= reassembly'.expected
    BY <1>1, <1>6
  <1>12. CASE TakesFrame(f) /\ f.end
    <2>1. /\ res.state.active = FALSE /\ res.result = "COMPLETE" /\ res.state.packet = r.packet
          /\ host.state = NoReassembly /\ host.returned = r.packet
      BY <1>6, <1>7, <1>12
    <2>2. /\ ~reassembly'.active /\ outcome' = "COMPLETE" /\ returned' = reassembly'.packet
          /\ reassembler'.active = reassembly'.active
      BY <1>1, <1>10, <2>1
    <2> QED BY <1>8, <1>9, <1>11, <2>2 DEF ReceiverOK, ReassembliesAgree
  <1>13. CASE TakesFrame(f) /\ ~f.end
    <2>1. /\ res.state = r /\ res.result = "NONE" /\ host.state = r /\ host.returned = <<>>
      BY <1>6, <1>7, <1>13
    <2>2. /\ reassembler' = reassembly' /\ outcome' # "COMPLETE" /\ returned' = <<>>
          /\ reassembly' = r
      BY <1>1, <2>1
    <2>3. /\ r.next >= 1 /\ r.expected \in MinLength .. MaxLength
          /\ Len(r.packet) = OffsetOf(r.next) /\ Len(r.packet) < r.expected
      BY <1>6, <1>13
    <2> QED BY <1>8, <1>9, <1>11, <2>2, <2>3 DEF ReceiverOK, ReassembliesAgree
  <1>14. CASE ~TakesFrame(f)
    <2>1. /\ res.state.active = FALSE /\ res.result = "ERROR"
          /\ host.state = NoReassembly /\ host.returned = <<>>
      BY <1>6, <1>7, <1>14
    <2>2. /\ ~reassembly'.active /\ outcome' # "COMPLETE" /\ returned' = <<>>
          /\ reassembler'.active = reassembly'.active
      BY <1>1, <1>10, <2>1
    <2> QED BY <1>8, <1>9, <1>11, <2>2 DEF ReceiverOK, ReassembliesAgree
  <1> QED BY <1>12, <1>13, <1>14

\* What the other steps do to the sender, the bus and the FIFO.
LEMMA StepKeepsSender ==
  ASSUME CanInv, CanNext
  PROVE  SenderOK'
  <1>1. CanTypeOK /\ AtFragments /\ SenderOK
    BY CanInvParts DEF CanInv
  <1>2. /\ mailboxes \in Seq(Frames) /\ Len(mailboxes) <= Mailboxes
        /\ fifo \in Seq(Frames) /\ Len(fifo) <= FifoDepth
        /\ sent \in Seq(Packets) /\ faults \in 0 .. MaxFaults
        /\ MaxFragments \in Nat /\ MaxFragments >= 2
    BY <1>1, CanTypes
  <1>3. CASE Submit
    <2>1. PICK p \in Packets :
            fragmenter' = [Idle EXCEPT !.packet = p] /\ sent' = Append(sent, p)
      BY <1>3 DEF Submit
    <2>2. UNCHANGED <<mailboxes, fifo, faults>>
      BY <1>3 DEF Submit, receiver
    <2>3. fragmenter' = [packet |-> p, offset |-> 0, index |-> 0]
      BY <2>1 DEF Idle
    <2>4. OffsetOf(0) = 0 /\ 0 < Len(p) /\ 0 \in 0 .. MaxLength /\ 0 \in 0 .. MaxFragments
      BY <1>2, CanPacketFacts, CanConstants DEF OffsetOf
    <2>5. fragmenter' \in [packet : Packets \cup {<<>>}, offset : 0 .. MaxLength,
                           index : 0 .. MaxFragments]
      BY <2>3, <2>4
    <2>6. /\ fragmenter'.packet \in Packets /\ fragmenter'.offset < Len(fragmenter'.packet)
          /\ fragmenter'.offset = OffsetOf(fragmenter'.index)
      BY <2>3, <2>4
    <2>7. sent' \in Seq(Packets)
      BY <1>2, <2>1, AppendProperties
    <2> QED BY <1>2, <2>2, <2>5, <2>6, <2>7 DEF SenderOK
  <1>4. CASE QueueFragment
    <2> DEFINE f == fragmenter
               p == f.packet
               next == f.offset + Lesser(Len(p) - f.offset, Capacity(f.offset))
    <2>1. /\ f # Idle /\ Len(mailboxes) < Mailboxes
          /\ mailboxes' = Append(mailboxes, Frame(p, f.offset, f.index))
          /\ fragmenter' = IF next = Len(p) THEN Idle
                           ELSE [f EXCEPT !.offset = next, !.index = @ + 1]
          /\ UNCHANGED <<fifo, sent, faults>>
      BY <1>4 DEF QueueFragment, receiver
    <2>2. /\ p \in Packets /\ Frame(p, f.offset, f.index) \in Frames
          /\ next # Len(p) =>
               /\ next = OffsetOf(f.index + 1) /\ next < Len(p) /\ next \in 0 .. MaxLength
               /\ f.index + 1 \in 0 .. MaxFragments
      BY <1>1, <2>1, NextFragment
    <2>3. mailboxes' \in Seq(Frames) /\ Len(mailboxes') = Len(mailboxes) + 1
      BY <1>2, <2>1, <2>2, AppendProperties
    <2>4. Len(mailboxes') <= Mailboxes
      <3>1. Len(mailboxes) \in Nat /\ Mailboxes = 3
        BY <1>2, LenProperties DEF Mailboxes
      <3> QED BY <2>1, <2>3, <3>1
    <2> HIDE DEF next
    <2>5. CASE next = Len(p)
      <3>1. fragmenter' = Idle
        BY <2>1, <2>5
      <3>2. Idle \in [packet : Packets \cup {<<>>}, offset : 0 .. MaxLength,
                      index : 0 .. MaxFragments]
        BY <1>2, CanConstants DEF Idle
      <3> QED BY <1>2, <2>1, <2>3, <2>4, <3>1, <3>2 DEF SenderOK
    <2>6. CASE next # Len(p)
      <3>1. fragmenter' = [f EXCEPT !.offset = next, !.index = @ + 1]
        BY <2>1, <2>6
      <3>2. f \in [packet : Packets \cup {<<>>}, offset : 0 .. MaxLength,
                   index : 0 .. MaxFragments]
        BY <1>1, CanTypes
      <3>3. fragmenter' \in [packet : Packets \cup {<<>>}, offset : 0 .. MaxLength,
                             index : 0 .. MaxFragments]
        BY <2>2, <2>6, <3>1, <3>2
      <3>4. fragmenter'.packet = p /\ fragmenter'.offset = next
            /\ fragmenter'.index = f.index + 1
        BY <3>1, <3>2
      <3>5. /\ fragmenter'.packet \in Packets /\ fragmenter'.offset < Len(fragmenter'.packet)
            /\ fragmenter'.offset = OffsetOf(fragmenter'.index)
        BY <2>2, <2>6, <3>4
      <3> QED BY <1>2, <2>1, <2>3, <2>4, <3>3, <3>5 DEF SenderOK
    <2> QED BY <2>5, <2>6
  <1>5. CASE GiveUp
    <2>1. /\ fragmenter' = Idle /\ faults < MaxFaults /\ faults' = faults + 1
          /\ UNCHANGED <<mailboxes, fifo, sent>>
      BY <1>5 DEF GiveUp, receiver
    <2>2. Idle \in [packet : Packets \cup {<<>>}, offset : 0 .. MaxLength,
                    index : 0 .. MaxFragments]
      BY <1>2, CanConstants DEF Idle
    <2>3. faults' \in 0 .. MaxFaults
      BY <1>2, <2>1, CanConstants
    <2> QED BY <1>2, <2>1, <2>2, <2>3 DEF SenderOK
  <1>6. CASE Transmit
    <2>1. PICK n \in Transmittable :
            Arrive(mailboxes[n]) /\ mailboxes' = WithoutNth(mailboxes, n)
      BY <1>6 DEF Transmit
    <2>2. /\ faults' = IF Len(fifo) < FifoDepth THEN faults ELSE Lesser(faults + 1, MaxFaults)
          /\ UNCHANGED <<fragmenter, sent>>
      BY <1>6 DEF Transmit
    <2>3. mailboxes[n] \in Frames /\ mailboxes' \in Seq(Frames) /\ Len(mailboxes') <= Mailboxes
      BY <1>2, <2>1, TransmittableFacts
    <2>4. fifo' \in Seq(Frames) /\ Len(fifo') <= FifoDepth
      BY <1>2, <2>1, <2>3, ArriveFacts
    <2>5. faults' \in 0 .. MaxFaults
      <3>1. faults \in 0 .. MaxFaults /\ Lesser(faults + 1, MaxFaults) \in 0 .. MaxFaults
        BY <1>2, CanConstants DEF Lesser
      <3> QED BY <2>2, <3>1
    <2> QED BY <1>1, <2>2, <2>3, <2>4, <2>5 DEF SenderOK
  <1>7. CASE Lose
    <2>1. PICK n \in Transmittable : mailboxes' = WithoutNth(mailboxes, n)
      BY <1>7 DEF Lose
    <2>2. /\ faults < MaxFaults /\ faults' = faults + 1 /\ UNCHANGED <<fragmenter, fifo, sent>>
      BY <1>7 DEF Lose, receiver
    <2>3. mailboxes' \in Seq(Frames) /\ Len(mailboxes') <= Mailboxes
      BY <1>2, <2>1, TransmittableFacts
    <2>4. faults' \in 0 .. MaxFaults
      BY <1>2, <2>2, CanConstants
    <2> QED BY <1>1, <2>2, <2>3, <2>4 DEF SenderOK
  <1>8. CASE Duplicate
    <2>1. PICK n \in Transmittable : Arrive(mailboxes[n])
      BY <1>8 DEF Duplicate
    <2>2. /\ faults < MaxFaults /\ faults' = faults + 1
          /\ UNCHANGED <<fragmenter, mailboxes, sent>>
      BY <1>8 DEF Duplicate
    <2>3. mailboxes[n] \in Frames
      BY <1>2, TransmittableFacts
    <2>4. fifo' \in Seq(Frames) /\ Len(fifo') <= FifoDepth
      BY <1>2, <2>1, <2>3, ArriveFacts
    <2>5. faults' \in 0 .. MaxFaults
      BY <1>2, <2>2, CanConstants
    <2> QED BY <1>1, <2>2, <2>4, <2>5 DEF SenderOK
  <1>9. CASE PollCan
    <2>1. fifo # <<>> /\ fifo' = Tail(fifo) /\ UNCHANGED <<fragmenter, mailboxes, sent, faults>>
      BY <1>9 DEF PollCan
    <2>2. fifo' \in Seq(Frames) /\ Len(fifo') = Len(fifo) - 1
      BY <1>2, <2>1, HeadTailProperties
    <2>3. Len(fifo') <= FifoDepth
      <3>1. Len(fifo) \in Nat /\ FifoDepth = 3
        BY <1>2, LenProperties DEF FifoDepth
      <3> QED BY <1>2, <2>2, <3>1
    <2> QED BY <1>1, <2>1, <2>2, <2>3 DEF SenderOK
  <1> QED BY <1>3, <1>4, <1>5, <1>6, <1>7, <1>8, <1>9 DEF CanNext

LEMMA CanInitInv == CanInit => CanInv
  <1> SUFFICES ASSUME CanInit PROVE CanInv
    OBVIOUS
  <1>1. /\ fragmenter = Idle /\ mailboxes = <<>> /\ fifo = <<>>
        /\ reassembly = NoReassembly /\ outcome = "NONE"
        /\ reassembler = NoReassembly /\ returned = <<>>
        /\ sent = <<>> /\ delivered = <<>> /\ fed = <<>> /\ faults = 0
    BY DEF CanInit
  <1>2. MaxFragments \in Nat
    BY CanConstants, Offsets DEF MaxFragments
  <1>3. 0 \in 0 .. MaxLength /\ 0 \in 0 .. MaxFragments /\ 0 \in 0 .. MaxFaults
    BY <1>2, CanConstants
  <1>4. /\ <<>> \in Seq(Nat) /\ <<>> \in Seq(Frames) /\ <<>> \in Seq(Packets) /\ Len(<<>>) = 0
        /\ 0 <= Mailboxes /\ 0 <= FifoDepth
    BY DEF Mailboxes, FifoDepth
  <1>5. Idle \in [packet : Packets \cup {<<>>}, offset : 0 .. MaxLength,
                  index : 0 .. MaxFragments]
    BY <1>3 DEF Idle
  <1>6. /\ NoReassembly \in Reassemblies /\ NoReassembly.active = FALSE
        /\ NoReassembly.packet = <<>> /\ NoReassembly.expected = 0
    BY <1>3, <1>4 DEF NoReassembly, Reassemblies
  <1>7. SenderOK
    BY <1>1, <1>3, <1>4, <1>5 DEF SenderOK
  <1>8. ReassembliesAgree
    BY <1>1 DEF ReassembliesAgree
  <1>9. ReceiverOK
    BY <1>1, <1>4, <1>6, <1>8 DEF ReceiverOK
  <1> QED BY <1>7, <1>9, CanInvParts

LEMMA CanStepInv == CanInv /\ [CanNext]_canVars => CanInv'
  <1> SUFFICES ASSUME CanInv, [CanNext]_canVars
               PROVE  CanInv'
    OBVIOUS
  <1>1. SenderOK /\ ReceiverOK
    BY CanInvParts
  <1>2. SenderOK' /\ ReceiverOK' => CanInv'
    BY CanInvParts, PTL
  <1>3. ASSUME UNCHANGED canVars
        PROVE  CanInv'
    <2>1. SenderOK'
      BY <1>1, <1>3 DEF canVars, receiver, SenderOK
    <2>2. ReceiverOK'
      BY <1>1, <1>3, ReceiverUnchanged DEF canVars, receiver
    <2> QED BY <1>2, <2>1, <2>2
  <1>4. ASSUME CanNext
        PROVE  CanInv'
    <2>1. SenderOK'
      BY <1>4, StepKeepsSender
    <2>2. ReceiverOK'
      <3>1. CASE PollCan
        BY <3>1, PollKeepsReceiver
      <3>2. CASE ~PollCan
        <4>1. UNCHANGED reassemblies
          BY <1>4, <3>2
          DEF CanNext, Submit, QueueFragment, GiveUp, Transmit, Lose, Duplicate, receiver
        <4> QED BY <1>1, <4>1, ReceiverUnchanged
      <3> QED BY <3>1, <3>2
    <2> QED BY <1>2, <2>1, <2>2
  <1> QED BY <1>3, <1>4

\* Whatever frames arrive, lost, doubled or of a packet that was broken off: the
\* reassembly of the device and that of the host agree, hold no more than there is
\* room for, and are at the beginning of a fragment, as the sender is.
THEOREM CanInvariant == CanSpec => []CanInv
  BY CanInitInv, CanStepInv, PTL DEF CanSpec

-----------------------------------------------------------------------------
(* A packet, fragment by fragment. *)

\* The device has the first i fragments of p and waits for the next.
Holds(p, i) ==
  /\ reassembly.active /\ reassembly.next = i /\ reassembly.expected = Len(p)
  /\ reassembly.packet = SubSeq(p, 1, OffsetOf(i))

LEMMA FragmentsOf ==
  ASSUME NEW p \in Packets
  PROVE  /\ Fragments(p) \in Seq(Frames) /\ Len(Fragments(p)) = CountFor(Len(p))
         /\ \A i \in Nat : i < CountFor(Len(p)) =>
              /\ OffsetOf(i) \in 0 .. Len(p) - 1
              /\ Fragments(p)[i + 1] = Frame(p, OffsetOf(i), i)
  <1> DEFINE count == CountFor(Len(p))
  <1>1. Len(p) \in Nat /\ FirstChunk < Len(p)
    BY CanPacketFacts
  <1>2. count \in Nat /\ MaxFragments \in Nat /\ count <= MaxFragments
    BY CountOfPacket
  <1>3. \A i \in Nat : i < count => OffsetOf(i) \in 0 .. Len(p) - 1
    <2> TAKE i \in Nat
    <2>1. OffsetOf(i) \in Nat /\ (i < count <=> OffsetOf(i) < Len(p))
      BY <1>1, Offsets
    <2> QED BY <1>1, <2>1
  <1> HIDE DEF count
  <1>4. Fragments(p) = [k \in 1 .. count |-> Frame(p, OffsetOf(k - 1), k - 1)]
    BY DEF Fragments, count
  <1>5. \A k \in 1 .. count : Frame(p, OffsetOf(k - 1), k - 1) \in Frames
    <2> TAKE k \in 1 .. count
    <2>1. k - 1 \in Nat /\ k - 1 < count /\ k - 1 \in 0 .. MaxFragments - 1
      BY <1>2
    <2>2. OffsetOf(k - 1) \in 0 .. Len(p) - 1
      BY <1>3, <2>1
    <2> QED BY <2>1, <2>2 DEF Frames
  <1>6. Fragments(p) \in Seq(Frames)
    BY <1>2, <1>4, <1>5, IsASeq
  <1>7. Len(Fragments(p)) = count
    BY <1>2, <1>4, <1>6, LenProperties
  <1>8. \A i \in Nat : i < count => Fragments(p)[i + 1] = Frame(p, OffsetOf(i), i)
    <2> SUFFICES ASSUME NEW i \in Nat, i < count
                 PROVE  Fragments(p)[i + 1] = Frame(p, OffsetOf(i), i)
      OBVIOUS
    <2>1. i + 1 \in 1 .. count /\ (i + 1) - 1 = i
      BY <1>2
    <2> QED BY <1>4, <2>1
  <1> QED BY <1>3, <1>6, <1>7, <1>8 DEF count

\* A beginning of a packet, element by element.
LEMMA BeginningFacts ==
  ASSUME NEW p \in Seq(Nat), NEW n \in 0 .. Len(p)
  PROVE  /\ SubSeq(p, 1, n) \in Seq(Nat) /\ Len(SubSeq(p, 1, n)) = n
         /\ \A k \in 1 .. n : SubSeq(p, 1, n)[k] = p[k]
  <1>1. Len(p) \in Nat
    BY LenProperties
  <1>2. 1 \in Int /\ n \in Int /\ \A k \in 1 .. n : p[k] \in Nat
    BY <1>1, ElementOfSeq
  <1> DEFINE t == SubSeq(p, 1, n)
  <1>3. /\ t \in Seq(Nat) /\ Len(t) = IF 1 <= n THEN n - 1 + 1 ELSE 0
        /\ \A k \in 1 .. n - 1 + 1 : t[k] = p[1 + k - 1]
    BY <1>2, SubSeqProperties
  <1> HIDE DEF t
  <1>4. t \in Seq(Nat) /\ Len(t) = n /\ \A k \in 1 .. n : t[k] = p[k]
    BY <1>1, <1>3
  <1> QED BY <1>4 DEF t

\* What the header of the next fragment makes of the reassembly.
LEMMA OpenedOfFragment ==
  ASSUME CanTypeOK, AtFragments, NEW p \in Packets, NEW i \in Nat, i < CountFor(Len(p)),
         i > 0 => Holds(p, i), NEW f, f = Fragments(p)[i + 1]
  PROVE  /\ Opened(f).active /\ Opened(f).expected = Len(p) /\ Opened(f).next = i + 1
         /\ Opened(f).packet = SubSeq(p, 1, OffsetOf(i))
  <1> DEFINE off == OffsetOf(i)
  <1>1. off \in 0 .. Len(p) - 1 /\ f = Frame(p, off, i)
    BY FragmentsOf
  <1>2. off = 0 <=> i = 0
    BY CanPacketFacts, Offsets
  <1>3. f.start = (off = 0) /\ f.index = i /\ f.total = IF off = 0 THEN Len(p) ELSE 0
    BY <1>1, FrameFacts
  <1>4. CASE i = 0
    <2>1. f.start /\ f.index = 0 /\ f.total = Len(p) /\ off = 0
      BY <1>2, <1>3, <1>4
    <2>2. Len(p) \in MinLength .. MaxLength
      BY CanPacketFacts
    <2>3. Opened(f) = [active |-> TRUE, expected |-> Len(p), next |-> 1, packet |-> <<>>]
      BY <2>1, <2>2 DEF Opened, IsStart
    <2>4. SubSeq(p, 1, 0) = <<>>
      BY SubSeqEmpty
    <2>5. i + 1 = 1 /\ SubSeq(p, 1, off) = <<>>
      BY <1>4, <2>1, <2>4
    <2> HIDE DEF off
    <2>6. /\ Opened(f).active /\ Opened(f).expected = Len(p) /\ Opened(f).next = 1
          /\ Opened(f).packet = <<>>
      BY <2>3
    <2> QED BY <2>5, <2>6 DEF off
  <1>5. CASE i # 0
    <2>1. ~f.start /\ f.index = i
      BY <1>2, <1>3, <1>5
    <2>2. Holds(p, i)
      BY <1>5
    <2>3. Opened(f) = [reassembly EXCEPT !.next = @ + 1]
      BY <2>1, <2>2 DEF Opened, IsStart, Holds
    <2>4. reassembly \in Reassemblies
      BY CanTypes
    <2> QED BY <2>2, <2>3, <2>4 DEF Holds, Reassemblies
  <1> QED BY <1>4, <1>5

\* A fragment that comes after those before it is taken; the last one completes the
\* packet.
LEMMA FeedOfFragment ==
  ASSUME CanTypeOK, AtFragments, NEW p \in Packets, NEW i \in Nat, i < CountFor(Len(p)),
         i > 0 => Holds(p, i), NEW f, f = Fragments(p)[i + 1]
  PROVE  LET res == FeedResult(f) IN
         /\ i + 1 < CountFor(Len(p)) =>
              /\ res.result = "NONE" /\ res.state.active /\ res.state.next = i + 1
              /\ res.state.expected = Len(p)
              /\ res.state.packet = SubSeq(p, 1, OffsetOf(i + 1))
         /\ i + 1 = CountFor(Len(p)) =>
              res.result = "COMPLETE" /\ res.state.packet = p /\ res.state.active = FALSE
  <1> DEFINE count == CountFor(Len(p))
             off == OffsetOf(i)
             cap == Capacity(off)
             o == Opened(f)
             x == Extended(o, f)
             front == SubSeq(p, 1, off)
             m == Lesser(OffsetOf(i + 1), Len(p))
  <1>1. p \in Seq(Nat) /\ Len(p) \in Nat /\ Len(p) \in MinLength .. MaxLength
        /\ FirstChunk < Len(p)
    BY CanPacketFacts
  <1>2. off \in 0 .. Len(p) - 1 /\ f = Frame(p, off, i) /\ f \in Frames
    <2>1. i + 1 \in 1 .. Len(Fragments(p)) /\ Fragments(p) \in Seq(Frames)
      BY FragmentsOf, CountOfPacket
    <2>2. f \in Frames
      BY <2>1, ElementOfSeq
    <2> QED BY <2>2, FragmentsOf
  <1>3. /\ f.end \in BOOLEAN /\ (f.end <=> Len(p) <= off + cap)
        /\ f.data \in Seq(Nat) /\ Len(f.data) = cap /\ cap \in Nat
        /\ \A k \in 1 .. cap : f.data[k] = IF off + k <= Len(p) THEN p[off + k] ELSE 0
    BY <1>2, FrameFacts
  <1>4. OffsetOf(i + 1) = off + cap
    BY NextOffset
  <1>5. i + 1 < count <=> OffsetOf(i + 1) < Len(p)
    <2>1. i + 1 \in Nat
      OBVIOUS
    <2> QED BY <1>1, <2>1, Offsets
  <1>6. o.active /\ o.expected = Len(p) /\ o.next = i + 1 /\ o.packet = front
    BY OpenedOfFragment
  <1>7. o \in Reassemblies /\ WithinPacket(o, f)
    BY <1>2, <1>6, OpenedFacts
  <1>8. /\ x.packet = front \o SubSeq(f.data, 1, Lesser(Len(f.data), Room(o)))
        /\ Len(x.packet) = m /\ x.packet \in Seq(Nat) /\ x.active /\ x.expected = Len(p)
        /\ x.next = i + 1
    <2>1. /\ x.packet = o.packet \o SubSeq(f.data, 1, Lesser(Len(f.data), Room(o)))
          /\ Len(x.packet) = Lesser(OffsetOf(o.next), o.expected)
          /\ x.packet \in Seq(Nat) /\ x.active = o.active /\ x.expected = o.expected
          /\ x.next = o.next
      BY <1>2, <1>7, ExtendedFacts
    <2> HIDE DEF o, x, front
    <2> QED BY <1>6, <2>1
  <1> HIDE DEF o, x
  <1>9. off \in Nat /\ off < Len(p) /\ off \in 0 .. Len(p)
    BY <1>1, <1>2
  <1> HIDE DEF off, cap, count
  <1>10. m = Lesser(off + cap, Len(p)) /\ m \in 0 .. Len(p) /\ (m = Len(p) <=> f.end)
    BY <1>1, <1>3, <1>4, <1>9 DEF Lesser
  <1> HIDE DEF m
  <1>11. front \in Seq(Nat) /\ Len(front) = off /\ \A k \in 1 .. off : front[k] = p[k]
    BY <1>1, <1>9, BeginningFacts
  <1> HIDE DEF front
  <1>12. Room(o) = Len(p) - off /\ Room(o) \in Nat
    BY <1>1, <1>6, <1>9, <1>11 DEF Room
  <1> DEFINE fits == SubSeq(f.data, 1, Lesser(Len(f.data), Room(o)))
  <1>13. /\ fits \in Seq(Nat) /\ Len(fits) = Lesser(cap, Len(p) - off)
         /\ \A k \in 1 .. Len(fits) : fits[k] = f.data[k]
    <2> DEFINE n == Lesser(Len(f.data), Room(o))
    <2>1. n \in 0 .. Len(f.data) /\ n = Lesser(cap, Len(p) - off)
      BY <1>3, <1>12 DEF Lesser
    <2> HIDE DEF n
    <2>2. /\ SubSeq(f.data, 1, n) \in Seq(Nat) /\ Len(SubSeq(f.data, 1, n)) = n
          /\ \A k \in 1 .. n : SubSeq(f.data, 1, n)[k] = f.data[k]
      BY <1>3, <2>1, BeginningFacts
    <2>3. fits = SubSeq(f.data, 1, n)
      BY DEF n
    <2> HIDE DEF fits
    <2> QED BY <2>1, <2>2, <2>3
  <1> HIDE DEF fits
  <1>14. x.packet = SubSeq(p, 1, m)
    <2>1. SubSeq(p, 1, m) \in Seq(Nat) /\ Len(SubSeq(p, 1, m)) = m
          /\ \A k \in 1 .. m : SubSeq(p, 1, m)[k] = p[k]
      BY <1>1, <1>10, BeginningFacts
    <2>2. x.packet = front \o fits
      BY <1>8 DEF fits
    <2>3. \A k \in 1 .. Len(front) + Len(fits) :
            (front \o fits)[k] = IF k <= Len(front) THEN front[k] ELSE fits[k - Len(front)]
      BY <1>11, <1>13, ConcatProperties
    <2>4. m = off + Len(fits) /\ Len(fits) \in Nat /\ Len(fits) <= cap
      BY <1>1, <1>3, <1>9, <1>10, <1>13 DEF Lesser
    <2>5. \A k \in 1 .. m : x.packet[k] = p[k]
      <3> TAKE k \in 1 .. m
      <3>1. k \in 1 .. Len(front) + Len(fits)
        BY <1>11, <2>4
      <3>2. x.packet[k] = IF k <= off THEN front[k] ELSE fits[k - off]
        BY <1>11, <2>2, <2>3, <3>1
      <3>3. CASE k <= off
        BY <1>9, <1>11, <3>2, <3>3
      <3>4. CASE ~(k <= off)
        <4> DEFINE j == k - off
        <4>1. j \in 1 .. Len(fits) /\ j \in 1 .. cap /\ off + j = k /\ k <= Len(p)
          BY <1>1, <1>3, <1>9, <1>10, <2>4, <3>4
        <4> HIDE DEF j
        <4>2. x.packet[k] = fits[j]
          BY <3>2, <3>4 DEF j
        <4>3. fits[j] = f.data[j]
          BY <1>13, <4>1
        <4>4. f.data[j] = p[k]
          BY <1>3, <4>1
        <4> QED BY <4>2, <4>3, <4>4
      <3> QED BY <3>3, <3>4
    <2> DEFINE t == SubSeq(p, 1, m)
    <2>6. t \in Seq(Nat) /\ Len(t) = m /\ \A k \in 1 .. m : x.packet[k] = t[k]
      BY <2>1, <2>5
    <2> HIDE DEF t
    <2>7. x.packet = t
      BY <1>8, <2>6, SeqEqual
    <2> QED BY <2>7 DEF t
  <1>15. FitsOrIsPadded(o, f)
    <2> SUFFICES ASSUME Len(f.data) > Room(o)
                 PROVE  f.end /\ \A k \in Room(o) + 1 .. Len(f.data) : f.data[k] = Padding
      BY DEF FitsOrIsPadded
    <2>1. f.end
      BY <1>1, <1>3, <1>9, <1>12
    <2>2. ASSUME NEW k \in Room(o) + 1 .. Len(f.data)
          PROVE  f.data[k] = Padding
      <3>1. k \in 1 .. cap /\ ~(off + k <= Len(p))
        BY <1>1, <1>3, <1>9, <1>12, <2>2
      <3> QED BY <1>3, <3>1 DEF Padding
    <2> QED BY <2>1, <2>2
  <1>16. f.end = (Len(x.packet) = x.expected)
    BY <1>3, <1>8, <1>10
  <1>17. TakesFrame(f)
    BY <1>6, <1>15, <1>16 DEF TakesFrame, o, x
  <1>18. f.end <=> ~(i + 1 < count)
    BY <1>1, <1>3, <1>4, <1>5, <1>9
  <1> DEFINE res == FeedResult(f)
  <1>19. /\ f.end => /\ res = [state |-> [x EXCEPT !.active = FALSE], result |-> "COMPLETE"]
                     /\ res.state.active = FALSE /\ res.state.packet = x.packet
         /\ ~f.end => res = [state |-> x, result |-> "NONE"]
    BY <1>2, <1>17, FeedResultIs DEF o, x
  <1> HIDE DEF res
  <1>20. CASE i + 1 < count
    <2>1. ~f.end /\ m = OffsetOf(i + 1)
      BY <1>4, <1>5, <1>18, <1>20 DEF m, Lesser
    <2>2. res.state = x /\ res.result = "NONE"
      BY <1>19, <2>1
    <2>3. i + 1 # count
      BY <1>20, CountOfPacket DEF count
    <2> QED BY <1>8, <1>14, <2>1, <2>2, <2>3, <1>20 DEF res, count
  <1>21. CASE ~(i + 1 < count)
    <2>1. f.end /\ m = Len(p)
      BY <1>10, <1>18, <1>21
    <2>2. SubSeq(p, 1, m) = p
      BY <1>1, <2>1, SubSeqFull
    <2>3. res.result = "COMPLETE" /\ res.state.packet = p /\ res.state.active = FALSE
      BY <1>14, <1>19, <2>1, <2>2
    <2> QED BY <1>21, <2>3 DEF res, count
  <1> QED BY <1>20, <1>21

\* The frames the device was given last, and what it made of them: it has all the
\* fragments of p that they are, or the packet.
FedInOrder ==
  \A p \in Packets : \A k \in 1 .. CountFor(Len(p)) :
    Len(fed) >= k /\ (\A j \in 0 .. k - 1 : fed[Len(fed) - j] = Fragments(p)[k - j])
      => IF k = CountFor(Len(p))
         THEN outcome = "COMPLETE" /\ delivered # <<>> /\ delivered[Len(delivered)] = p
         ELSE Holds(p, k)

LEMMA PollKeepsFedInOrder ==
  ASSUME CanInv, FedInOrder, PollCan
  PROVE  FedInOrder'
  <1> DEFINE f == Head(fifo)
             res == FeedResult(f)
             longer == Append(fed, f)
  <1>1. /\ fifo # <<>> /\ reassembly' = res.state /\ outcome' = res.result
        /\ delivered' = IF res.result = "COMPLETE" /\ Decodes(res.state.packet)
                        THEN Append(delivered, res.state.packet) ELSE delivered
        /\ fed' = LastOf(longer, MaxFragments)
    BY DEF PollCan
  <1>2. CanTypeOK /\ AtFragments
    BY DEF CanInv
  <1>3. /\ fifo \in Seq(Frames) /\ delivered \in Seq(Packets) /\ fed \in Seq(Frames)
        /\ MaxFragments \in Nat /\ MaxFragments >= 2 /\ MaxFragments >= 1
    BY <1>2, CanTypes
  <1>4. f \in Frames
    BY <1>1, <1>3, HeadTailProperties
  <1> HIDE DEF f, res
  <1>5. /\ longer \in Seq(Frames) /\ Len(longer) = Len(fed) + 1 /\ Len(fed) \in Nat
        /\ \A k \in 1 .. Len(fed) : longer[k] = fed[k]
        /\ longer[Len(fed) + 1] = f
    BY <1>3, <1>4, AppendProperties, LenProperties
  <1> HIDE DEF longer
  <1>6. /\ Len(fed') = Lesser(Len(longer), MaxFragments) /\ Len(fed') \in Nat
        /\ \A j \in 0 .. Len(fed') - 1 : fed'[Len(fed') - j] = longer[Len(longer) - j]
    BY <1>1, <1>3, <1>5, LastOfFacts
  <1>7. Len(fed') <= Len(fed) + 1
    BY <1>3, <1>5, <1>6 DEF Lesser
  <1> SUFFICES ASSUME NEW p \in Packets, NEW k \in 1 .. CountFor(Len(p)), Len(fed') >= k,
                      \A j \in 0 .. k - 1 : fed'[Len(fed') - j] = Fragments(p)[k - j]
               PROVE  IF k = CountFor(Len(p))
                      THEN /\ outcome' = "COMPLETE" /\ delivered' # <<>>
                           /\ delivered'[Len(delivered')] = p
                      ELSE Holds(p, k)'
    BY DEF FedInOrder
  <1> DEFINE count == CountFor(Len(p))
             i == k - 1
  <1>8. count \in Nat
    BY CountOfPacket
  <1>9. k \in Nat /\ k >= 1 /\ k <= count
    BY <1>8
  <1> HIDE DEF count
  <1>10. \A j \in 0 .. k - 1 : longer[Len(longer) - j] = Fragments(p)[k - j]
    <2> TAKE j \in 0 .. k - 1
    <2>1. j \in 0 .. Len(fed') - 1
      BY <1>6, <1>9
    <2>2. fed'[Len(fed') - j] = longer[Len(longer) - j]
      BY <1>6, <2>1
    <2> QED BY <2>2
  <1>11. f = Fragments(p)[k]
    <2>1. 0 \in 0 .. k - 1 /\ Len(longer) - 0 = Len(fed) + 1 /\ k - 0 = k
      BY <1>5, <1>9
    <2> QED BY <1>5, <1>10, <2>1
  <1>12. i \in Nat /\ i < count /\ i + 1 = k
    BY <1>8, <1>9
  <1>13. i > 0 => Holds(p, i)
    <2> SUFFICES ASSUME i > 0 PROVE Holds(p, i)
      OBVIOUS
    <2>1. i \in 1 .. count /\ i # count /\ Len(fed) >= i
      BY <1>5, <1>6, <1>7, <1>8, <1>9
    <2>2. \A j \in 0 .. i - 1 : fed[Len(fed) - j] = Fragments(p)[i - j]
      <3> TAKE j \in 0 .. i - 1
      <3>1. j + 1 \in 0 .. k - 1 /\ k - (j + 1) = i - j
        BY <1>9
      <3>2. Len(longer) - (j + 1) = Len(fed) - j /\ Len(fed) - j \in 1 .. Len(fed)
        BY <1>5, <1>12, <2>1
      <3>3. longer[Len(longer) - (j + 1)] = Fragments(p)[k - (j + 1)]
        BY <1>10, <3>1
      <3>4. longer[Len(fed) - j] = fed[Len(fed) - j]
        BY <1>5, <3>2
      <3> QED BY <3>1, <3>2, <3>3, <3>4
    <2> HIDE DEF i
    <2> QED BY <2>1, <2>2 DEF FedInOrder, count
  <1> HIDE DEF i
  <1>14. f = Fragments(p)[i + 1]
    BY <1>11, <1>12
  <1>15. /\ i + 1 < count => /\ res.result = "NONE" /\ res.state.active /\ res.state.next = i + 1
                             /\ res.state.expected = Len(p)
                             /\ res.state.packet = SubSeq(p, 1, OffsetOf(i + 1))
         /\ i + 1 = count => res.result = "COMPLETE" /\ res.state.packet = p
    BY <1>2, <1>12, <1>13, <1>14, FeedOfFragment DEF res, count
  <1>16. CASE k = count
    <2>1. res.result = "COMPLETE" /\ res.state.packet = p
      BY <1>12, <1>15, <1>16
    <2>2. delivered' = Append(delivered, p)
      BY <1>1, <2>1 DEF Decodes
    <2>3. Len(delivered') = Len(delivered) + 1 /\ delivered'[Len(delivered) + 1] = p
          /\ Len(delivered) \in Nat
      BY <1>3, <2>2, AppendProperties, LenProperties
    <2>4. delivered' # <<>>
      <3>1. Len(<<>>) = 0 /\ Len(delivered') # 0
        BY <2>3
      <3> QED BY ONLY <3>1
    <2> QED BY <1>1, <1>16, <2>1, <2>3, <2>4 DEF count
  <1>17. CASE k # count
    <2>1. i + 1 < count
      BY <1>8, <1>9, <1>12, <1>17
    <2>2. Holds(p, k)'
      BY <1>1, <1>12, <1>15, <2>1 DEF Holds
    <2> QED BY <1>17, <2>2 DEF count
  <1> QED BY <1>16, <1>17

LEMMA StepKeepsFedInOrder == CanInv /\ FedInOrder /\ [CanNext]_canVars => FedInOrder'
  <1> SUFFICES ASSUME CanInv, FedInOrder, [CanNext]_canVars
               PROVE  FedInOrder'
    OBVIOUS
  <1>1. CASE PollCan
    BY <1>1, PollKeepsFedInOrder
  <1>2. CASE ~PollCan
    <2>1. UNCHANGED <<fed, outcome, delivered, reassembly>>
      BY <1>2
      DEF CanNext, Submit, QueueFragment, GiveUp, Transmit, Lose, Duplicate, receiver,
          reassemblies, canVars
    <2> QED BY <2>1 DEF FedInOrder, Holds
  <1> QED BY <1>1, <1>2

\* A packet whose fragments arrive one after the other is delivered, whatever came
\* before them.
THEOREM UnbrokenIsDelivered == CanSpec => []DeliversUnbroken
  <1>1. CanInit => FedInOrder
    <2> SUFFICES ASSUME CanInit, NEW p \in Packets, NEW k \in 1 .. CountFor(Len(p))
                 PROVE  ~(Len(fed) >= k)
      BY DEF FedInOrder
    <2>1. fed = <<>> /\ Len(<<>>) = 0
      BY DEF CanInit
    <2>2. k >= 1 /\ k \in Int
      BY CountOfPacket
    <2> QED BY <2>1, <2>2
  <1>2. CanInv /\ FedInOrder => DeliversUnbroken
    <2> SUFFICES ASSUME CanInv, FedInOrder, NEW p \in Packets,
                        Len(fed) >= Len(Fragments(p)),
                        LastOf(fed, Len(Fragments(p))) = Fragments(p)
                 PROVE  /\ outcome = "COMPLETE" /\ delivered # <<>>
                        /\ delivered[Len(delivered)] = p
      BY DEF DeliversUnbroken
    <2> DEFINE k == CountFor(Len(p))
               last == LastOf(fed, k)
    <2>1. Len(Fragments(p)) = k
      BY FragmentsOf
    <2>2. k \in Nat /\ k >= 1 /\ k \in 1 .. k
      BY CountOfPacket
    <2>3. fed \in Seq(Frames)
      BY CanTypes DEF CanInv
    <2> HIDE DEF k
    <2>4. last = Fragments(p) /\ Len(last) = k
      BY <2>1
    <2>5. \A j \in 0 .. Len(last) - 1 : last[Len(last) - j] = fed[Len(fed) - j]
      BY <2>2, <2>3, LastOfFacts
    <2> HIDE DEF last
    <2>6. \A j \in 0 .. k - 1 : fed[Len(fed) - j] = Fragments(p)[k - j]
      BY <2>4, <2>5
    <2>7. Len(fed) >= k
      BY <2>1
    <2> QED BY <2>2, <2>6, <2>7 DEF FedInOrder, k
  <1> QED BY <1>1, <1>2, CanInvariant, StepKeepsFedInOrder, PTL DEF CanSpec

-----------------------------------------------------------------------------
(* A bus without faults. *)

\* The frames of w are fragments of the packets s, each the one after the one
\* before: w[i] is fragment k[i - 1], counted from 0, of packet m[i - 1].
Path(w, s, m, k) ==
  \A i \in 1 .. Len(w) :
    /\ m[i - 1] \in 1 .. Len(s) /\ k[i - 1] < CountFor(Len(s[m[i - 1]]))
    /\ w[i] = Fragments(s[m[i - 1]])[k[i - 1] + 1]
    /\ IF k[i - 1] + 1 = CountFor(Len(s[m[i - 1]]))
       THEN m[i] = m[i - 1] + 1 /\ k[i] = 0
       ELSE m[i] = m[i - 1] /\ k[i] = k[i - 1] + 1

Underway == fifo \o mailboxes

\* The fragment that the device waits for, and the one that the sender makes next.
ExpectedFragment == IF reassembly.active THEN reassembly.next ELSE 0
NextFragmentOf == IF fragmenter = Idle THEN 0 ELSE fragmenter.index
NextPacket == IF fragmenter = Idle THEN Len(sent) + 1 ELSE Len(sent)

\* Every packet is delivered, or is where the sender and the frames under way take
\* over from what the device has of it.
NothingIsLost ==
  /\ Len(delivered) <= Len(sent) /\ delivered = SubSeq(sent, 1, Len(delivered))
  /\ fragmenter # Idle => Len(sent) >= 1 /\ fragmenter.packet = sent[Len(sent)]
  /\ reassembly.active =>
       Len(delivered) < Len(sent) /\ Holds(sent[Len(delivered) + 1], reassembly.next)
  /\ \E m, k \in [0 .. Len(Underway) -> Nat] :
       /\ Path(Underway, sent, m, k)
       /\ m[0] = Len(delivered) + 1 /\ k[0] = ExpectedFragment
       /\ m[Len(Underway)] = NextPacket /\ k[Len(Underway)] = NextFragmentOf

LEMMA PathOfMore ==
  ASSUME NEW w \in Seq(Frames), NEW s \in Seq(Packets), NEW p \in Packets,
         NEW m \in [0 .. Len(w) -> Nat], NEW k \in [0 .. Len(w) -> Nat], Path(w, s, m, k)
  PROVE  Path(w, Append(s, p), m, k)
  <1> DEFINE t == Append(s, p)
  <1>1. Len(t) = Len(s) + 1 /\ Len(s) \in Nat /\ \A j \in 1 .. Len(s) : t[j] = s[j]
    BY AppendProperties, LenProperties
  <1> HIDE DEF t
  <1>2. \A i \in 1 .. Len(w) : m[i - 1] \in 1 .. Len(s) /\ m[i - 1] \in 1 .. Len(t)
                               /\ t[m[i - 1]] = s[m[i - 1]]
    <2> TAKE i \in 1 .. Len(w)
    <2>1. m[i - 1] \in 1 .. Len(s)
      BY DEF Path
    <2> QED BY <1>1, <2>1
  <1>3. Path(w, t, m, k)
    BY <1>2 DEF Path
  <1> QED BY <1>3 DEF t

LEMMA PathAppended ==
  ASSUME NEW w \in Seq(Frames), NEW s \in Seq(Packets), NEW f \in Frames,
         NEW m \in [0 .. Len(w) -> Nat], NEW k \in [0 .. Len(w) -> Nat], Path(w, s, m, k),
         m[Len(w)] \in 1 .. Len(s), k[Len(w)] < CountFor(Len(s[m[Len(w)]])),
         f = Fragments(s[m[Len(w)]])[k[Len(w)] + 1]
  PROVE  \E m2, k2 \in [0 .. Len(w) + 1 -> Nat] :
           /\ Path(Append(w, f), s, m2, k2) /\ m2[0] = m[0] /\ k2[0] = k[0]
           /\ IF k[Len(w)] + 1 = CountFor(Len(s[m[Len(w)]]))
              THEN m2[Len(w) + 1] = m[Len(w)] + 1 /\ k2[Len(w) + 1] = 0
              ELSE m2[Len(w) + 1] = m[Len(w)] /\ k2[Len(w) + 1] = k[Len(w)] + 1
  <1> DEFINE mm == m[Len(w)]
             kk == k[Len(w)]
  <1>0. /\ mm \in Nat /\ kk \in Nat /\ mm = m[Len(w)] /\ kk = k[Len(w)]
        /\ mm \in 1 .. Len(s) /\ kk < CountFor(Len(s[mm])) /\ f = Fragments(s[mm])[kk + 1]
    <2>1. Len(w) \in Nat /\ Len(w) \in 0 .. Len(w)
      BY LenProperties
    <2> QED BY <2>1
  <1> HIDE DEF mm, kk
  <1> DEFINE len == Len(w)
             last == kk + 1 = CountFor(Len(s[mm]))
             m3 == IF last THEN mm + 1 ELSE mm
             k3 == IF last THEN 0 ELSE kk + 1
             m2 == [i \in 0 .. len + 1 |-> IF i = len + 1 THEN m3 ELSE m[i]]
             k2 == [i \in 0 .. len + 1 |-> IF i = len + 1 THEN k3 ELSE k[i]]
             longer == Append(w, f)
  <1>1. len \in Nat /\ Len(longer) = len + 1 /\ longer[len + 1] = f
        /\ \A i \in 1 .. len : longer[i] = w[i]
    BY AppendProperties, LenProperties
  <1> HIDE DEF longer
  <1>2. m \in [0 .. len -> Nat] /\ k \in [0 .. len -> Nat] /\ mm = m[len] /\ kk = k[len]
    BY <1>0
  <1>3. \A i \in 1 .. len :
          /\ m[i - 1] \in 1 .. Len(s) /\ k[i - 1] < CountFor(Len(s[m[i - 1]]))
          /\ w[i] = Fragments(s[m[i - 1]])[k[i - 1] + 1]
          /\ IF k[i - 1] + 1 = CountFor(Len(s[m[i - 1]]))
             THEN m[i] = m[i - 1] + 1 /\ k[i] = 0
             ELSE m[i] = m[i - 1] /\ k[i] = k[i - 1] + 1
    BY DEF Path
  <1> HIDE DEF len
  <1>4. m3 \in Nat /\ k3 \in Nat
    BY <1>0
  <1>5. m2 \in [0 .. len + 1 -> Nat] /\ k2 \in [0 .. len + 1 -> Nat]
    <2>1. \A i \in 0 .. len + 1 : i # len + 1 => m[i] \in Nat /\ k[i] \in Nat
      BY <1>1, <1>2
    <2> HIDE DEF m3, k3
    <2> QED BY <1>4, <2>1
  <1>6. /\ \A i \in 0 .. len : m2[i] = m[i] /\ k2[i] = k[i]
        /\ m2[len + 1] = m3 /\ k2[len + 1] = k3
    <2> HIDE DEF m3, k3
    <2>1. \A i \in 0 .. len : i \in 0 .. len + 1 /\ i # len + 1
      BY <1>1
    <2>2. len + 1 \in 0 .. len + 1
      BY <1>1
    <2> QED BY <2>1, <2>2
  <1>7. IF last THEN m2[len + 1] = mm + 1 /\ k2[len + 1] = 0
        ELSE m2[len + 1] = mm /\ k2[len + 1] = kk + 1
    BY <1>6
  <1> HIDE DEF m2, k2, m3, k3
  <1>8. Path(longer, s, m2, k2)
    <2> SUFFICES ASSUME NEW i \in 1 .. len + 1
                 PROVE  /\ m2[i - 1] \in 1 .. Len(s) /\ k2[i - 1] < CountFor(Len(s[m2[i - 1]]))
                        /\ longer[i] = Fragments(s[m2[i - 1]])[k2[i - 1] + 1]
                        /\ IF k2[i - 1] + 1 = CountFor(Len(s[m2[i - 1]]))
                           THEN m2[i] = m2[i - 1] + 1 /\ k2[i] = 0
                           ELSE m2[i] = m2[i - 1] /\ k2[i] = k2[i - 1] + 1
      BY <1>1 DEF Path
    <2>1. CASE i = len + 1
      <3>1. i - 1 = len /\ len \in 0 .. len
        BY <1>1, <2>1
      <3>2. m2[i - 1] = mm /\ k2[i - 1] = kk
        BY <1>2, <1>6, <3>1
      <3> QED BY <1>0, <1>1, <1>7, <2>1, <3>2 DEF last
    <2>2. CASE i # len + 1
      <3>1. i \in 1 .. len /\ i - 1 \in 0 .. len /\ i \in 0 .. len
        BY <1>1, <2>2
      <3>2. m2[i - 1] = m[i - 1] /\ k2[i - 1] = k[i - 1] /\ m2[i] = m[i] /\ k2[i] = k[i]
        BY <1>6, <3>1
      <3> QED BY <1>1, <1>3, <3>1, <3>2
    <2> QED BY <2>1, <2>2
  <1>9. m2[0] = m[0] /\ k2[0] = k[0]
    BY <1>1, <1>6
  <1> QED BY <1>5, <1>7, <1>8, <1>9 DEF len, last, longer, mm, kk

LEMMA PathOfTail ==
  ASSUME NEW w \in Seq(Frames), w # <<>>, NEW s \in Seq(Packets),
         NEW m \in [0 .. Len(w) -> Nat], NEW k \in [0 .. Len(w) -> Nat], Path(w, s, m, k)
  PROVE  \E m2, k2 \in [0 .. Len(w) - 1 -> Nat] :
           /\ Path(Tail(w), s, m2, k2) /\ m2[0] = m[1] /\ k2[0] = k[1]
           /\ m2[Len(w) - 1] = m[Len(w)] /\ k2[Len(w) - 1] = k[Len(w)]
  <1> DEFINE len == Len(w)
             m2 == [i \in 0 .. len - 1 |-> m[i + 1]]
             k2 == [i \in 0 .. len - 1 |-> k[i + 1]]
             t == Tail(w)
  <1>1. len \in Nat /\ len >= 1
    <2>1. len \in Nat /\ len # 0
      BY LenProperties, EmptySeq
    <2> QED BY <2>1
  <1>2. Len(t) = len - 1 /\ \A i \in 1 .. len - 1 : t[i] = w[i + 1]
    BY HeadTailProperties
  <1> HIDE DEF t
  <1>3. m \in [0 .. len -> Nat] /\ k \in [0 .. len -> Nat]
    OBVIOUS
  <1>4. \A i \in 1 .. len :
          /\ m[i - 1] \in 1 .. Len(s) /\ k[i - 1] < CountFor(Len(s[m[i - 1]]))
          /\ w[i] = Fragments(s[m[i - 1]])[k[i - 1] + 1]
          /\ IF k[i - 1] + 1 = CountFor(Len(s[m[i - 1]]))
             THEN m[i] = m[i - 1] + 1 /\ k[i] = 0
             ELSE m[i] = m[i - 1] /\ k[i] = k[i - 1] + 1
    BY DEF Path
  <1> HIDE DEF len
  <1>5. m2 \in [0 .. len - 1 -> Nat] /\ k2 \in [0 .. len - 1 -> Nat]
    <2>1. \A i \in 0 .. len - 1 : m[i + 1] \in Nat /\ k[i + 1] \in Nat
      BY <1>1, <1>3
    <2> QED BY <2>1
  <1>6. \A i \in 0 .. len - 1 : m2[i] = m[i + 1] /\ k2[i] = k[i + 1]
    OBVIOUS
  <1> HIDE DEF m2, k2
  <1>7. Path(t, s, m2, k2)
    <2> SUFFICES ASSUME NEW i \in 1 .. len - 1
                 PROVE  /\ m2[i - 1] \in 1 .. Len(s) /\ k2[i - 1] < CountFor(Len(s[m2[i - 1]]))
                        /\ t[i] = Fragments(s[m2[i - 1]])[k2[i - 1] + 1]
                        /\ IF k2[i - 1] + 1 = CountFor(Len(s[m2[i - 1]]))
                           THEN m2[i] = m2[i - 1] + 1 /\ k2[i] = 0
                           ELSE m2[i] = m2[i - 1] /\ k2[i] = k2[i - 1] + 1
      BY <1>2 DEF Path
    <2> DEFINE j == i + 1
    <2>1. j \in 1 .. len /\ i - 1 \in 0 .. len - 1 /\ i \in 0 .. len - 1
          /\ (i - 1) + 1 = i /\ j - 1 = i
      BY <1>1
    <2>2. m2[i - 1] = m[j - 1] /\ k2[i - 1] = k[j - 1] /\ m2[i] = m[j] /\ k2[i] = k[j]
      BY <1>6, <2>1
    <2>3. t[i] = w[j]
      BY <1>2
    <2> HIDE DEF j
    <2> QED BY <1>4, <2>1, <2>2, <2>3
  <1>8. m2[0] = m[1] /\ k2[0] = k[1] /\ m2[len - 1] = m[len] /\ k2[len - 1] = k[len]
    <2>1. 0 \in 0 .. len - 1 /\ len - 1 \in 0 .. len - 1 /\ (len - 1) + 1 = len /\ 0 + 1 = 1
      BY <1>1
    <2> QED BY <1>6, <2>1
  <1> QED BY <1>5, <1>7, <1>8 DEF len, t

\* The frames under way, in front and behind.
LEMMA UnderwayFacts ==
  ASSUME CanTypeOK
  PROVE  /\ Underway \in Seq(Frames)
         /\ \A f \in Frames : fifo \o Append(mailboxes, f) = Append(Underway, f)
         /\ mailboxes # <<>> => Append(fifo, Head(mailboxes)) \o Tail(mailboxes) = Underway
         /\ fifo # <<>> => /\ Underway # <<>> /\ Underway[1] = Head(fifo)
                           /\ Tail(Underway) = Tail(fifo) \o mailboxes
                           /\ Len(Tail(Underway)) = Len(Underway) - 1
  <1>1. fifo \in Seq(Frames) /\ mailboxes \in Seq(Frames)
    BY CanTypes
  <1>2. Underway \in Seq(Frames)
    BY <1>1, ConcatProperties DEF Underway
  <1>3. ASSUME NEW f \in Frames
        PROVE  fifo \o Append(mailboxes, f) = Append(Underway, f)
    <2>1. <<f>> \in Seq(Frames)
      OBVIOUS
    <2>2. Append(mailboxes, f) = mailboxes \o <<f>> /\ Append(Underway, f) = Underway \o <<f>>
      BY <1>1, <1>2, AppendIsConcat
    <2>3. (fifo \o mailboxes) \o <<f>> = fifo \o (mailboxes \o <<f>>)
      BY <1>1, <2>1, ConcatAssociative
    <2> QED BY <2>2, <2>3 DEF Underway
  <1>4. ASSUME mailboxes # <<>>
        PROVE  Append(fifo, Head(mailboxes)) \o Tail(mailboxes) = Underway
    <2> DEFINE h == Head(mailboxes)
               t == Tail(mailboxes)
    <2>1. h \in Frames /\ t \in Seq(Frames) /\ mailboxes = <<h>> \o t
      BY <1>1, <1>4, HeadTailProperties
    <2> HIDE DEF h, t
    <2>2. <<h>> \in Seq(Frames)
      BY <2>1
    <2>3. Append(fifo, h) = fifo \o <<h>>
      BY <1>1, <2>1, AppendIsConcat
    <2>4. (fifo \o <<h>>) \o t = fifo \o (<<h>> \o t)
      BY <1>1, <2>1, <2>2, ConcatAssociative
    <2>5. Append(fifo, h) \o t = Underway
      BY <2>1, <2>3, <2>4 DEF Underway
    <2> QED BY <2>5 DEF h, t
  <1>5. ASSUME fifo # <<>>
        PROVE  /\ Underway # <<>> /\ Underway[1] = Head(fifo)
               /\ Tail(Underway) = Tail(fifo) \o mailboxes
               /\ Len(Tail(Underway)) = Len(Underway) - 1
    <2> DEFINE h == Head(fifo)
               t == Tail(fifo)
    <2>1. h \in Frames /\ t \in Seq(Frames) /\ fifo = <<h>> \o t /\ Len(fifo) >= 1
          /\ h = fifo[1]
      BY <1>1, <1>5, HeadTailProperties
    <2> HIDE DEF h, t
    <2>2. Len(Underway) = Len(fifo) + Len(mailboxes) /\ Len(mailboxes) \in Nat
          /\ Len(fifo) \in Nat
          /\ \A i \in 1 .. Len(fifo) + Len(mailboxes) :
               Underway[i] = IF i <= Len(fifo) THEN fifo[i] ELSE mailboxes[i - Len(fifo)]
      BY <1>1, ConcatProperties, LenProperties DEF Underway
    <2>3. 1 \in 1 .. Len(fifo) + Len(mailboxes) /\ 1 <= Len(fifo) /\ Len(Underway) # 0
      BY <2>1, <2>2
    <2>4. Underway[1] = h
      BY <2>1, <2>2, <2>3
    <2>5. Underway # <<>>
      <3>1. Len(<<>>) = 0
        OBVIOUS
      <3> QED BY ONLY <2>3, <3>1
    <2>6. <<h>> \in Seq(Frames)
      BY <2>1
    <2>7. Underway = <<h>> \o (t \o mailboxes)
      BY <1>1, <2>1, <2>6, ConcatAssociative DEF Underway
    <2>8. t \o mailboxes \in Seq(Frames)
      BY <1>1, <2>1, ConcatProperties
    <2>9. Tail(<<h>> \o (t \o mailboxes)) = t \o mailboxes
      BY <2>1, <2>8, ConcatSimplifications
    <2>10. Len(Tail(Underway)) = Len(Underway) - 1
      BY <1>2, <2>5, HeadTailProperties
    <2> QED BY <2>4, <2>5, <2>7, <2>9, <2>10 DEF h, t
  <1> QED BY <1>2, <1>3, <1>4, <1>5

LEMMA SubmitLosesNothing ==
  ASSUME CanInv, NothingIsLost, Submit
  PROVE  NothingIsLost'
  <1>1. CanTypeOK
    BY DEF CanInv
  <1>2. sent \in Seq(Packets) /\ delivered \in Seq(Packets) /\ Underway \in Seq(Frames)
    BY <1>1, CanTypes, UnderwayFacts
  <1>3. PICK p \in Packets :
          fragmenter' = [Idle EXCEPT !.packet = p] /\ sent' = Append(sent, p)
    BY DEF Submit
  <1>4. fragmenter = Idle /\ UNCHANGED <<mailboxes, fifo, reassembly, delivered>>
    BY DEF Submit, receiver, reassemblies
  <1>5. fragmenter' = [packet |-> p, offset |-> 0, index |-> 0]
    BY <1>3 DEF Idle
  <1>6. p # <<>>
    <2>1. Len(<<>>) = 0 /\ Len(p) # 0
      BY CanPacketFacts
    <2> QED BY ONLY <2>1
  <1>7. fragmenter' # Idle /\ fragmenter'.packet = p /\ fragmenter'.index = 0
    <2>1. fragmenter'.packet = p /\ fragmenter'.index = 0 /\ Idle.packet = <<>>
      BY <1>5 DEF Idle
    <2> QED BY <1>6, <2>1
  <1> DEFINE n == Len(delivered)
  <1>8. /\ Len(sent') = Len(sent) + 1 /\ Len(sent) \in Nat /\ n \in Nat
        /\ sent'[Len(sent) + 1] = p /\ \A j \in 1 .. Len(sent) : sent'[j] = sent[j]
    BY <1>2, <1>3, AppendProperties, LenProperties
  <1>9. /\ n <= Len(sent) /\ delivered = SubSeq(sent, 1, n)
        /\ reassembly.active => n < Len(sent) /\ Holds(sent[n + 1], reassembly.next)
    BY DEF NothingIsLost
  <1>10. PICK m \in [0 .. Len(Underway) -> Nat], k \in [0 .. Len(Underway) -> Nat] :
           /\ Path(Underway, sent, m, k)
           /\ m[0] = n + 1 /\ k[0] = ExpectedFragment
           /\ m[Len(Underway)] = NextPacket /\ k[Len(Underway)] = NextFragmentOf
    BY DEF NothingIsLost
  <1> HIDE DEF n
  <1>11. Path(Underway, sent', m, k)
    BY <1>2, <1>3, <1>10, PathOfMore
  <1>12. NextPacket' = Len(sent) + 1 /\ NextFragmentOf' = 0 /\ NextPacket = Len(sent) + 1
         /\ NextFragmentOf = 0
    BY <1>4, <1>7, <1>8 DEF NextPacket, NextFragmentOf
  <1>13. ExpectedFragment' = ExpectedFragment /\ Underway' = Underway
    BY <1>4 DEF ExpectedFragment, Underway
  <1>14. n <= Len(sent') /\ delivered = SubSeq(sent', 1, n)
    <2>1. n \in 0 .. Len(sent)
      BY <1>8, <1>9
    <2>2. n <= Len(sent')
      BY <1>8, <1>9
    <2> QED BY <1>2, <1>3, <1>9, <2>1, <2>2, BeginningOfAppended
  <1>15. reassembly.active => n < Len(sent') /\ Holds(sent'[n + 1], reassembly.next)
    <2> SUFFICES ASSUME reassembly.active
                 PROVE  n < Len(sent') /\ Holds(sent'[n + 1], reassembly.next)
      OBVIOUS
    <2>1. n + 1 \in 1 .. Len(sent) /\ n < Len(sent')
      BY <1>8, <1>9
    <2> QED BY <1>8, <1>9, <2>1
  <1>16. Len(sent') >= 1 /\ fragmenter'.packet = sent'[Len(sent')]
    BY <1>7, <1>8
  <1>17. \E m2, k2 \in [0 .. Len(Underway') -> Nat] :
           /\ Path(Underway', sent', m2, k2)
           /\ m2[0] = Len(delivered') + 1 /\ k2[0] = ExpectedFragment'
           /\ m2[Len(Underway')] = NextPacket' /\ k2[Len(Underway')] = NextFragmentOf'
    BY <1>4, <1>10, <1>11, <1>12, <1>13 DEF n
  <1>18. (reassembly.active =>
            n < Len(sent) /\ Holds(sent[n + 1], reassembly.next))'
    BY <1>4, <1>15 DEF Holds, n
  <1> QED BY <1>4, <1>14, <1>16, <1>17, <1>18 DEF NothingIsLost, n

LEMMA QueueLosesNothing ==
  ASSUME CanInv, NothingIsLost, QueueFragment
  PROVE  NothingIsLost'
  <1> DEFINE f == fragmenter
             p == f.packet
             next == f.offset + Lesser(Len(p) - f.offset, Capacity(f.offset))
             frame == Frame(p, f.offset, f.index)
             count == CountFor(Len(p))
             len == Len(Underway)
  <1>1. CanTypeOK /\ AtFragments
    BY DEF CanInv
  <1>2. sent \in Seq(Packets) /\ Underway \in Seq(Frames) /\ Len(sent) \in Nat /\ len \in Nat
    BY <1>1, CanTypes, UnderwayFacts, LenProperties
  <1>3. /\ f # Idle /\ mailboxes' = Append(mailboxes, frame)
        /\ fragmenter' = IF next = Len(p) THEN Idle
                         ELSE [f EXCEPT !.offset = next, !.index = @ + 1]
        /\ UNCHANGED <<fifo, reassembly, delivered, sent>>
    BY DEF QueueFragment, receiver, reassemblies
  <1>4. /\ p \in Packets /\ f.index \in Nat /\ f.index < count /\ frame \in Frames
        /\ frame = Fragments(p)[f.index + 1]
        /\ (next = Len(p) <=> f.index + 1 = count)
    BY <1>1, <1>3, NextFragment
  <1>5. Len(sent) >= 1 /\ p = sent[Len(sent)]
    BY <1>3 DEF NothingIsLost
  <1>6. PICK m \in [0 .. len -> Nat], k \in [0 .. len -> Nat] :
          /\ Path(Underway, sent, m, k)
          /\ m[0] = Len(delivered) + 1 /\ k[0] = ExpectedFragment
          /\ m[len] = NextPacket /\ k[len] = NextFragmentOf
    BY DEF NothingIsLost
  <1>7. NextPacket = Len(sent) /\ NextFragmentOf = f.index
    BY <1>3 DEF NextPacket, NextFragmentOf
  <1>8. fragmenter \in [packet : Packets \cup {<<>>}, offset : 0 .. MaxLength,
                        index : 0 .. MaxFragments]
    BY <1>1, CanTypes
  <1> HIDE DEF next, frame
  <1>9. Underway' = Append(Underway, frame)
    <2>1. fifo \o Append(mailboxes, frame) = Append(Underway, frame)
      BY <1>1, <1>4, UnderwayFacts
    <2> QED BY <1>3, <2>1 DEF Underway
  <1>10. Len(Underway') = len + 1
    BY <1>2, <1>4, <1>9, AppendProperties
  <1>11. \E m2, k2 \in [0 .. len + 1 -> Nat] :
           /\ Path(Append(Underway, frame), sent, m2, k2) /\ m2[0] = m[0] /\ k2[0] = k[0]
           /\ IF f.index + 1 = count
              THEN m2[len + 1] = Len(sent) + 1 /\ k2[len + 1] = 0
              ELSE m2[len + 1] = Len(sent) /\ k2[len + 1] = f.index + 1
    <2>1. Len(sent) = m[len] /\ f.index = k[len] /\ Len(sent) \in 1 .. Len(sent)
      BY <1>2, <1>5, <1>6, <1>7
    <2>2. f.index < CountFor(Len(sent[Len(sent)]))
          /\ frame = Fragments(sent[Len(sent)])[f.index + 1]
      BY <1>4, <1>5
    <2> HIDE DEF f, p, count
    <2>3. \E m2, k2 \in [0 .. len + 1 -> Nat] :
            /\ Path(Append(Underway, frame), sent, m2, k2) /\ m2[0] = m[0] /\ k2[0] = k[0]
            /\ IF f.index + 1 = CountFor(Len(sent[Len(sent)]))
               THEN m2[len + 1] = Len(sent) + 1 /\ k2[len + 1] = 0
               ELSE m2[len + 1] = Len(sent) /\ k2[len + 1] = f.index + 1
      <3> DEFINE w == Underway
                 s == sent
      <3>1. w \in Seq(Frames) /\ s \in Seq(Packets) /\ frame \in Frames
        BY <1>2, <1>4
      <3>2. m \in [0 .. Len(w) -> Nat] /\ k \in [0 .. Len(w) -> Nat]
            /\ Path(w, s, m, k)
        BY <1>6
      <3>3. /\ m[Len(w)] \in 1 .. Len(s) /\ k[Len(w)] < CountFor(Len(s[m[Len(w)]]))
            /\ frame = Fragments(s[m[Len(w)]])[k[Len(w)] + 1]
        BY <2>1, <2>2
      <3> HIDE DEF w, s
      <3>4. \E m2, k2 \in [0 .. Len(w) + 1 -> Nat] :
              /\ Path(Append(w, frame), s, m2, k2) /\ m2[0] = m[0] /\ k2[0] = k[0]
              /\ IF k[Len(w)] + 1 = CountFor(Len(s[m[Len(w)]]))
                 THEN m2[Len(w) + 1] = m[Len(w)] + 1 /\ k2[Len(w) + 1] = 0
                 ELSE m2[Len(w) + 1] = m[Len(w)] /\ k2[Len(w) + 1] = k[Len(w)] + 1
        BY ONLY <3>1, <3>2, <3>3, PathAppended, SMTT(60)
      <3> QED BY <2>1, <3>4 DEF w, s
    <2> QED BY <1>5, <2>3 DEF count
  <1>12. PICK m2 \in [0 .. len + 1 -> Nat], k2 \in [0 .. len + 1 -> Nat] :
           /\ Path(Append(Underway, frame), sent, m2, k2) /\ m2[0] = m[0] /\ k2[0] = k[0]
           /\ IF f.index + 1 = count
              THEN m2[len + 1] = Len(sent) + 1 /\ k2[len + 1] = 0
              ELSE m2[len + 1] = Len(sent) /\ k2[len + 1] = f.index + 1
    BY <1>11
  <1>13. /\ m2[len + 1] = NextPacket' /\ k2[len + 1] = NextFragmentOf'
         /\ fragmenter' # Idle => fragmenter'.packet = p
    <2>1. CASE f.index + 1 = count
      <3>1. fragmenter' = Idle
        BY <1>3, <1>4, <2>1
      <3> QED BY <1>3, <1>12, <2>1, <3>1 DEF NextPacket, NextFragmentOf
    <2>2. CASE f.index + 1 # count
      <3>1. fragmenter' = [fragmenter EXCEPT !.offset = next, !.index = @ + 1]
        BY <1>3, <1>4, <2>2
      <3>2. fragmenter'.packet = p /\ fragmenter'.index = f.index + 1
        BY <1>8, <3>1
      <3>3. fragmenter' # Idle
        <4>1. Idle.index = 0 /\ fragmenter'.index # 0
          BY <1>4, <3>2 DEF Idle
        <4> QED BY <4>1
      <3> QED BY <1>3, <1>12, <2>2, <3>2, <3>3 DEF NextPacket, NextFragmentOf
    <2> QED BY <2>1, <2>2
  <1>14. ExpectedFragment' = ExpectedFragment
    BY <1>3 DEF ExpectedFragment
  <1> HIDE DEF len
  <1>15. \E m3, k3 \in [0 .. Len(Underway') -> Nat] :
           /\ Path(Underway', sent', m3, k3)
           /\ m3[0] = Len(delivered') + 1 /\ k3[0] = ExpectedFragment'
           /\ m3[Len(Underway')] = NextPacket' /\ k3[Len(Underway')] = NextFragmentOf'
    BY <1>3, <1>6, <1>9, <1>10, <1>12, <1>13, <1>14
  <1>16. fragmenter' # Idle => Len(sent') >= 1 /\ fragmenter'.packet = sent'[Len(sent')]
    BY <1>3, <1>5, <1>13
  <1>17. /\ Len(delivered) <= Len(sent) /\ delivered = SubSeq(sent, 1, Len(delivered))
         /\ reassembly.active =>
              Len(delivered) < Len(sent) /\ Holds(sent[Len(delivered) + 1], reassembly.next)
    BY DEF NothingIsLost
  <1> QED BY <1>3, <1>15, <1>16, <1>17 DEF NothingIsLost, Holds

LEMMA TransmitLosesNothing ==
  ASSUME CanInv, NothingIsLost, Transmit, faults' = 0
  PROVE  NothingIsLost'
  <1>1. CanTypeOK
    BY DEF CanInv
  <1>2. PICK n \in Transmittable :
          Arrive(mailboxes[n]) /\ mailboxes' = WithoutNth(mailboxes, n)
    BY DEF Transmit
  <1>3. /\ faults' = IF Len(fifo) < FifoDepth THEN faults ELSE Lesser(faults + 1, MaxFaults)
        /\ UNCHANGED <<fragmenter, reassembly, delivered, sent>>
    BY DEF Transmit, reassemblies
  <1>4. /\ mailboxes \in Seq(Frames) /\ Len(mailboxes) <= Mailboxes
        /\ fifo \in Seq(Frames) /\ Len(fifo) <= FifoDepth /\ faults \in Nat
    BY <1>1, CanTypes, CanConstants
  <1>5. /\ mailboxes # <<>> /\ mailboxes[n] \in Frames /\ mailboxes[n] = Head(mailboxes)
        /\ WithoutNth(mailboxes, n) = Tail(mailboxes)
    BY <1>4, TransmittableFacts
  <1>6. Len(fifo) < FifoDepth
    <2>1. Lesser(faults + 1, MaxFaults) # 0
      BY <1>4, CanConstants DEF Lesser
    <2> QED BY <1>3, <2>1
  <1>7. fifo' = Append(fifo, Head(mailboxes)) /\ mailboxes' = Tail(mailboxes)
    BY <1>2, <1>4, <1>5, <1>6, ArriveFacts
  <1>8. Underway' = Underway
    BY <1>1, <1>5, <1>7, UnderwayFacts DEF Underway
  <1>9. UNCHANGED <<ExpectedFragment, NextPacket, NextFragmentOf>>
    BY <1>3 DEF ExpectedFragment, NextPacket, NextFragmentOf
  <1> QED BY <1>3, <1>8, <1>9 DEF NothingIsLost, Holds

LEMMA PollLosesNothing ==
  ASSUME CanInv, NothingIsLost, PollCan
  PROVE  NothingIsLost'
  <1> DEFINE f == Head(fifo)
             res == FeedResult(f)
             n == Len(delivered)
             p == sent[n + 1]
             i == ExpectedFragment
             len == Len(Underway)
  <1>1. CanTypeOK /\ AtFragments
    BY DEF CanInv
  <1>2. /\ sent \in Seq(Packets) /\ delivered \in Seq(Packets) /\ Underway \in Seq(Frames)
        /\ Len(sent) \in Nat /\ n \in Nat /\ len \in Nat /\ reassembly \in Reassemblies
    BY <1>1, CanTypes, UnderwayFacts, LenProperties
  <1>3. /\ fifo # <<>> /\ fifo' = Tail(fifo) /\ reassembly' = res.state
        /\ delivered' = IF res.result = "COMPLETE" /\ Decodes(res.state.packet)
                        THEN Append(delivered, res.state.packet) ELSE delivered
        /\ UNCHANGED <<fragmenter, mailboxes, sent>>
    BY DEF PollCan
  <1>4. /\ Underway # <<>> /\ Underway[1] = f /\ Underway' = Tail(Underway)
        /\ Len(Underway') = len - 1
    BY <1>1, <1>3, UnderwayFacts DEF Underway
  <1>5. PICK m \in [0 .. len -> Nat], k \in [0 .. len -> Nat] :
          /\ Path(Underway, sent, m, k) /\ m[0] = n + 1 /\ k[0] = i
          /\ m[len] = NextPacket /\ k[len] = NextFragmentOf
    BY DEF NothingIsLost
  <1>6. len >= 1
    <2>1. len # 0
      BY <1>2, <1>4, EmptySeq
    <2> QED BY <1>2, <2>1
  <1>7. /\ n + 1 \in 1 .. Len(sent) /\ i < CountFor(Len(p)) /\ f = Fragments(p)[i + 1]
        /\ IF i + 1 = CountFor(Len(p)) THEN m[1] = (n + 1) + 1 /\ k[1] = 0
           ELSE m[1] = n + 1 /\ k[1] = i + 1
    <2>1. 1 \in 1 .. len /\ 1 - 1 = 0
      BY <1>2, <1>6
    <2>2. /\ m[1 - 1] \in 1 .. Len(sent) /\ k[1 - 1] < CountFor(Len(sent[m[1 - 1]]))
          /\ Underway[1] = Fragments(sent[m[1 - 1]])[k[1 - 1] + 1]
          /\ IF k[1 - 1] + 1 = CountFor(Len(sent[m[1 - 1]]))
             THEN m[1] = m[1 - 1] + 1 /\ k[1] = 0
             ELSE m[1] = m[1 - 1] /\ k[1] = k[1 - 1] + 1
      BY <1>5, <2>1 DEF Path
    <2> HIDE DEF i, n, f
    <2> QED BY <1>4, <1>5, <2>1, <2>2
  <1>8. p \in Packets
    BY <1>2, <1>7, ElementOfSeq
  <1>9. i \in Nat
    BY <1>2, CanConstants, Offsets DEF ExpectedFragment, Reassemblies, MaxFragments
  <1>10. i > 0 => Holds(p, i)
    BY <1>2 DEF NothingIsLost, ExpectedFragment
  <1>11. /\ n <= Len(sent) /\ delivered = SubSeq(sent, 1, n)
         /\ fragmenter # Idle => Len(sent) >= 1 /\ fragmenter.packet = sent[Len(sent)]
    BY DEF NothingIsLost
  <1> DEFINE count == CountFor(Len(p))
  <1> HIDE DEF f, i, res
  <1>12. count \in Nat
    BY <1>8, CountOfPacket
  <1>13. /\ i + 1 < count =>
              /\ res.result = "NONE" /\ res.state.active /\ res.state.next = i + 1
              /\ res.state.expected = Len(p)
              /\ res.state.packet = SubSeq(p, 1, OffsetOf(i + 1))
         /\ i + 1 = count =>
              res.result = "COMPLETE" /\ res.state.packet = p /\ res.state.active = FALSE
    <2> HIDE DEF p
    <2> QED BY <1>1, <1>7, <1>8, <1>9, <1>10, FeedOfFragment DEF res
  <1> HIDE DEF p, count, len
  <1>14. i + 1 < count \/ i + 1 = count
    BY <1>7, <1>9, <1>12 DEF count
  <1>15. PICK m2 \in [0 .. len - 1 -> Nat], k2 \in [0 .. len - 1 -> Nat] :
           /\ Path(Tail(Underway), sent, m2, k2) /\ m2[0] = m[1] /\ k2[0] = k[1]
           /\ m2[len - 1] = m[len] /\ k2[len - 1] = k[len]
    BY <1>2, <1>4, <1>5, PathOfTail DEF len
  <1>16. UNCHANGED <<NextPacket, NextFragmentOf>>
    BY <1>3 DEF NextPacket, NextFragmentOf
  <1>17. /\ Path(Underway', sent', m2, k2)
         /\ m2[Len(Underway')] = NextPacket' /\ k2[Len(Underway')] = NextFragmentOf'
         /\ m2 \in [0 .. Len(Underway') -> Nat] /\ k2 \in [0 .. Len(Underway') -> Nat]
    BY <1>3, <1>4, <1>5, <1>15, <1>16
  <1>18. fragmenter' # Idle => Len(sent') >= 1 /\ fragmenter'.packet = sent'[Len(sent')]
    BY <1>3, <1>11
  <1>19. CASE i + 1 < count
    <2>1. /\ delivered' = delivered /\ reassembly'.active /\ reassembly'.next = i + 1
          /\ reassembly'.expected = Len(p)
          /\ reassembly'.packet = SubSeq(p, 1, OffsetOf(i + 1))
      BY <1>3, <1>13, <1>19
    <2>2. i + 1 # count
      BY <1>9, <1>12, <1>19
    <2>3. m2[0] = n + 1 /\ k2[0] = i + 1 /\ ExpectedFragment' = i + 1
      BY <1>7, <1>15, <2>1, <2>2 DEF ExpectedFragment, count
    <2>4. n < Len(sent)
      BY <1>2, <1>7
    <2>5. /\ Len(delivered') = n /\ n <= Len(sent') /\ delivered' = SubSeq(sent', 1, n)
          /\ n < Len(sent') /\ sent'[n + 1] = p
      BY <1>3, <1>11, <2>1, <2>4 DEF p
    <2>6. (Holds(sent[Len(delivered) + 1], reassembly.next))'
      BY <2>1, <2>5 DEF Holds
    <2> HIDE DEF n
    <2>7. \E m3, k3 \in [0 .. Len(Underway') -> Nat] :
            /\ Path(Underway', sent', m3, k3)
            /\ m3[0] = Len(delivered') + 1 /\ k3[0] = ExpectedFragment'
            /\ m3[Len(Underway')] = NextPacket' /\ k3[Len(Underway')] = NextFragmentOf'
      BY <1>17, <2>3, <2>5
    <2> QED BY <1>18, <2>5, <2>6, <2>7 DEF NothingIsLost
  <1>20. CASE i + 1 = count
    <2>1. delivered' = Append(delivered, p) /\ ~reassembly'.active
      BY <1>3, <1>8, <1>13, <1>20 DEF Decodes
    <2>2. m2[0] = (n + 1) + 1 /\ k2[0] = 0 /\ ExpectedFragment' = 0
      BY <1>7, <1>15, <1>20, <2>1 DEF ExpectedFragment, count
    <2>3. Len(delivered') = n + 1
      BY <1>2, <1>8, <2>1, AppendProperties
    <2>4. n < Len(sent) /\ n + 1 <= Len(sent)
      BY <1>2, <1>7
    <2>5. Append(SubSeq(sent, 1, n), sent[n + 1]) = SubSeq(sent, 1, n + 1)
      BY <1>2, <2>4, LongerBeginning
    <2>6. delivered' = SubSeq(sent', 1, n + 1) /\ n + 1 <= Len(sent')
      BY <1>3, <1>11, <2>1, <2>4, <2>5 DEF p
    <2> HIDE DEF n
    <2>7. \E m3, k3 \in [0 .. Len(Underway') -> Nat] :
            /\ Path(Underway', sent', m3, k3)
            /\ m3[0] = Len(delivered') + 1 /\ k3[0] = ExpectedFragment'
            /\ m3[Len(Underway')] = NextPacket' /\ k3[Len(Underway')] = NextFragmentOf'
      BY <1>17, <2>2, <2>3
    <2> QED BY <1>18, <2>1, <2>3, <2>6, <2>7 DEF NothingIsLost
  <1> QED BY <1>14, <1>19, <1>20

\* Nothing is lost while nothing goes wrong.
NothingIsLostYet == faults = 0 => NothingIsLost

LEMMA StepLosesNothing == CanInv /\ NothingIsLostYet /\ [CanNext]_canVars => NothingIsLostYet'
  <1> SUFFICES ASSUME CanInv, NothingIsLostYet, [CanNext]_canVars, faults' = 0
               PROVE  NothingIsLost'
    BY DEF NothingIsLostYet
  <1>1. faults \in Nat /\ MaxFaults \in Nat /\ MaxFaults >= 1
    BY CanTypes, CanConstants DEF CanInv
  <1>2. ~GiveUp /\ ~Lose /\ ~Duplicate
    BY <1>1 DEF GiveUp, Lose, Duplicate
  <1>3. CASE UNCHANGED canVars
    <2>1. UNCHANGED <<fragmenter, mailboxes, fifo, reassembly, delivered, sent, faults>>
      BY <1>3 DEF canVars, receiver, reassemblies
    <2>2. UNCHANGED <<Underway, ExpectedFragment, NextPacket, NextFragmentOf>>
      BY <2>1 DEF Underway, ExpectedFragment, NextPacket, NextFragmentOf
    <2>3. NothingIsLost
      BY <2>1 DEF NothingIsLostYet
    <2> QED BY <2>1, <2>2, <2>3 DEF NothingIsLost, Holds
  <1>4. CASE Submit
    <2>1. NothingIsLost
      BY <1>4 DEF Submit, NothingIsLostYet
    <2> QED BY <1>4, <2>1, SubmitLosesNothing
  <1>5. CASE QueueFragment
    <2>1. NothingIsLost
      BY <1>5 DEF QueueFragment, NothingIsLostYet
    <2> QED BY <1>5, <2>1, QueueLosesNothing
  <1>6. CASE Transmit
    <2>1. faults = 0
      <3>1. faults' = faults \/ faults' = Lesser(faults + 1, MaxFaults)
        BY <1>6 DEF Transmit
      <3>2. Lesser(faults + 1, MaxFaults) # 0
        BY <1>1 DEF Lesser
      <3> QED BY <3>1, <3>2
    <2> QED BY <1>6, <2>1, TransmitLosesNothing DEF NothingIsLostYet
  <1>7. CASE PollCan
    <2>1. NothingIsLost
      BY <1>7 DEF PollCan, NothingIsLostYet
    <2> QED BY <1>7, <2>1, PollLosesNothing
  <1> QED BY <1>2, <1>3, <1>4, <1>5, <1>6, <1>7 DEF CanNext

LEMMA NothingIsEverLost == CanSpec => []NothingIsLostYet
  <1>1. CanInit => NothingIsLostYet
    <2> SUFFICES ASSUME CanInit PROVE NothingIsLost
      BY DEF NothingIsLostYet
    <2>1. /\ fragmenter = Idle /\ mailboxes = <<>> /\ fifo = <<>>
          /\ ~reassembly.active /\ sent = <<>> /\ delivered = <<>>
      BY DEF CanInit, NoReassembly
    <2>2. Len(<<>>) = 0 /\ SubSeq(<<>>, 1, 0) = <<>> /\ <<>> \o <<>> = <<>>
      OBVIOUS
    <2>3. Underway = <<>> /\ ExpectedFragment = 0 /\ NextFragmentOf = 0 /\ NextPacket = 0 + 1
      BY <2>1, <2>2 DEF Underway, ExpectedFragment, NextFragmentOf, NextPacket
    <2> DEFINE m == [i \in 0 .. 0 |-> 1]
               k == [i \in 0 .. 0 |-> 0]
    <2>4. m \in [0 .. 0 -> Nat] /\ k \in [0 .. 0 -> Nat] /\ m[0] = 1 /\ k[0] = 0
      OBVIOUS
    <2> HIDE DEF m, k
    <2>5. Path(<<>>, <<>>, m, k)
      BY <2>2 DEF Path
    <2>6. \E m2, k2 \in [0 .. Len(Underway) -> Nat] :
            /\ Path(Underway, sent, m2, k2)
            /\ m2[0] = Len(delivered) + 1 /\ k2[0] = ExpectedFragment
            /\ m2[Len(Underway)] = NextPacket /\ k2[Len(Underway)] = NextFragmentOf
      BY <2>1, <2>2, <2>3, <2>4, <2>5
    <2> QED BY <2>1, <2>2, <2>6 DEF NothingIsLost
  <1> QED BY <1>1, CanInvariant, StepLosesNothing, PTL DEF CanSpec

\* Over a bus without faults every packet arrives, in the order of the sending,
\* whatever the mailboxes and the FIFO hold of the next ones meanwhile.
THEOREM EveryPacketArrives == CanSpec => []DeliversAllWithoutFaults
  <1>1. CanInv /\ NothingIsLostYet => DeliversAllWithoutFaults
    <2> SUFFICES ASSUME CanInv, NothingIsLost, fragmenter = Idle, mailboxes = <<>>, fifo = <<>>
                 PROVE  delivered = sent
      BY DEF DeliversAllWithoutFaults, NothingIsLostYet
    <2>1. sent \in Seq(Packets) /\ delivered \in Seq(Packets)
      BY CanTypes DEF CanInv
    <2>2. Len(sent) \in Nat /\ Len(delivered) \in Nat
      BY <2>1, LenProperties
    <2>3. <<>> \o <<>> = <<>> /\ Len(<<>>) = 0
      OBVIOUS
    <2>4. Underway = <<>> /\ NextPacket = Len(sent) + 1
      BY <2>3 DEF Underway, NextPacket
    <2>5. Len(delivered) + 1 = Len(sent) + 1 /\ delivered = SubSeq(sent, 1, Len(delivered))
      BY <2>3, <2>4 DEF NothingIsLost
    <2>6. Len(delivered) = Len(sent)
      BY <2>2, <2>5
    <2> QED BY <2>1, <2>5, <2>6, SubSeqFull
  <1> QED BY <1>1, CanInvariant, NothingIsEverLost, PTL

\* And at no time before that has the device anything else than the first of the
\* packets sent, although their frames arrive interleaved with the sending.
THEOREM BusDeliversWhatWasSent == CanSpec => [](faults = 0 => DeliversWhatWasSent)
  <1>1. CanInv /\ NothingIsLostYet => (faults = 0 => DeliversWhatWasSent)
    <2> SUFFICES ASSUME CanInv, NothingIsLost
                 PROVE  DeliversWhatWasSent
      BY DEF NothingIsLostYet
    <2>1. sent \in Seq(Packets) /\ delivered \in Seq(Packets)
      BY CanTypes DEF CanInv
    <2> QED BY <2>1, BeginningWasSent DEF NothingIsLost
  <1> QED BY <1>1, CanInvariant, NothingIsEverLost, PTL

-----------------------------------------------------------------------------
(* A bus that loses and doubles frames. *)

IsFragment(f, p) == f.index < CountFor(Len(p)) /\ f = Fragments(p)[f.index + 1]

LastFrame(p) == Fragments(p)[CountFor(Len(p))]

\* The frames on their way are fragments of these packets, in their order, and those
\* of one packet in theirs.
Origins(w, of) ==
  /\ of \in [DOMAIN w -> DOMAIN sent]
  /\ \A j \in DOMAIN w : IsFragment(w[j], sent[of[j]])
  /\ \A i, j \in DOMAIN w :
       i < j => of[i] < of[j] \/ (of[i] = of[j] /\ w[i].index <= w[j].index)

\* What was delivered was sent before what is on its way, but for another copy of
\* its last frame.
NotYet(at, w, of) ==
  \A n \in DOMAIN delivered, j \in DOMAIN w :
    at[n] < of[j] \/ (at[n] = of[j] /\ w[j].end /\ ~reassembly.active)

\* The sender is in its last packet, beyond all frames of it on their way.
SenderAhead(at, w, of) ==
  fragmenter # Idle =>
    /\ Len(sent) >= 1 /\ fragmenter.packet = sent[Len(sent)]
    /\ \A j \in DOMAIN w : of[j] = Len(sent) => w[j].index < fragmenter.index
    /\ \A n \in DOMAIN delivered : at[n] < Len(sent)

\* The fragment with index i of this packet is in the reassembly r, and not its last.
AsIn(r, p, i) ==
  /\ OffsetOf(i + 1) < Len(p) /\ (i = 0 => r.expected = Len(p))
  /\ \A k \in Nat :
       OffsetOf(i) < k /\ k <= OffsetOf(i + 1) => k <= Len(r.packet) /\ r.packet[k] = p[k]

\* The fragments in the reassembly are those of these packets, which were sent after
\* what was delivered and not after what is on its way.
HeldFrom(at, w, of, from) ==
  reassembly.active =>
    /\ from \in [1 .. reassembly.next -> DOMAIN sent]
    /\ \A i \in 1 .. reassembly.next :
         /\ AsIn(reassembly, sent[from[i]], i - 1)
         /\ \A n \in DOMAIN delivered : at[n] < from[i]
         /\ \A j \in DOMAIN w : from[i] <= of[j]

FrameOrigins ==
  \E at, of, from :
    /\ Maps(at, delivered, sent) /\ Origins(Underway, of)
    /\ NotYet(at, Underway, of) /\ SenderAhead(at, Underway, of)
    /\ HeldFrom(at, Underway, of, from)

\* What the header of a fragment says.
LEMMA FragmentFacts ==
  ASSUME NEW p \in Packets, NEW f, f.index \in Nat, IsFragment(f, p)
  PROVE  /\ f \in Frames /\ f = Frame(p, OffsetOf(f.index), f.index)
         /\ f.end <=> f.index + 1 = CountFor(Len(p))
         /\ f.start <=> f.index = 0
         /\ f.end \in BOOLEAN /\ f.start \in BOOLEAN
         /\ f.end => f = LastFrame(p) /\ ~f.start
  <1> DEFINE i == f.index
  <1>1. i \in Nat /\ i < CountFor(Len(p)) /\ f = Fragments(p)[i + 1]
    BY DEF IsFragment
  <1>2. f = Frame(p, OffsetOf(i), i) /\ OffsetOf(i) \in 0 .. Len(p) - 1
    BY <1>1, FragmentsOf
  <1>3. f.start = (OffsetOf(i) = 0) /\ f.end \in BOOLEAN
        /\ (f.end <=> Len(p) <= OffsetOf(i) + Capacity(OffsetOf(i)))
    BY <1>2, FrameFacts
  <1>4. CountFor(Len(p)) \in Nat /\ CountFor(Len(p)) >= 2 /\ MaxFragments \in Nat
        /\ CountFor(Len(p)) <= MaxFragments /\ Len(p) \in Nat /\ FirstChunk < Len(p)
    BY CountOfPacket, CanPacketFacts
  <1>5. f \in Frames
    <2>1. i \in 0 .. MaxFragments - 1
      BY <1>1, <1>4
    <2> QED BY <1>2, <2>1 DEF Frames
  <1>6. OffsetOf(i) + Capacity(OffsetOf(i)) = OffsetOf(i + 1)
    BY <1>1, NextOffset
  <1>7. /\ i + 1 < CountFor(Len(p)) <=> OffsetOf(i + 1) < Len(p)
        /\ OffsetOf(i + 1) \in Nat
    <2> DEFINE j == i + 1
    <2>1. j \in Nat
      BY <1>1
    <2> HIDE DEF j
    <2>2. (j < CountFor(Len(p)) <=> OffsetOf(j) < Len(p)) /\ OffsetOf(j) \in Nat
      BY <1>4, <2>1, Offsets
    <2> QED BY <2>2 DEF j
  <1>8. OffsetOf(i) = 0 <=> i = 0
    <2> HIDE DEF i
    <2> QED BY <1>1, <1>4, Offsets
  <1>9. f.end <=> i + 1 = CountFor(Len(p))
    BY <1>1, <1>3, <1>4, <1>6, <1>7
  <1>10. f.end => f = LastFrame(p) /\ i # 0
    BY <1>1, <1>4, <1>9 DEF LastFrame
  <1> QED BY <1>2, <1>3, <1>5, <1>8, <1>9, <1>10

\* A frame with the data of the last fragment of a packet.
DataOf(data, q, off) ==
  \A k \in 1 .. Len(data) : data[k] = IF off + k <= Len(q) THEN q[off + k] ELSE 0

LEMMA LastByItsData ==
  ASSUME NEW q \in Packets, NEW i \in Nat, i + 1 = CountFor(Len(q)),
         NEW f \in Frames, ~f.start, f.end, f.index = i, Len(f.data) = Capacity(OffsetOf(i)),
         DataOf(f.data, q, OffsetOf(i))
  PROVE  f = LastFrame(q)
  <1> DEFINE n == Len(q)
             off == OffsetOf(i)
             g == Frame(q, off, i)
  <1>1. n \in Nat /\ FirstChunk < n /\ CountFor(n) \in Nat /\ CountFor(n) >= 2
    BY CanPacketFacts, CountOfPacket
  <1>2. i < CountFor(n) /\ i # 0
    BY <1>1
  <1>3. off \in 0 .. n - 1 /\ off # 0 /\ Fragments(q)[i + 1] = g
    BY <1>1, <1>2, FragmentsOf, Offsets
  <1>4. f.data \in Seq(Nat) /\ Len(f.data) = Capacity(off) /\ Capacity(off) \in Nat
    BY FramesFacts, CanConstants DEF Capacity
  <1>5. /\ g.start = (off = 0) /\ g.index = i /\ g.total = IF off = 0 THEN n ELSE 0
        /\ g.end \in BOOLEAN /\ (g.end <=> n <= off + Capacity(off))
        /\ g.data \in Seq(Nat) /\ Len(g.data) = Capacity(off)
        /\ \A k \in 1 .. Capacity(off) : g.data[k] = IF off + k <= n THEN q[off + k] ELSE 0
    <2>1. off \in 0 .. Len(q) - 1
      BY <1>3
    <2> HIDE DEF off
    <2> QED BY <2>1, FrameFacts
  <1>6. n <= off + Capacity(off)
    <2>1. off + Capacity(off) = OffsetOf(i + 1)
      BY NextOffset
    <2> DEFINE j == i + 1
    <2>2. j \in Nat /\ ~(j < CountFor(n))
      BY <1>1
    <2> HIDE DEF j
    <2>3. ~(OffsetOf(j) < n) /\ OffsetOf(j) \in Nat
      BY <1>1, <2>2, Offsets
    <2> QED BY <1>1, <2>1, <2>3 DEF j
  <1>7. \A k \in 1 .. Len(f.data) : f.data[k] = IF off + k <= n THEN q[off + k] ELSE 0
    BY DEF DataOf
  <1> HIDE DEF n, off, g
  <1>8. f.data = g.data
    <2>1. /\ f.data \in Seq(Nat) /\ g.data \in Seq(Nat) /\ Len(f.data) = Len(g.data)
          /\ \A k \in 1 .. Len(f.data) : f.data[k] = g.data[k]
      BY <1>4, <1>5, <1>7
    <2> QED BY ONLY <2>1, SeqEqual
  <1>9. PICK p \in Packets :
          f \in {Frame(p, a, b) : a \in 0 .. Len(p) - 1, b \in 0 .. MaxFragments - 1}
    BY DEF Frames
  <1>10. PICK a \in 0 .. Len(p) - 1, b \in 0 .. MaxFragments - 1 : f = Frame(p, a, b)
    BY <1>9
  <1>11. f.start = (a = 0) /\ f.total = (IF a = 0 THEN Len(p) ELSE 0) /\ f.end \in BOOLEAN
    BY <1>10, FrameFacts
  <1>12. f.start = g.start /\ f.end = g.end /\ f.index = g.index /\ f.total = g.total
    BY <1>3, <1>5, <1>6, <1>11
  <1>13. /\ f = [start |-> f.start, end |-> f.end, index |-> f.index, total |-> f.total,
                 data |-> f.data]
         /\ g = [start |-> g.start, end |-> g.end, index |-> g.index, total |-> g.total,
                 data |-> g.data]
    BY <1>10 DEF Frame, g
  <1>14. f = g
    BY ONLY <1>8, <1>12, <1>13
  <1> QED BY <1>3, <1>14 DEF LastFrame, n

\* What a packet has behind its other fragments, and zeros, is such data.
LEMMA RestIsData ==
  ASSUME NEW q, NEW front \in Seq(Nat), NEW data \in Seq(Nat), NEW room \in Nat,
         room <= Len(data), q = front \o SubSeq(data, 1, room),
         \A k \in room + 1 .. Len(data) : data[k] = 0
  PROVE  DataOf(data, q, Len(front))
  <1> DEFINE cut == SubSeq(data, 1, room)
             off == Len(front)
  <1>1. Len(data) \in Nat /\ off \in Nat
    BY LenProperties
  <1>2. cut \in Seq(Nat) /\ Len(cut) = room /\ \A m \in 1 .. room : cut[m] = data[m]
    BY <1>1, BeginningFacts
  <1>3. q = front \o cut
    OBVIOUS
  <1> HIDE DEF cut
  <1>4. /\ Len(front \o cut) = Len(front) + Len(cut)
        /\ \A m \in 1 .. Len(front) + Len(cut) :
             (front \o cut)[m] = IF m <= Len(front) THEN front[m] ELSE cut[m - Len(front)]
    BY <1>2, ConcatProperties
  <1>5. /\ Len(q) = off + room
        /\ \A m \in 1 .. off + room : q[m] = IF m <= off THEN front[m] ELSE cut[m - off]
    BY ONLY <1>2, <1>3, <1>4
  <1> HIDE DEF off
  <1>6. ASSUME NEW k \in 1 .. Len(data)
        PROVE  data[k] = IF off + k <= Len(q) THEN q[off + k] ELSE 0
    <2>1. CASE k <= room
      <3>1. /\ off + k \in 1 .. off + room /\ ~(off + k <= off) /\ (off + k) - off = k
            /\ off + k <= off + room /\ k \in 1 .. room
        BY <1>1, <2>1
      <3> QED BY <1>2, <1>5, <3>1
    <2>2. CASE ~(k <= room)
      <3>1. ~(off + k <= off + room) /\ k \in room + 1 .. Len(data)
        BY <1>1, <2>2
      <3> QED BY <1>5, <3>1
    <2> QED BY <2>1, <2>2
  <1> QED BY <1>6 DEF DataOf, off

\* The frame that completes a packet is the last one of that packet.
LEMMA LastFrameOfDelivered ==
  ASSUME CanTypeOK, AtFragments, NEW f \in Frames, FeedResult(f).result = "COMPLETE",
         NEW q \in Packets, q = FeedResult(f).state.packet
  PROVE  /\ f = LastFrame(q)
         /\ ~f.start /\ f.end /\ reassembly.active
         /\ FeedResult(f).state.active = FALSE
         /\ CountFor(Len(q)) = reassembly.next + 1 /\ reassembly.next \in Nat
         /\ reassembly.expected = Len(q) /\ Len(reassembly.packet) \in Nat
         /\ \A k \in 1 .. Len(reassembly.packet) : q[k] = reassembly.packet[k]
  <1> DEFINE o == Opened(f)
             r == Extended(o, f)
             res == FeedResult(f)
  <1>1. TakesFrame(f) /\ f.end /\ q = r.packet /\ res.state.active = FALSE
    <2>1. f.end \in BOOLEAN
      BY FramesFacts
    <2>2. /\ TakesFrame(f) /\ f.end => res.state.packet = r.packet /\ res.state.active = FALSE
          /\ TakesFrame(f) /\ ~f.end => res = [state |-> r, result |-> "NONE"]
          /\ ~TakesFrame(f) => res.result = "ERROR"
      BY FeedResultIs
    <2>3. res.result = "COMPLETE" /\ q = res.state.packet
      OBVIOUS
    <2> HIDE DEF res
    <2>4. TakesFrame(f) /\ f.end
      BY <2>1, <2>2, <2>3
    <2> QED BY <2>2, <2>3, <2>4
  <1>2. /\ o.active /\ FitsOrIsPadded(o, f) /\ o \in Reassemblies
        /\ Len(r.packet) = r.expected /\ WithinPacket(o, f)
    BY <1>1, OpenedFacts DEF TakesFrame
  <1>3. /\ r.expected = o.expected
        /\ r.packet = o.packet \o SubSeq(f.data, 1, Lesser(Len(f.data), Room(o)))
        /\ Len(r.packet) = Lesser(OffsetOf(o.next), o.expected)
    BY <1>2, ExtendedFacts
  <1>4. /\ Len(q) \in Nat /\ FirstChunk < Len(q) /\ FirstChunk \in Nat
        /\ CountFor(Len(q)) \in Nat /\ CountFor(Len(q)) >= 2
    BY CanPacketFacts, CountOfPacket, CanConstants
  <1>5. /\ o.next >= 1 /\ Len(o.packet) = OffsetOf(o.next - 1) /\ Len(o.packet) < o.expected
        /\ Len(f.data) = Capacity(OffsetOf(o.next - 1))
        /\ o.next \in Nat /\ o.packet \in Seq(Nat) /\ o.expected = Len(q)
    <2>1. o.next \in 0 .. MaxFragments /\ MaxFragments \in Nat /\ o.packet \in Seq(Nat)
      BY <1>2, CanTypes DEF Reassemblies
    <2> HIDE DEF r
    <2> QED BY <1>1, <1>2, <1>3, <2>1 DEF WithinPacket
  <1>6. PICK i \in Nat : i = o.next - 1 /\ i + 1 = o.next
    <2> DEFINE m == o.next
    <2>1. m \in Nat /\ m >= 1
      BY <1>5
    <2> HIDE DEF m
    <2>2. m - 1 \in Nat /\ (m - 1) + 1 = m
      BY <2>1
    <2> QED BY <2>2 DEF m
  <1> DEFINE next == o.next
  <1>7. next = i + 1 /\ next \in Nat
    BY <1>6
  <1>8. Len(q) = Lesser(OffsetOf(next), Len(q)) /\ OffsetOf(i) < Len(q)
        /\ Len(o.packet) = OffsetOf(i) /\ Len(f.data) = Capacity(OffsetOf(i))
    <2>1. Len(q) = Len(r.packet)
      BY <1>1
    <2> HIDE DEF o, r
    <2> QED BY <1>3, <1>5, <1>6, <2>1
  <1> HIDE DEF next
  <1>9. i + 1 = CountFor(Len(q))
    <2>1. /\ i < CountFor(Len(q)) <=> OffsetOf(i) < Len(q)
          /\ next < CountFor(Len(q)) <=> OffsetOf(next) < Len(q)
          /\ OffsetOf(next) \in Nat
      BY <1>4, <1>7, Offsets
    <2>2. ~(OffsetOf(next) < Len(q))
      BY <1>4, <1>8, <2>1 DEF Lesser
    <2> QED BY <1>4, <1>7, <1>8, <2>1, <2>2
  <1>10. ~f.start
    <2>1. ASSUME f.start
          PROVE  FALSE
      <3>1. o.next = 1
        BY <1>2, <2>1 DEF Opened, IsStart
      <3> QED BY <1>4, <1>6, <1>9, <3>1
    <2> QED BY <2>1
  <1>11. /\ reassembly.active /\ f.index = i /\ reassembly.next = i
         /\ o.expected = reassembly.expected /\ o.packet = reassembly.packet
    <2>1. reassembly \in Reassemblies /\ MaxFragments \in Nat
      BY CanTypes
    <2>2. [reassembly EXCEPT !.active = FALSE].active = FALSE
      BY <2>1 DEF Reassemblies
    <2>3. reassembly.active /\ f.index = reassembly.next
          /\ o = [reassembly EXCEPT !.next = @ + 1]
      BY <1>2, <1>10, <2>2 DEF Opened, IsStart
    <2>4. /\ o.next = reassembly.next + 1 /\ reassembly.next \in Nat
          /\ o.expected = reassembly.expected /\ o.packet = reassembly.packet
      BY <2>1, <2>3 DEF Reassemblies
    <2> HIDE DEF o
    <2> QED BY <1>6, <2>3, <2>4
  <1>12. DataOf(f.data, q, OffsetOf(i))
    <2> DEFINE room == Room(o)
               size == Len(f.data)
    <2>1. room = Len(q) - OffsetOf(i)
      <3> HIDE DEF o
      <3> QED BY <1>5, <1>8 DEF Room
    <2>2. q = o.packet \o SubSeq(f.data, 1, Lesser(size, room))
      BY <1>1, <1>3
    <2>3. f.data \in Seq(Nat) /\ size \in Nat /\ OffsetOf(i) \in Nat
      BY <1>4, FramesFacts, Offsets, LenProperties
    <2>4. size > room => \A k \in room + 1 .. size : f.data[k] = 0
      BY <1>2 DEF FitsOrIsPadded, Padding
    <2>5. Len(q) <= OffsetOf(i) + size
      <3>1. OffsetOf(i) + Capacity(OffsetOf(i)) = OffsetOf(i + 1)
        BY NextOffset
      <3>2. OffsetOf(next) \in Nat
        BY <1>4, <1>7, Offsets
      <3>3. Len(q) <= OffsetOf(next)
        BY <1>4, <1>8, <3>2 DEF Lesser
      <3> QED BY <1>7, <1>8, <3>1, <3>3
    <2> HIDE DEF room, size
    <2> DEFINE off == OffsetOf(i)
    <2> HIDE DEF off
    <2>10. room = Len(q) - off /\ off \in Nat /\ size \in Nat /\ off < Len(q) /\ Len(q) <= off + size
      BY <1>8, <2>1, <2>3, <2>5 DEF off
    <2>6. room \in Nat /\ room <= size /\ Lesser(size, room) = room
      BY <1>4, <2>10 DEF Lesser
    <2>7. \A k \in room + 1 .. size : f.data[k] = 0
      BY <2>3, <2>4, <2>6
    <2> HIDE DEF o
    <2>8. /\ o.packet \in Seq(Nat) /\ f.data \in Seq(Nat) /\ room \in Nat
          /\ room <= Len(f.data) /\ q = o.packet \o SubSeq(f.data, 1, room)
          /\ \A k \in room + 1 .. Len(f.data) : f.data[k] = 0
      BY <1>5, <2>2, <2>3, <2>6, <2>7 DEF size
    <2>9. DataOf(f.data, q, Len(o.packet))
      BY ONLY <2>8, RestIsData
    <2> QED BY <1>8, <2>9
  <1> HIDE DEF o
  <1>13. f = LastFrame(q)
    BY <1>1, <1>8, <1>9, <1>10, <1>11, <1>12, LastByItsData
  <1>14. \A k \in 1 .. Len(o.packet) : q[k] = o.packet[k]
    <2> DEFINE cut == SubSeq(f.data, 1, Lesser(Len(f.data), Room(o)))
    <2>1. q = o.packet \o cut
      BY <1>1, <1>3
    <2>2. o.packet \in Seq(Nat) /\ f.data \in Seq(Nat) /\ Len(o.packet) <= o.expected
          /\ o.expected \in Nat
      BY <1>4, <1>5, <1>8, FramesFacts, LenProperties
    <2>3. cut \in Seq(Nat)
      BY <2>2, CutOfBoth DEF Room
    <2> HIDE DEF cut, o
    <2>4. \A k \in 1 .. Len(o.packet) + Len(cut) :
            (o.packet \o cut)[k] = IF k <= Len(o.packet) THEN o.packet[k] ELSE cut[k - Len(o.packet)]
      BY <2>2, <2>3, ConcatProperties
    <2>5. Len(o.packet) \in Nat /\ Len(cut) \in Nat
      BY <2>2, <2>3, LenProperties
    <2> QED BY <2>1, <2>4, <2>5
  <1>15. Len(o.packet) \in Nat
    BY <1>5, LenProperties
  <1> QED BY <1>1, <1>5, <1>9, <1>10, <1>11, <1>13, <1>14, <1>15

\* Two packets with the same data in one place have the same fragment there.
LEMMA FragmentByItsData ==
  ASSUME NEW p \in Packets, NEW q \in Packets, NEW i \in Nat,
         OffsetOf(i + 1) < Len(p), OffsetOf(i + 1) < Len(q), i = 0 => Len(p) = Len(q),
         \A k \in Nat : OffsetOf(i) < k /\ k <= OffsetOf(i + 1) => p[k] = q[k]
  PROVE  i + 1 <= CountFor(Len(p)) /\ Fragments(p)[i + 1] = Fragments(q)[i + 1]
  <1> DEFINE off == OffsetOf(i)
             c == Capacity(off)
             g == Frame(p, off, i)
             h == Frame(q, off, i)
             m == Len(p)
             n == Len(q)
             after == off + c
  <1>1. /\ c \in Nat /\ c >= 1 /\ off \in Nat /\ after = OffsetOf(i + 1) /\ after \in Nat
    <2>1. c \in Nat /\ c >= 1 /\ off \in Nat /\ OffsetOf(i + 1) = off + c
      BY NextOffset
    <2> HIDE DEF c, off
    <2> QED BY <2>1
  <1>2. /\ m \in Nat /\ FirstChunk < m /\ n \in Nat /\ FirstChunk < n
        /\ CountFor(m) \in Nat /\ CountFor(n) \in Nat
    BY CanPacketFacts, CountOfPacket
  <1>3. (off = 0 <=> i = 0) /\ after < m /\ after < n
    BY <1>1, <1>2, Offsets
  <1>4. \A k \in Nat : off < k /\ k <= after => p[k] = q[k]
    BY <1>1
  <1>5. i < CountFor(m) /\ i < CountFor(n)
    <2>1. off < m /\ off < n
      <3> HIDE DEF off, c, m, n
      <3> QED BY <1>1, <1>2, <1>3 DEF after
    <2> QED BY <1>2, <2>1, Offsets
  <1>6. Fragments(p)[i + 1] = g /\ Fragments(q)[i + 1] = h /\ off \in 0 .. m - 1 /\ off \in 0 .. n - 1
    BY <1>5, FragmentsOf
  <1>7. /\ g.start = (off = 0) /\ g.index = i /\ g.total = IF off = 0 THEN m ELSE 0
        /\ g.end \in BOOLEAN /\ (g.end <=> m <= off + c)
        /\ g.data \in Seq(Nat) /\ Len(g.data) = c
        /\ \A k \in 1 .. c : g.data[k] = IF off + k <= m THEN p[off + k] ELSE 0
    <2>1. off \in 0 .. Len(p) - 1
      BY <1>6
    <2> HIDE DEF off
    <2> QED BY <2>1, FrameFacts
  <1>8. /\ h.start = (off = 0) /\ h.index = i /\ h.total = IF off = 0 THEN n ELSE 0
        /\ h.end \in BOOLEAN /\ (h.end <=> n <= off + c)
        /\ h.data \in Seq(Nat) /\ Len(h.data) = c
        /\ \A k \in 1 .. c : h.data[k] = IF off + k <= n THEN q[off + k] ELSE 0
    <2>1. off \in 0 .. Len(q) - 1
      BY <1>6
    <2> HIDE DEF off
    <2> QED BY <2>1, FrameFacts
  <1>9. /\ g = [start |-> g.start, end |-> g.end, index |-> g.index, total |-> g.total,
                data |-> g.data]
        /\ h = [start |-> h.start, end |-> h.end, index |-> h.index, total |-> h.total,
                data |-> h.data]
    BY DEF Frame
  <1>10. i = 0 => m = n
    OBVIOUS
  <1> HIDE DEF off, c, g, h, m, n
  <1>11. \A k \in 1 .. c : g.data[k] = h.data[k]
    <2> SUFFICES ASSUME NEW k \in 1 .. c
                 PROVE  g.data[k] = h.data[k]
      OBVIOUS
    <2>1. off + k \in Nat /\ off < off + k /\ off + k <= after /\ off + k <= m /\ off + k <= n
      BY <1>1, <1>2, <1>3 DEF after
    <2> QED BY <1>4, <1>7, <1>8, <2>1
  <1>12. g.data = h.data
    BY <1>7, <1>8, <1>11, SeqEqual
  <1>13. ~g.end /\ ~h.end
    BY <1>1, <1>2, <1>3, <1>7, <1>8 DEF after
  <1>14. g.start = h.start /\ g.end = h.end /\ g.index = h.index /\ g.total = h.total
    BY <1>3, <1>7, <1>8, <1>10, <1>13
  <1>15. g = h
    BY ONLY <1>9, <1>12, <1>14
  <1> QED BY <1>2, <1>5, <1>6, <1>15 DEF m

\* q has the data of the n fragments in the reassembly, and the last fragment of p.
MadeOf(q, p, n, from) ==
  /\ CountFor(Len(q)) = n + 1 /\ reassembly.expected = Len(q) /\ Len(reassembly.packet) \in Nat
  /\ \A k \in 1 .. Len(reassembly.packet) : q[k] = reassembly.packet[k]
  /\ IsFragment(LastFrame(q), p) /\ LastFrame(q).index = n
  /\ \A i \in 1 .. n : sent[from[i]] \in Packets /\ AsIn(reassembly, sent[from[i]], i - 1)

\* Such a packet is one of those its fragments are from.
LEMMA DeliveredIsOneOf ==
  ASSUME MixturesTell, NEW q \in Packets, NEW p \in Packets, NEW n \in Nat, NEW from,
         MadeOf(q, p, n, from)
  PROVE  q = p \/ \E i \in 1 .. n : q = sent[from[i]]
  <1> DEFINE count == CountFor(Len(q))
             of == [k \in 1 .. count |-> IF k = n + 1 THEN p ELSE sent[from[k]]]
  <1>9. /\ reassembly.expected = Len(q) /\ Len(reassembly.packet) \in Nat
        /\ \A k \in 1 .. Len(reassembly.packet) : q[k] = reassembly.packet[k]
        /\ \A i \in 1 .. n : sent[from[i]] \in Packets /\ AsIn(reassembly, sent[from[i]], i - 1)
    BY DEF MadeOf
  <1>1. count = n + 1 /\ Len(q) \in Nat /\ FirstChunk < Len(q)
    BY CanPacketFacts DEF MadeOf
  <1>2. \A k \in 1 .. count : k = n + 1 \/ k \in 1 .. n
    BY <1>1
  <1>3. of \in [1 .. count -> Packets]
    BY <1>2, <1>9
  <1>4. \A k \in 1 .. count : of[k] = IF k = n + 1 THEN p ELSE sent[from[k]]
    OBVIOUS
  <1> HIDE DEF of
  <1>5. ASSUME NEW k \in 1 .. count
        PROVE  k <= CountFor(Len(of[k])) /\ Fragments(of[k])[k] = Fragments(q)[k]
    <2>1. CASE k = n + 1
      <3>1. n < CountFor(Len(p)) /\ LastFrame(q) = Fragments(p)[n + 1]
        BY DEF IsFragment, MadeOf
      <3>2. LastFrame(q) = Fragments(q)[n + 1]
        BY <1>1 DEF LastFrame
      <3>3. CountFor(Len(p)) \in Nat
        BY CountOfPacket
      <3>4. of[k] = p
        BY <1>4, <2>1
      <3> HIDE DEF count
      <3>5. k <= CountFor(Len(p))
        BY <2>1, <3>1, <3>3
      <3> QED BY <2>1, <3>1, <3>2, <3>4, <3>5
    <2>2. CASE k # n + 1
      <3> DEFINE s == sent[from[k]]
                 i == k - 1
      <3>1. k \in 1 .. n /\ i \in Nat /\ i + 1 = k /\ k < count /\ k \in Nat
        BY <1>1, <2>2
      <3>2. of[k] = s /\ s \in Packets /\ AsIn(reassembly, s, i)
        BY <1>4, <1>9, <2>2, <3>1
      <3> HIDE DEF s, i
      <3>3. OffsetOf(k) < Len(q) /\ OffsetOf(k) \in Nat /\ OffsetOf(i) \in Nat
        BY <1>1, <3>1, Offsets
      <3>4. /\ OffsetOf(i + 1) < Len(s) /\ (i = 0 => Len(q) = Len(s))
            /\ \A j \in Nat : OffsetOf(i) < j /\ j <= OffsetOf(i + 1) =>
                 j <= Len(reassembly.packet) /\ reassembly.packet[j] = s[j]
        BY <1>9, <3>2 DEF AsIn
      <3>5. \A j \in Nat : OffsetOf(i) < j /\ j <= OffsetOf(i + 1) => s[j] = q[j]
        <4> SUFFICES ASSUME NEW j \in Nat, OffsetOf(i) < j, j <= OffsetOf(i + 1)
                     PROVE  s[j] = q[j]
          OBVIOUS
        <4>1. j \in 1 .. Len(reassembly.packet)
          BY <1>9, <3>3, <3>4
        <4> QED BY <1>9, <3>4, <4>1
      <3>6. i + 1 <= CountFor(Len(s)) /\ Fragments(s)[i + 1] = Fragments(q)[i + 1]
        BY <3>1, <3>2, <3>3, <3>4, <3>5, FragmentByItsData
      <3> QED BY <3>1, <3>2, <3>6
    <2> QED BY <2>1, <2>2
  <1>6. DOMAIN of = 1 .. count
    BY <1>3
  <1>7. q \in {of[k] : k \in DOMAIN of}
    BY <1>3, <1>5, <1>6 DEF MixturesTell
  <1>8. PICK k \in 1 .. count : q = of[k]
    BY <1>6, <1>7
  <1> QED BY <1>2, <1>4, <1>8

\* What a frame that is not the last of its packet adds to the reassembly.
LEMMA TakenFragment ==
  ASSUME CanTypeOK, AtFragments, NEW p \in Packets, NEW f, f.index \in Nat, IsFragment(f, p),
         FeedResult(f).state.active
  PROVE  LET r == FeedResult(f).state IN
         /\ r.next = f.index + 1 /\ AsIn(r, p, f.index)
         /\ f.index # 0 =>
              /\ reassembly.active /\ reassembly.next = f.index
              /\ r.expected = reassembly.expected /\ Len(reassembly.packet) \in Nat
              /\ \A k \in 1 .. Len(reassembly.packet) :
                   k <= Len(r.packet) /\ r.packet[k] = reassembly.packet[k]
  <1> DEFINE o == Opened(f)
             r == Extended(o, f)
             i == f.index
             off == OffsetOf(i)
             next == i + 1
             cut == SubSeq(f.data, 1, Lesser(Len(f.data), Room(o)))
  <1>1. /\ f \in Frames /\ f = Frame(p, off, i) /\ (f.start <=> i = 0)
        /\ f.end \in BOOLEAN /\ f.start \in BOOLEAN /\ (f.end <=> i + 1 = CountFor(Len(p)))
    BY FragmentFacts
  <1>2. TakesFrame(f) /\ ~f.end /\ FeedResult(f).state = r
    <2> DEFINE res == FeedResult(f)
    <2>1. /\ TakesFrame(f) /\ f.end => res.state.active = FALSE
          /\ TakesFrame(f) /\ ~f.end => res = [state |-> r, result |-> "NONE"]
          /\ ~TakesFrame(f) => res.state.active = FALSE
      BY <1>1, FeedResultIs
    <2>2. res.state.active
      OBVIOUS
    <2> HIDE DEF res, r
    <2> QED BY <1>1, <2>1, <2>2 DEF res
  <1>3. /\ o.active /\ o \in Reassemblies /\ WithinPacket(o, f)
        /\ Len(r.packet) # r.expected
    BY <1>1, <1>2, OpenedFacts DEF TakesFrame
  <1>4. /\ r.packet = o.packet \o cut /\ r.packet \in Seq(Nat)
        /\ Len(r.packet) = Lesser(OffsetOf(o.next), o.expected)
        /\ r.expected = o.expected /\ r.next = o.next
    BY <1>1, <1>3, ExtendedFacts
  <1>5. /\ Len(p) \in Nat /\ FirstChunk < Len(p) /\ i \in Nat
        /\ CountFor(Len(p)) \in Nat /\ i < CountFor(Len(p)) /\ p \in Seq(Nat)
    BY CanPacketFacts, CountOfPacket DEF IsFragment
  <1>6. /\ Capacity(off) \in Nat /\ Capacity(off) >= 1 /\ off \in Nat
        /\ OffsetOf(next) = off + Capacity(off)
    BY <1>5, NextOffset
  <1>7. /\ off = 0 <=> i = 0
        /\ next < CountFor(Len(p)) <=> OffsetOf(next) < Len(p)
        /\ next \in Nat /\ OffsetOf(next) \in Nat /\ off < Len(p)
    <2>1. next \in Nat
      BY <1>5
    <2>2. (off = 0 <=> i = 0) /\ (i < CountFor(Len(p)) <=> off < Len(p))
      <3> HIDE DEF i
      <3> QED BY <1>5, Offsets
    <2> HIDE DEF next
    <2>3. (next < CountFor(Len(p)) <=> OffsetOf(next) < Len(p)) /\ OffsetOf(next) \in Nat
      BY <1>5, <2>1, Offsets
    <2> QED BY <1>5, <2>1, <2>2, <2>3
  <1>8. OffsetOf(next) < Len(p)
    <2>1. next < CountFor(Len(p))
      BY <1>1, <1>2, <1>5
    <2> QED BY <1>7, <2>1
  <1>9. off \in 0 .. Len(p) - 1
    BY <1>6, <1>7, <1>5
  <1>10. /\ f.total = IF off = 0 THEN Len(p) ELSE 0
         /\ f.data \in Seq(Nat) /\ Len(f.data) = Capacity(off)
         /\ \A k \in 1 .. Capacity(off) : f.data[k] = IF off + k <= Len(p) THEN p[off + k] ELSE 0
    <2> HIDE DEF off, i
    <2> QED BY <1>1, <1>9, FrameFacts
  \* Where the fragment begins, in the packet and in the reassembly.
  <1>11. /\ o.next = next /\ Len(o.packet) = off /\ o.packet \in Seq(Nat)
         /\ i = 0 => o.expected = Len(p)
         /\ i # 0 => /\ reassembly.active /\ reassembly.next = i
                     /\ o.packet = reassembly.packet /\ o.expected = reassembly.expected
         /\ o.expected \in Nat
    <2>1. o.packet \in Seq(Nat) /\ o.expected \in Nat /\ Len(o.packet) = OffsetOf(o.next - 1)
      BY <1>3, CanTypes DEF Reassemblies, WithinPacket
    <2>2. CASE f.start
      <3>1. i = 0 /\ off = 0 /\ f.total = Len(p) /\ next = 1
        BY <1>1, <1>7, <1>10, <2>2
      <3>2. f.total \in MinLength .. MaxLength
        BY <3>1, CanPacketFacts
      <3>3. o = [active |-> TRUE, expected |-> f.total, next |-> 1, packet |-> <<>>]
        BY <2>2, <3>1, <3>2 DEF Opened, IsStart
      <3>4. o.expected = f.total /\ o.next = 1 /\ o.packet = <<>>
        BY <3>3
      <3> HIDE DEF o, off, i, next
      <3> QED BY <2>1, <3>1, <3>4
    <2>3. CASE ~f.start
      <3>1. reassembly \in Reassemblies /\ MaxFragments \in Nat
        BY CanTypes
      <3>2. [reassembly EXCEPT !.active = FALSE].active = FALSE
        BY <3>1 DEF Reassemblies
      <3>3. reassembly.active /\ i = reassembly.next /\ o = [reassembly EXCEPT !.next = @ + 1]
        BY <1>3, <2>3, <3>2 DEF Opened, IsStart
      <3>4. o.next = reassembly.next + 1 /\ o.packet = reassembly.packet
            /\ o.expected = reassembly.expected
        BY <3>1, <3>3 DEF Reassemblies
      <3>5. Len(reassembly.packet) = OffsetOf(reassembly.next)
        BY <3>3 DEF AtFragments
      <3> HIDE DEF o, off, i
      <3> QED BY <1>1, <2>1, <2>3, <3>3, <3>4, <3>5 DEF off
    <2> QED BY <1>1, <2>2, <2>3
  <1> HIDE DEF o, r
  <1>12. OffsetOf(next) < o.expected /\ Len(r.packet) = OffsetOf(next)
    <2>1. Len(r.packet) = Lesser(OffsetOf(next), o.expected) /\ Len(r.packet) # o.expected
      BY <1>3, <1>4, <1>11
    <2> DEFINE a == OffsetOf(next)
    <2>2. a \in Nat /\ o.expected \in Nat
      BY <1>7, <1>11
    <2> HIDE DEF a
    <2>3. a < o.expected /\ Len(r.packet) = a
      BY <2>1, <2>2 DEF Lesser, a
    <2> QED BY <2>3 DEF a
  <1>13. cut = f.data
    <2>1. Room(o) = o.expected - off /\ Len(f.data) = Capacity(off)
      BY <1>10, <1>11 DEF Room
    <2> HIDE DEF off
    <2>2. Lesser(Len(f.data), Room(o)) = Len(f.data)
      BY <1>6, <1>11, <1>12, <2>1 DEF Lesser
    <2>3. SubSeq(f.data, 1, Len(f.data)) = f.data
      BY <1>10, SubSeqFull
    <2> QED BY <2>2, <2>3
  <1> HIDE DEF cut
  <1>14. /\ \A k \in 1 .. off + Capacity(off) :
              r.packet[k] = IF k <= off THEN o.packet[k] ELSE f.data[k - off]
         /\ Len(r.packet) = off + Capacity(off)
    <2>1. \A k \in 1 .. Len(o.packet) + Len(f.data) :
            (o.packet \o f.data)[k]
              = IF k <= Len(o.packet) THEN o.packet[k] ELSE f.data[k - Len(o.packet)]
      <3>1. o.packet \in Seq(Nat) /\ f.data \in Seq(Nat)
        BY <1>10, <1>11
      <3> QED BY ONLY <3>1, ConcatProperties
    <2>2. r.packet = o.packet \o f.data
      BY <1>4, <1>13
    <2>3. Len(o.packet) = off /\ Len(f.data) = Capacity(off)
      BY <1>10, <1>11
    <2> HIDE DEF off
    <2> QED BY <1>6, <1>12, <2>1, <2>2, <2>3
  <1>15. ASSUME NEW k \in Nat, off < k, k <= OffsetOf(next)
         PROVE  k <= Len(r.packet) /\ r.packet[k] = p[k]
    <2> DEFINE j == k - off
    <2>1. j \in 1 .. Capacity(off) /\ off + j = k /\ ~(k <= off) /\ off + j <= Len(p)
          /\ k \in 1 .. off + Capacity(off)
      <3> DEFINE c == Capacity(off)
                 after == OffsetOf(next)
      <3>1. /\ c \in Nat /\ off \in Nat /\ after = off + c /\ after < Len(p) /\ Len(p) \in Nat
            /\ k \in Nat /\ off < k /\ k <= after
        BY <1>5, <1>6, <1>8, <1>15
      <3> HIDE DEF off, next, c, after
      <3>2. j \in 1 .. c /\ off + j = k /\ ~(k <= off) /\ off + j <= Len(p) /\ k \in 1 .. off + c
        BY ONLY <3>1 DEF j
      <3> QED BY <3>2 DEF c
    <2>2. r.packet[k] = f.data[j]
      BY <1>14, <2>1
    <2>3. f.data[j] = p[off + j]
      BY <1>10, <2>1
    <2> HIDE DEF j, off, next
    <2> QED BY <1>12, <1>15, <2>1, <2>2, <2>3
  <1>16. AsIn(r, p, i)
    <2>1. i = 0 => r.expected = Len(p)
      BY <1>4, <1>11
    <2> QED BY <1>8, <1>15, <2>1 DEF AsIn
  <1>17. i # 0 =>
           /\ Len(reassembly.packet) = off
           /\ \A k \in 1 .. off : k <= Len(r.packet) /\ r.packet[k] = reassembly.packet[k]
    <2> SUFFICES ASSUME i # 0, NEW k \in 1 .. off
                 PROVE  k <= Len(r.packet) /\ r.packet[k] = reassembly.packet[k]
      BY <1>11
    <2>1. k \in 1 .. off + Capacity(off) /\ k <= off
      <3> HIDE DEF off
      <3> QED BY <1>6
    <2>2. o.packet = reassembly.packet
      BY <1>11
    <2> HIDE DEF off
    <2> QED BY <1>6, <1>14, <2>1, <2>2
  <1>18. r.next = next /\ r.expected = o.expected
    BY <1>4, <1>11
  <1> HIDE DEF off
  <1> QED BY <1>2, <1>6, <1>11, <1>16, <1>17, <1>18

\* v is w without some elements, and with others repeated where they are.
Kept(w, v) ==
  \E g \in [DOMAIN v -> DOMAIN w] :
    /\ \A j \in DOMAIN v : v[j] = w[g[j]]
    /\ \A i, j \in DOMAIN v : i < j => g[i] <= g[j]

LEMMA KeptOrigins ==
  ASSUME NEW w \in Seq(Frames), NEW v, Kept(w, v), NEW at, NEW of, NEW from,
         Origins(w, of), NotYet(at, w, of), SenderAhead(at, w, of), HeldFrom(at, w, of, from)
  PROVE  \E of2 : /\ Origins(v, of2) /\ NotYet(at, v, of2) /\ SenderAhead(at, v, of2)
                  /\ HeldFrom(at, v, of2, from)
  <1>1. PICK g \in [DOMAIN v -> DOMAIN w] :
          /\ \A j \in DOMAIN v : v[j] = w[g[j]]
          /\ \A i, j \in DOMAIN v : i < j => g[i] <= g[j]
    BY DEF Kept
  <1>2. DOMAIN w = 1 .. Len(w) /\ Len(w) \in Nat /\ \A j \in DOMAIN w : w[j].index \in Nat
    <2>1. \A j \in DOMAIN w : w[j] \in Frames
      BY ElementOfSeq, LenProperties
    <2>2. MaxFragments \in Nat
      BY CanConstants, Offsets DEF MaxFragments
    <2> QED BY <2>1, <2>2, FramesFacts, LenProperties
  <1> DEFINE of2 == [j \in DOMAIN v |-> of[g[j]]]
  <1>3. \A j \in DOMAIN v : g[j] \in DOMAIN w /\ of2[j] = of[g[j]]
    BY <1>1
  <1>4. of2 \in [DOMAIN v -> DOMAIN sent]
    BY <1>3 DEF Origins
  <1> HIDE DEF of2
  <1>5. \A j \in DOMAIN v : IsFragment(v[j], sent[of2[j]])
    BY <1>1, <1>3 DEF Origins
  <1>6. ASSUME NEW i \in DOMAIN v, NEW j \in DOMAIN v, i < j
        PROVE  of2[i] < of2[j] \/ (of2[i] = of2[j] /\ v[i].index <= v[j].index)
    <2>1. g[i] \in DOMAIN w /\ g[j] \in DOMAIN w /\ g[i] <= g[j] /\ v[i] = w[g[i]] /\ v[j] = w[g[j]]
      BY <1>1, <1>3, <1>6
    <2>2. CASE g[i] = g[j]
      BY <1>2, <1>3, <2>1, <2>2
    <2>3. CASE g[i] < g[j]
      BY <1>3, <2>1, <2>3 DEF Origins
    <2> QED BY <1>2, <2>1, <2>2, <2>3
  <1>7. Origins(v, of2)
    BY <1>4, <1>5, <1>6 DEF Origins
  <1>8. NotYet(at, v, of2)
    BY <1>1, <1>3 DEF NotYet
  <1>9. SenderAhead(at, v, of2)
    BY <1>1, <1>3 DEF SenderAhead
  <1>10. HeldFrom(at, v, of2, from)
    BY <1>3 DEF HeldFrom
  <1> QED BY <1>7, <1>8, <1>9, <1>10

LEMMA NothingElseKept ==
  ASSUME CanInv, FrameOrigins, Kept(Underway, Underway'),
         UNCHANGED <<sent, delivered, reassembly>>, fragmenter' \in {fragmenter, Idle}
  PROVE  FrameOrigins'
  <1>1. Underway \in Seq(Frames)
    BY UnderwayFacts DEF CanInv
  <1>2. PICK at, of, from : /\ Maps(at, delivered, sent) /\ Origins(Underway, of)
                            /\ NotYet(at, Underway, of) /\ SenderAhead(at, Underway, of)
                            /\ HeldFrom(at, Underway, of, from)
    BY DEF FrameOrigins
  <1>3. PICK of2 : /\ Origins(Underway', of2) /\ NotYet(at, Underway', of2)
                   /\ SenderAhead(at, Underway', of2) /\ HeldFrom(at, Underway', of2, from)
    BY <1>1, <1>2, KeptOrigins
  <1>4. Maps(at, delivered', sent')
    BY <1>2
  <1> DEFINE v == Underway'
  <1>5. /\ Origins(v, of2) /\ NotYet(at, v, of2) /\ SenderAhead(at, v, of2)
        /\ HeldFrom(at, v, of2, from)
    BY <1>3
  <1> HIDE DEF v
  <1>6. /\ (of2 \in [DOMAIN v -> DOMAIN sent'])
        /\ \A j \in DOMAIN v : IsFragment(v[j], sent'[of2[j]])
        /\ \A i, j \in DOMAIN v :
             i < j => of2[i] < of2[j] \/ (of2[i] = of2[j] /\ v[i].index <= v[j].index)
        /\ \A n \in DOMAIN delivered', j \in DOMAIN v :
             at[n] < of2[j] \/ (at[n] = of2[j] /\ v[j].end /\ ~reassembly'.active)
        /\ fragmenter' # Idle =>
             /\ Len(sent') >= 1 /\ fragmenter'.packet = sent'[Len(sent')]
             /\ \A j \in DOMAIN v : of2[j] = Len(sent') => v[j].index < fragmenter'.index
             /\ \A n \in DOMAIN delivered' : at[n] < Len(sent')
    BY <1>5 DEF Origins, NotYet, SenderAhead
  <1>7. Origins(Underway, of2)' /\ NotYet(at, Underway, of2)' /\ SenderAhead(at, Underway, of2)'
    BY <1>6 DEF Origins, NotYet, SenderAhead, v, IsFragment
  <1>8. reassembly'.active =>
          /\ from \in [1 .. reassembly'.next -> DOMAIN sent']
          /\ \A i \in 1 .. reassembly'.next :
               /\ AsIn(reassembly', sent'[from[i]], i - 1)
               /\ \A n \in DOMAIN delivered' : at[n] < from[i]
               /\ \A j \in DOMAIN v : from[i] <= of2[j]
    BY <1>5 DEF HeldFrom
  <1>9. HeldFrom(at, Underway, of2, from)'
    BY <1>8 DEF HeldFrom, AsIn, v
  <1> QED BY <1>4, <1>7, <1>9 DEF FrameOrigins

\* Two sequences one behind the other.
LEMMA BothFacts ==
  ASSUME NEW S, NEW a \in Seq(S), NEW b \in Seq(S)
  PROVE  /\ a \o b \in Seq(S) /\ Len(a) \in Nat /\ Len(b) \in Nat
         /\ Len(a \o b) = Len(a) + Len(b) /\ DOMAIN (a \o b) = 1 .. Len(a) + Len(b)
         /\ \A j \in 1 .. Len(a) + Len(b) :
              (a \o b)[j] = IF j <= Len(a) THEN a[j] ELSE b[j - Len(a)]
  BY ConcatProperties, LenProperties

LEMMA TailFacts ==
  ASSUME NEW S, NEW b \in Seq(S), b # <<>>
  PROVE  /\ Tail(b) \in Seq(S) /\ Len(b) \in Nat /\ Len(b) >= 1 /\ Len(Tail(b)) = Len(b) - 1
         /\ Head(b) = b[1] /\ Head(b) \in S
         /\ \A j \in 1 .. Len(b) - 1 : Tail(b)[j] = b[j + 1]
  <1>1. Len(b) \in Nat /\ Len(b) # 0
    BY LenProperties, EmptySeq
  <1> QED BY <1>1, HeadTailProperties, ElementOfSeq

LEMMA SameIsKept ==
  ASSUME NEW w \in Seq(Frames)
  PROVE  Kept(w, w)
  <1> DEFINE g == [j \in DOMAIN w |-> j]
  <1>1. DOMAIN w = 1 .. Len(w) /\ Len(w) \in Nat
    BY LenProperties
  <1>2. g \in [DOMAIN w -> DOMAIN w] /\ \A j \in DOMAIN w : g[j] = j
    OBVIOUS
  <1>3. \A i, j \in DOMAIN w : i < j => g[i] <= g[j]
    BY <1>1, <1>2
  <1> HIDE DEF g
  <1> QED BY <1>2, <1>3 DEF Kept

LEMMA LostIsKept ==
  ASSUME NEW a \in Seq(Frames), NEW b \in Seq(Frames), b # <<>>
  PROVE  Kept(a \o b, a \o Tail(b))
  <1> DEFINE w == a \o b
             v == a \o Tail(b)
             t == Tail(b)
             m == Len(a)
             n == Len(b)
  <1>1. /\ t \in Seq(Frames) /\ Len(t) = n - 1 /\ n \in Nat /\ n >= 1 /\ m \in Nat
        /\ \A j \in 1 .. n - 1 : t[j] = b[j + 1]
    BY TailFacts, LenProperties
  <1>2. /\ DOMAIN w = 1 .. m + n
        /\ \A j \in 1 .. m + n : w[j] = IF j <= m THEN a[j] ELSE b[j - m]
    BY BothFacts
  <1> HIDE DEF t
  <1>3. /\ DOMAIN v = 1 .. m + (n - 1)
        /\ \A j \in 1 .. m + (n - 1) : v[j] = IF j <= m THEN a[j] ELSE t[j - m]
    <2>1. a \in Seq(Frames) /\ t \in Seq(Frames)
      BY <1>1
    <2>2. /\ DOMAIN (a \o t) = 1 .. Len(a) + Len(t)
          /\ \A j \in 1 .. Len(a) + Len(t) :
               (a \o t)[j] = IF j <= Len(a) THEN a[j] ELSE t[j - Len(a)]
      BY ONLY <2>1, BothFacts
    <2>3. v = a \o t /\ Len(a) = m /\ Len(t) = n - 1
      BY <1>1 DEF t
    <2> HIDE DEF v, m, n
    <2> QED BY ONLY <2>2, <2>3
  <1> HIDE DEF w, v, m, n
  <1> DEFINE g == [j \in 1 .. m + (n - 1) |-> IF j <= m THEN j ELSE j + 1]
  <1>4. \A j \in 1 .. m + (n - 1) : g[j] \in 1 .. m + n
    BY <1>1
  <1>5. g \in [DOMAIN v -> DOMAIN w]
    BY <1>2, <1>3, <1>4
  <1>6. \A i, j \in DOMAIN v : i < j => g[i] <= g[j]
    BY <1>1, <1>3
  <1>7. \A j \in DOMAIN v : v[j] = w[g[j]]
    <2> SUFFICES ASSUME NEW j \in 1 .. m + (n - 1)
                 PROVE  v[j] = w[g[j]]
      BY <1>3
    <2>1. CASE j <= m
      <3>1. j \in 1 .. m + n /\ g[j] = j
        BY <1>1, <2>1
      <3> HIDE DEF g
      <3> QED BY <1>2, <1>3, <2>1, <3>1
    <2>2. CASE ~(j <= m)
      <3>1. j - m \in 1 .. n - 1 /\ (j + 1) - m = (j - m) + 1 /\ j + 1 \in 1 .. m + n
            /\ ~(j + 1 <= m) /\ g[j] = j + 1
        BY <1>1, <2>2
      <3> HIDE DEF g
      <3>2. v[j] = t[j - m] /\ t[j - m] = b[(j - m) + 1] /\ w[j + 1] = b[(j + 1) - m]
        BY <1>1, <1>2, <1>3, <2>2, <3>1
      <3> QED BY <3>1, <3>2
    <2> QED BY <2>1, <2>2
  <1> HIDE DEF g
  <1>8. Kept(w, v)
    BY <1>5, <1>6, <1>7 DEF Kept
  <1> QED BY <1>8 DEF w, v

\* A copy of the first of b behind a.
LEMMA DoubledIsKept ==
  ASSUME NEW a \in Seq(Frames), NEW b \in Seq(Frames), b # <<>>
  PROVE  Kept(a \o b, Append(a, Head(b)) \o b)
  <1> DEFINE w == a \o b
             c == Append(a, Head(b))
             v == c \o b
             m == Len(a)
             n == Len(b)
  <1>1. n \in Nat /\ n >= 1 /\ m \in Nat /\ Head(b) = b[1] /\ Head(b) \in Frames
    BY TailFacts, LenProperties
  <1>2. /\ DOMAIN w = 1 .. m + n
        /\ \A j \in 1 .. m + n : w[j] = IF j <= m THEN a[j] ELSE b[j - m]
    BY BothFacts
  <1>3. /\ c \in Seq(Frames) /\ Len(c) = m + 1 /\ c[m + 1] = b[1]
        /\ \A j \in 1 .. m : c[j] = a[j]
    BY <1>1, AppendProperties
  <1> HIDE DEF c
  <1>4. /\ DOMAIN v = 1 .. (m + 1) + n
        /\ \A j \in 1 .. (m + 1) + n : v[j] = IF j <= m + 1 THEN c[j] ELSE b[j - (m + 1)]
    <2>1. c \in Seq(Frames) /\ b \in Seq(Frames)
      BY <1>3
    <2>2. /\ DOMAIN (c \o b) = 1 .. Len(c) + Len(b)
          /\ \A j \in 1 .. Len(c) + Len(b) :
               (c \o b)[j] = IF j <= Len(c) THEN c[j] ELSE b[j - Len(c)]
      BY ONLY <2>1, BothFacts
    <2>3. v = c \o b /\ Len(c) = m + 1 /\ Len(b) = n
      BY <1>3
    <2> HIDE DEF v, m, n
    <2> QED BY ONLY <2>2, <2>3
  <1> HIDE DEF w, v, m, n
  <1> DEFINE g == [j \in 1 .. (m + 1) + n |-> IF j <= m + 1 THEN j ELSE j - 1]
  <1>5. \A j \in 1 .. (m + 1) + n : g[j] \in 1 .. m + n
    BY <1>1
  <1>6. g \in [DOMAIN v -> DOMAIN w]
    BY <1>2, <1>4, <1>5
  <1>7. \A i, j \in DOMAIN v : i < j => g[i] <= g[j]
    BY <1>1, <1>4
  <1>8. \A j \in DOMAIN v : v[j] = w[g[j]]
    <2> SUFFICES ASSUME NEW j \in 1 .. (m + 1) + n
                 PROVE  v[j] = w[g[j]]
      BY <1>4
    <2>1. CASE j <= m
      <3>1. j \in 1 .. m /\ j \in 1 .. m + n /\ j <= m + 1 /\ g[j] = j
        BY <1>1, <2>1
      <3> HIDE DEF g
      <3> QED BY <1>2, <1>3, <1>4, <2>1, <3>1
    <2>2. CASE j = m + 1
      <3>1. j \in 1 .. m + n /\ ~(j <= m) /\ j - m = 1 /\ j <= m + 1 /\ g[j] = j
        BY <1>1, <2>2
      <3> HIDE DEF g
      <3> QED BY <1>2, <1>3, <1>4, <2>2, <3>1
    <2>3. CASE j > m + 1
      <3>1. (j - 1) - m = j - (m + 1) /\ j - 1 \in 1 .. m + n /\ ~(j - 1 <= m)
            /\ ~(j <= m + 1) /\ g[j] = j - 1
        BY <1>1, <2>3
      <3> HIDE DEF g
      <3> QED BY <1>1, <1>2, <1>4, <3>1
    <2> QED BY <1>1, <2>1, <2>2, <2>3
  <1> HIDE DEF g
  <1>9. Kept(w, v)
    BY <1>6, <1>7, <1>8 DEF Kept
  <1> QED BY <1>9 DEF w, v, c

\* The first of b in the place of the last of a, and still at the head of b, or not.
LEMMA OverwrittenIsKept ==
  ASSUME NEW a \in Seq(Frames), NEW b \in Seq(Frames), b # <<>>, a # <<>>,
         NEW c, c = [a EXCEPT ![Len(a)] = Head(b)]
  PROVE  Kept(a \o b, c \o b) /\ Kept(a \o b, c \o Tail(b))
  <1> DEFINE w == a \o b
             v == c \o b
             m == Len(a)
             n == Len(b)
  <1>1. n \in Nat /\ n >= 1 /\ m \in Nat /\ m >= 1 /\ Head(b) = b[1] /\ Head(b) \in Frames
    BY TailFacts
  <1>2. /\ DOMAIN w = 1 .. m + n
        /\ \A j \in 1 .. m + n : w[j] = IF j <= m THEN a[j] ELSE b[j - m]
    BY BothFacts
  <1>3. /\ c \in Seq(Frames) /\ Len(c) = m /\ c[m] = b[1]
        /\ \A j \in 1 .. m - 1 : c[j] = a[j]
    <2>1. DOMAIN a = 1 .. m /\ a \in [1 .. m -> Frames]
      BY LenProperties
    <2> DEFINE h == Head(b)
    <2>2. h = b[1] /\ h \in Frames /\ m \in Nat /\ m \in 1 .. m
      BY <1>1
    <2>3. c = [a EXCEPT ![m] = h]
      OBVIOUS
    <2> HIDE DEF m, h
    <2>4. c \in [1 .. m -> Frames] /\ c[m] = b[1]
      BY ONLY <2>1, <2>2, <2>3
    <2>5. \A j \in 1 .. m - 1 : c[j] = a[j]
      <3> SUFFICES ASSUME NEW j \in 1 .. m - 1
                   PROVE  c[j] = a[j]
        OBVIOUS
      <3>1. j \in 1 .. m /\ j # m
        BY <2>2
      <3> QED BY ONLY <2>1, <2>3, <3>1
    <2>6. c \in Seq(Frames) /\ Len(c) = m
      BY <2>2, <2>4, IsASeq
    <2> QED BY <2>4, <2>5, <2>6
  <1>4. /\ v \in Seq(Frames) /\ DOMAIN v = 1 .. m + n
        /\ \A j \in 1 .. m + n : v[j] = IF j <= m THEN c[j] ELSE b[j - m]
    <2>1. c \in Seq(Frames) /\ b \in Seq(Frames)
      BY <1>3
    <2>2. /\ c \o b \in Seq(Frames) /\ DOMAIN (c \o b) = 1 .. Len(c) + Len(b)
          /\ \A j \in 1 .. Len(c) + Len(b) :
               (c \o b)[j] = IF j <= Len(c) THEN c[j] ELSE b[j - Len(c)]
      BY ONLY <2>1, BothFacts
    <2>3. v = c \o b /\ Len(c) = m /\ Len(b) = n
      BY <1>3
    <2> HIDE DEF v, m, n
    <2> QED BY ONLY <2>2, <2>3
  <1>5. Kept(w, v)
    <2> HIDE DEF w, v, m, n
    <2> DEFINE g == [j \in 1 .. m + n |-> IF j = m THEN m + 1 ELSE j]
    <2>1. g \in [DOMAIN v -> DOMAIN w]
      BY <1>1, <1>2, <1>4
    <2>2. \A i, j \in DOMAIN v : i < j => g[i] <= g[j]
      <3> SUFFICES ASSUME NEW i \in 1 .. m + n, NEW j \in 1 .. m + n, i < j
                   PROVE  g[i] <= g[j]
        BY <1>4
      <3>1. g[i] = (IF i = m THEN m + 1 ELSE i) /\ g[j] = (IF j = m THEN m + 1 ELSE j)
        OBVIOUS
      <3> HIDE DEF g
      <3> QED BY <1>1, <3>1
    <2>3. \A j \in DOMAIN v : v[j] = w[g[j]]
      <3> SUFFICES ASSUME NEW j \in 1 .. m + n
                   PROVE  v[j] = w[g[j]]
        BY <1>4
      <3>1. CASE j < m
        BY <1>1, <1>2, <1>3, <1>4, <3>1
      <3>2. CASE j = m
        <4>1. m + 1 \in 1 .. m + n /\ ~(m + 1 <= m) /\ (m + 1) - m = 1 /\ g[j] = m + 1
          BY <1>1, <3>2
        <4> HIDE DEF g
        <4> QED BY <1>1, <1>2, <1>3, <1>4, <3>2, <4>1
      <3>3. CASE j > m
        <4>1. ~(j <= m) /\ g[j] = j
          BY <1>1, <3>3
        <4> HIDE DEF g
        <4> QED BY <1>2, <1>4, <4>1
      <3> QED BY <1>1, <3>1, <3>2, <3>3
    <2> HIDE DEF g
    <2> QED BY <2>1, <2>2, <2>3 DEF Kept
  <1>6. Kept(w, c \o Tail(b))
    <2> DEFINE t == Tail(b)
               u == c \o t
    <2>1. /\ t \in Seq(Frames) /\ Len(t) = n - 1 /\ \A j \in 1 .. n - 1 : t[j] = b[j + 1]
      BY TailFacts
    <2> HIDE DEF t
    <2>2. /\ DOMAIN u = 1 .. m + (n - 1)
          /\ \A j \in 1 .. m + (n - 1) : u[j] = IF j <= m THEN c[j] ELSE t[j - m]
      <3>1. c \in Seq(Frames) /\ t \in Seq(Frames)
        BY <1>3, <2>1
      <3>2. /\ DOMAIN (c \o t) = 1 .. Len(c) + Len(t)
            /\ \A j \in 1 .. Len(c) + Len(t) :
                 (c \o t)[j] = IF j <= Len(c) THEN c[j] ELSE t[j - Len(c)]
        BY ONLY <3>1, BothFacts
      <3>3. u = c \o t /\ Len(c) = m /\ Len(t) = n - 1
        BY <1>3, <2>1
      <3> HIDE DEF u, m, n
      <3> QED BY ONLY <3>2, <3>3
    <2> HIDE DEF w, u, m, n
    <2> DEFINE g == [j \in 1 .. m + (n - 1) |-> IF j < m THEN j ELSE j + 1]
    <2>3. g \in [DOMAIN u -> DOMAIN w]
      BY <1>1, <1>2, <2>2
    <2>4. \A i, j \in DOMAIN u : i < j => g[i] <= g[j]
      BY <1>1, <2>2
    <2>5. \A j \in DOMAIN u : u[j] = w[g[j]]
      <3> SUFFICES ASSUME NEW j \in 1 .. m + (n - 1)
                   PROVE  u[j] = w[g[j]]
        BY <2>2
      <3>1. CASE j < m
        BY <1>1, <1>2, <1>3, <2>2, <3>1
      <3>2. CASE j = m
        <4>1. m + 1 \in 1 .. m + n /\ ~(m + 1 <= m) /\ (m + 1) - m = 1 /\ g[j] = m + 1
          BY <1>1, <3>2
        <4> HIDE DEF g
        <4> QED BY <1>1, <1>2, <1>3, <2>2, <3>2, <4>1
      <3>3. CASE j > m
        <4>1. j - m \in 1 .. n - 1 /\ (j + 1) - m = (j - m) + 1 /\ j + 1 \in 1 .. m + n
              /\ ~(j + 1 <= m) /\ g[j] = j + 1 /\ ~(j <= m)
          BY <1>1, <3>3
        <4> HIDE DEF g
        <4>2. u[j] = t[j - m] /\ t[j - m] = b[(j - m) + 1] /\ w[j + 1] = b[(j + 1) - m]
          BY <1>1, <1>2, <2>1, <2>2, <4>1
        <4> QED BY <4>1, <4>2
      <3> QED BY <1>1, <3>1, <3>2, <3>3
    <2> HIDE DEF g
    <2>6. Kept(w, u)
      BY <2>3, <2>4, <2>5 DEF Kept
    <2> QED BY <2>6 DEF u, t
  <1> QED BY <1>5, <1>6 DEF w, v

\* HeldFrom, of a next state given by its values.
HeldNext(at, v, of, from) ==
  reassembly'.active =>
    /\ from \in [1 .. reassembly'.next -> DOMAIN sent']
    /\ \A i \in 1 .. reassembly'.next :
         /\ AsIn(reassembly', sent'[from[i]], i - 1)
         /\ \A n \in DOMAIN delivered' : at[n] < from[i]
         /\ \A j \in DOMAIN v : from[i] <= of[j]

\* The parts of the invariant, of a next state given by its values.
LEMMA OriginsOf ==
  ASSUME NEW at, NEW of, NEW from, NEW v, v = Underway',
         of \in [DOMAIN v -> DOMAIN sent'],
         \A j \in DOMAIN v : IsFragment(v[j], sent'[of[j]]),
         \A i, j \in DOMAIN v :
           i < j => of[i] < of[j] \/ (of[i] = of[j] /\ v[i].index <= v[j].index),
         \A n \in DOMAIN delivered', j \in DOMAIN v :
           at[n] < of[j] \/ (at[n] = of[j] /\ v[j].end /\ ~reassembly'.active),
         fragmenter' # Idle =>
           /\ Len(sent') >= 1 /\ fragmenter'.packet = sent'[Len(sent')]
           /\ \A j \in DOMAIN v : of[j] = Len(sent') => v[j].index < fragmenter'.index
           /\ \A n \in DOMAIN delivered' : at[n] < Len(sent'),
         HeldNext(at, v, of, from),
         Maps(at, delivered', sent')
  PROVE  FrameOrigins'
  <1>1. Origins(Underway, of)' /\ NotYet(at, Underway, of)' /\ SenderAhead(at, Underway, of)'
    BY DEF Origins, NotYet, SenderAhead, IsFragment
  <1>2. HeldFrom(at, Underway, of, from)'
    BY DEF HeldFrom, HeldNext, AsIn
  <1> QED BY <1>1, <1>2 DEF FrameOrigins

\* The frames under way, and the index in each.
LEMMA IndicesUnderway ==
  ASSUME CanTypeOK
  PROVE  /\ Underway \in Seq(Frames) /\ Len(Underway) \in Nat
         /\ DOMAIN Underway = 1 .. Len(Underway)
         /\ \A j \in DOMAIN Underway : Underway[j] \in Frames /\ Underway[j].index \in Nat
  <1>1. Underway \in Seq(Frames)
    BY UnderwayFacts
  <1>2. MaxFragments \in Nat
    BY CanTypes
  <1> DEFINE w == Underway
  <1>3. w \in Seq(Frames)
    BY <1>1
  <1> HIDE DEF w
  <1>4. Len(w) \in Nat /\ DOMAIN w = 1 .. Len(w) /\ \A j \in DOMAIN w : w[j] \in Frames
    BY <1>3, LenProperties, ElementOfSeq
  <1> QED BY <1>1, <1>2, <1>4, FramesFacts DEF w

LEMMA SubmitKeepsOrigins ==
  ASSUME CanInv, FrameOrigins, Submit
  PROVE  FrameOrigins'
  <1>1. CanTypeOK
    BY DEF CanInv
  <1>2. PICK p \in Packets : fragmenter' = [Idle EXCEPT !.packet = p] /\ sent' = Append(sent, p)
    BY DEF Submit
  <1>3. UNCHANGED <<mailboxes, fifo, reassembly, delivered>>
    BY DEF Submit, receiver, reassemblies
  <1>4. PICK at, of, from : /\ Maps(at, delivered, sent) /\ Origins(Underway, of)
                            /\ NotYet(at, Underway, of) /\ SenderAhead(at, Underway, of)
                            /\ HeldFrom(at, Underway, of, from)
    BY DEF FrameOrigins
  <1>5. sent \in Seq(Packets) /\ delivered \in Seq(Packets)
    BY <1>1, CanTypes
  <1>6. Maps(at, delivered', sent') /\ \A n \in DOMAIN delivered' : at[n] < Len(sent')
    BY <1>2, <1>3, <1>4, <1>5, MapsIntoLonger
  <1> DEFINE n == Len(sent)
  <1>7. /\ n \in Nat /\ DOMAIN sent = 1 .. n /\ Len(sent') = n + 1 /\ DOMAIN sent' = 1 .. n + 1
        /\ \A i \in 1 .. n : sent'[i] = sent[i]
        /\ sent'[n + 1] = p
    BY <1>2, <1>5, AppendProperties, LenProperties
  <1> HIDE DEF n
  <1> DEFINE w == Underway
  <1>8. w = Underway'
    BY <1>3 DEF Underway
  <1> HIDE DEF w
  <1>9. /\ of \in [DOMAIN w -> 1 .. n]
        /\ \A j \in DOMAIN w : IsFragment(w[j], sent[of[j]])
        /\ \A i, j \in DOMAIN w :
             i < j => of[i] < of[j] \/ (of[i] = of[j] /\ w[i].index <= w[j].index)
        /\ \A k \in DOMAIN delivered, j \in DOMAIN w :
             at[k] < of[j] \/ (at[k] = of[j] /\ w[j].end /\ ~reassembly.active)
    BY <1>4, <1>7 DEF Origins, NotYet, w
  <1>10. \A j \in DOMAIN w : of[j] \in 1 .. n
    BY <1>9
  <1>11. of \in [DOMAIN w -> DOMAIN sent'] /\ \A j \in DOMAIN w : of[j] # Len(sent')
    BY <1>7, <1>9, <1>10
  <1>12. \A j \in DOMAIN w : IsFragment(w[j], sent'[of[j]])
    BY <1>7, <1>9, <1>10
  <1>13. fragmenter'.packet = sent'[Len(sent')] /\ Len(sent') >= 1
    BY <1>2, <1>7 DEF Idle
  <1>14. HeldNext(at, w, of, from)
    <2> SUFFICES ASSUME reassembly.active
                 PROVE  HeldNext(at, w, of, from)
      BY <1>3 DEF HeldNext
    <2>1. /\ from \in [1 .. reassembly.next -> 1 .. n]
          /\ \A i \in 1 .. reassembly.next :
               /\ AsIn(reassembly, sent[from[i]], i - 1)
               /\ \A k \in DOMAIN delivered : at[k] < from[i]
               /\ \A j \in DOMAIN w : from[i] <= of[j]
      BY <1>4, <1>7 DEF HeldFrom, w
    <2>2. \A i \in 1 .. reassembly.next : from[i] \in 1 .. n /\ sent'[from[i]] = sent[from[i]]
      BY <1>7, <2>1
    <2>3. from \in [1 .. reassembly.next -> DOMAIN sent']
      BY <1>7, <2>1
    <2> QED BY <1>3, <2>1, <2>2, <2>3 DEF HeldNext
  <1> QED BY <1>3, <1>6, <1>8, <1>9, <1>11, <1>12, <1>13, <1>14, OriginsOf

LEMMA QueueKeepsOrigins ==
  ASSUME CanInv, FrameOrigins, QueueFragment
  PROVE  FrameOrigins'
  <1> DEFINE f == fragmenter
             p == f.packet
             next == f.offset + Lesser(Len(p) - f.offset, Capacity(f.offset))
             frame == Frame(p, f.offset, f.index)
  <1>1. CanTypeOK /\ AtFragments
    BY DEF CanInv
  <1>2. /\ fragmenter # Idle /\ mailboxes' = Append(mailboxes, frame)
        /\ fragmenter' = IF next = Len(p) THEN Idle
                         ELSE [f EXCEPT !.offset = next, !.index = @ + 1]
        /\ UNCHANGED <<fifo, reassembly, delivered, sent>>
    BY DEF QueueFragment, receiver, reassemblies
  <1>3. PICK at, of, from : /\ Maps(at, delivered, sent) /\ Origins(Underway, of)
                            /\ NotYet(at, Underway, of) /\ SenderAhead(at, Underway, of)
                            /\ HeldFrom(at, Underway, of, from)
    BY DEF FrameOrigins
  <1> DEFINE n == Len(sent)
             w == Underway
             len == Len(w)
             v == Append(w, frame)
             of2 == [j \in 1 .. len + 1 |-> IF j = len + 1 THEN n ELSE of[j]]
  <1>4. /\ p \in Packets /\ f.index \in Nat /\ f.index < CountFor(Len(p))
        /\ frame \in Frames /\ frame = Fragments(p)[f.index + 1] /\ frame.index = f.index
    BY <1>1, <1>2, NextFragment, FrameFacts
  <1>5. v = Underway'
    BY <1>1, <1>2, <1>4, UnderwayFacts DEF Underway
  <1>6. /\ w \in Seq(Frames) /\ len \in Nat /\ DOMAIN w = 1 .. len
        /\ DOMAIN v = 1 .. len + 1 /\ v[len + 1] = frame /\ \A j \in 1 .. len : v[j] = w[j]
    BY <1>1, <1>4, IndicesUnderway, AppendProperties
  <1>7. n \in Nat /\ n >= 1 /\ DOMAIN sent = 1 .. n /\ n \in 1 .. n /\ p = sent[n]
    <2>1. n \in Nat /\ DOMAIN sent = 1 .. n
      BY <1>1, CanTypes, LenProperties
    <2>2. n >= 1 /\ p = sent[n]
      BY <1>2, <1>3 DEF SenderAhead
    <2> QED BY <2>1, <2>2
  <1>8. /\ of \in [1 .. len -> 1 .. n]
        /\ \A j \in 1 .. len : IsFragment(w[j], sent[of[j]])
        /\ \A i, j \in 1 .. len :
             i < j => of[i] < of[j] \/ (of[i] = of[j] /\ w[i].index <= w[j].index)
        /\ \A k \in DOMAIN delivered, j \in 1 .. len :
             at[k] < of[j] \/ (at[k] = of[j] /\ w[j].end /\ ~reassembly.active)
        /\ \A j \in 1 .. len : of[j] = n => w[j].index < f.index
        /\ \A k \in DOMAIN delivered : at[k] < n
    BY <1>2, <1>3, <1>6, <1>7 DEF Origins, NotYet, SenderAhead
  <1>9. \A j \in 1 .. len : w[j].index \in Nat /\ of[j] \in 1 .. n
    BY <1>1, <1>6, <1>8, IndicesUnderway
  <1>10. IsFragment(frame, p)
    BY <1>4 DEF IsFragment
  <1>11. fragmenter' # Idle => fragmenter'.packet = p /\ fragmenter'.index = f.index + 1
    <2>1. f \in [packet : Packets \cup {<<>>}, offset : 0 .. MaxLength, index : 0 .. MaxFragments]
      BY <1>1, CanTypes
    <2> HIDE DEF next
    <2>2. fragmenter' # Idle => fragmenter' = [f EXCEPT !.offset = next, !.index = @ + 1]
      BY <1>2
    <2> QED BY <2>1, <2>2
  <1> HIDE DEF n, w, len, v, frame, f, p, next
  <1>12. of2[len + 1] = n /\ \A j \in 1 .. len : of2[j] = of[j]
    BY <1>6
  <1>13. of2 \in [1 .. len + 1 -> 1 .. n] /\ \A j \in 1 .. len + 1 : j \in 1 .. len \/ j = len + 1
    BY <1>6, <1>7, <1>8
  <1> HIDE DEF of2
  <1>14. \A j \in 1 .. len + 1 : IsFragment(v[j], sent[of2[j]])
    <2> SUFFICES ASSUME NEW j \in 1 .. len + 1
                 PROVE  IsFragment(v[j], sent[of2[j]])
      OBVIOUS
    <2>1. CASE j \in 1 .. len
      BY <1>6, <1>8, <1>12, <2>1
    <2>2. CASE j = len + 1
      BY <1>6, <1>7, <1>10, <1>12, <2>2
    <2> QED BY <1>13, <2>1, <2>2
  <1>15. ASSUME NEW i \in 1 .. len + 1, NEW j \in 1 .. len + 1, i < j
         PROVE  of2[i] < of2[j] \/ (of2[i] = of2[j] /\ v[i].index <= v[j].index)
    <2>1. i \in 1 .. len
      BY <1>6, <1>15
    <2>2. CASE j \in 1 .. len
      BY <1>6, <1>8, <1>12, <1>15, <2>1, <2>2
    <2>3. CASE j = len + 1
      <3>1. of2[i] = of[i] /\ of2[j] = n /\ v[i] = w[i] /\ v[j].index = f.index
        BY <1>4, <1>6, <1>12, <2>1, <2>3
      <3>2. of[i] \in 1 .. n /\ w[i].index \in Nat /\ (of[i] = n => w[i].index < f.index)
        BY <1>8, <1>9, <2>1
      <3> QED BY <1>4, <1>7, <3>1, <3>2
    <2> QED BY <1>13, <2>2, <2>3
  <1>16. \A k \in DOMAIN delivered, j \in 1 .. len + 1 :
           at[k] < of2[j] \/ (at[k] = of2[j] /\ v[j].end /\ ~reassembly.active)
    <2> SUFFICES ASSUME NEW k \in DOMAIN delivered, NEW j \in 1 .. len + 1
                 PROVE  at[k] < of2[j] \/ (at[k] = of2[j] /\ v[j].end /\ ~reassembly.active)
      OBVIOUS
    <2>1. CASE j \in 1 .. len
      BY <1>6, <1>8, <1>12, <2>1
    <2>2. CASE j = len + 1
      BY <1>8, <1>12, <2>2
    <2> QED BY <1>13, <2>1, <2>2
  <1>17. \A j \in 1 .. len + 1 : of2[j] = n => v[j].index < f.index + 1
    <2> SUFFICES ASSUME NEW j \in 1 .. len + 1, of2[j] = n
                 PROVE  v[j].index < f.index + 1
      OBVIOUS
    <2>1. CASE j \in 1 .. len
      <3>1. v[j].index < f.index /\ v[j].index \in Nat
        BY <1>6, <1>8, <1>9, <1>12, <2>1
      <3> QED BY <1>4, <3>1
    <2>2. CASE j = len + 1
      BY <1>4, <1>6, <2>2
    <2> QED BY <1>13, <2>1, <2>2
  <1>18. Maps(at, delivered', sent') /\ sent' = sent /\ delivered' = delivered
         /\ reassembly' = reassembly /\ Len(sent') = n
    BY <1>2, <1>3 DEF n
  <1>19. /\ of2 \in [DOMAIN v -> DOMAIN sent']
         /\ \A j \in DOMAIN v : IsFragment(v[j], sent'[of2[j]])
         /\ \A i, j \in DOMAIN v :
              i < j => of2[i] < of2[j] \/ (of2[i] = of2[j] /\ v[i].index <= v[j].index)
         /\ \A k \in DOMAIN delivered', j \in DOMAIN v :
              at[k] < of2[j] \/ (at[k] = of2[j] /\ v[j].end /\ ~reassembly'.active)
         /\ fragmenter' # Idle =>
              /\ Len(sent') >= 1 /\ fragmenter'.packet = sent'[Len(sent')]
              /\ \A j \in DOMAIN v : of2[j] = Len(sent') => v[j].index < fragmenter'.index
              /\ \A k \in DOMAIN delivered' : at[k] < Len(sent')
    BY <1>6, <1>7, <1>8, <1>11, <1>13, <1>14, <1>15, <1>16, <1>17, <1>18
  <1>20. HeldNext(at, v, of2, from)
    <2> SUFFICES ASSUME reassembly.active
                 PROVE  HeldNext(at, v, of2, from)
      BY <1>18 DEF HeldNext
    <2>1. /\ from \in [1 .. reassembly.next -> 1 .. n]
          /\ \A i \in 1 .. reassembly.next :
               /\ AsIn(reassembly, sent[from[i]], i - 1)
               /\ \A k \in DOMAIN delivered : at[k] < from[i]
               /\ \A j \in 1 .. len : from[i] <= of[j]
      BY <1>3, <1>6, <1>7 DEF HeldFrom, w
    <2>2. \A i \in 1 .. reassembly.next, j \in 1 .. len + 1 : from[i] <= of2[j]
      <3> SUFFICES ASSUME NEW i \in 1 .. reassembly.next, NEW j \in 1 .. len + 1
                   PROVE  from[i] <= of2[j]
        OBVIOUS
      <3>1. from[i] \in 1 .. n
        BY <2>1
      <3>2. CASE j \in 1 .. len
        BY <1>12, <2>1, <3>2
      <3>3. CASE j = len + 1
        BY <1>7, <1>12, <3>1, <3>3
      <3> QED BY <1>13, <3>2, <3>3
    <2> QED BY <1>6, <1>7, <1>18, <2>1, <2>2 DEF HeldNext
  <1> QED BY <1>5, <1>18, <1>19, <1>20, OriginsOf

\* What arrives in a FIFO, full or not, was there or is the frame that is sent.
LEMMA ArrivedIsKept ==
  ASSUME CanTypeOK, mailboxes # <<>>, NEW f, f = Head(mailboxes), Arrive(f)
  PROVE  Kept(Underway, fifo' \o mailboxes) /\ Kept(Underway, fifo' \o Tail(mailboxes))
  <1>1. /\ fifo \in Seq(Frames) /\ mailboxes \in Seq(Frames) /\ Len(fifo) <= FifoDepth
        /\ Len(fifo) \in Nat
    BY CanTypes, LenProperties
  <1>2. CASE Len(fifo) < FifoDepth
    <2>1. fifo' = Append(fifo, Head(mailboxes))
      BY <1>2 DEF Arrive
    <2>2. Kept(fifo \o mailboxes, Append(fifo, Head(mailboxes)) \o mailboxes)
      BY <1>1, DoubledIsKept
    <2>3. Append(fifo, Head(mailboxes)) \o Tail(mailboxes) = Underway
      BY UnderwayFacts
    <2>4. Kept(Underway, Underway)
      BY UnderwayFacts, SameIsKept
    <2>5. fifo' \o Tail(mailboxes) = Underway
      BY <2>1, <2>3
    <2>6. Kept(Underway, fifo' \o mailboxes)
      BY <2>1, <2>2 DEF Underway
    <2> QED BY <2>4, <2>5, <2>6
  <1>3. CASE ~(Len(fifo) < FifoDepth)
    <2> DEFINE size == Len(fifo)
    <2>0. size \in Nat /\ size <= FifoDepth /\ ~(size < FifoDepth)
      BY <1>1, <1>3
    <2> HIDE DEF size
    <2>1. FifoDepth = 3 /\ size = FifoDepth
      BY <2>0 DEF FifoDepth
    <2> USE DEF size
    <2>2. fifo # <<>>
      <3>1. Len(fifo) # 0
        BY <2>1
      <3> QED BY <1>1, <3>1, EmptySeq
    <2>3. fifo' = [fifo EXCEPT ![Len(fifo)] = Head(mailboxes)]
      BY <1>3, <2>1 DEF Arrive
    <2>4. /\ Kept(fifo \o mailboxes, fifo' \o mailboxes)
          /\ Kept(fifo \o mailboxes, fifo' \o Tail(mailboxes))
      BY <1>1, <2>2, <2>3, OverwrittenIsKept
    <2> QED BY <2>4 DEF Underway
  <1> QED BY <1>2, <1>3

LEMMA BusKeepsOrigins ==
  ASSUME CanInv, FrameOrigins, Transmit \/ Lose \/ Duplicate \/ GiveUp
  PROVE  FrameOrigins'
  <1>1. CanTypeOK
    BY DEF CanInv
  <1>2. /\ mailboxes \in Seq(Frames) /\ Len(mailboxes) <= Mailboxes
        /\ fifo \in Seq(Frames) /\ Underway \in Seq(Frames)
    BY <1>1, CanTypes, UnderwayFacts
  <1>3. UNCHANGED <<sent, delivered, reassembly>> /\ fragmenter' \in {fragmenter, Idle}
    BY DEF Transmit, Lose, Duplicate, GiveUp, receiver, reassemblies
  <1>4. Kept(Underway, Underway')
    <2>1. CASE Transmit
      <3>1. PICK n \in Transmittable :
              Arrive(mailboxes[n]) /\ mailboxes' = WithoutNth(mailboxes, n)
        BY <2>1 DEF Transmit
      <3>2. /\ mailboxes # <<>> /\ mailboxes[n] = Head(mailboxes)
            /\ mailboxes' = Tail(mailboxes)
        BY <1>2, <3>1, TransmittableFacts
      <3>3. Kept(Underway, fifo' \o Tail(mailboxes))
        BY <1>1, <3>1, <3>2, ArrivedIsKept
      <3> QED BY <3>2, <3>3 DEF Underway
    <2>2. CASE Lose
      <3>1. PICK n \in Transmittable : mailboxes' = WithoutNth(mailboxes, n)
        BY <2>2 DEF Lose
      <3>2. mailboxes # <<>> /\ mailboxes' = Tail(mailboxes) /\ fifo' = fifo
        BY <1>2, <2>2, <3>1, TransmittableFacts DEF Lose, receiver
      <3>3. Kept(fifo \o mailboxes, fifo \o Tail(mailboxes))
        BY <1>2, <3>2, LostIsKept
      <3> QED BY <3>2, <3>3 DEF Underway
    <2>3. CASE Duplicate
      <3>1. PICK n \in Transmittable : Arrive(mailboxes[n])
        BY <2>3 DEF Duplicate
      <3>2. mailboxes # <<>> /\ mailboxes[n] = Head(mailboxes) /\ mailboxes' = mailboxes
        BY <1>2, <2>3, <3>1, TransmittableFacts DEF Duplicate
      <3>3. Kept(Underway, fifo' \o mailboxes)
        BY <1>1, <3>1, <3>2, ArrivedIsKept
      <3> QED BY <3>2, <3>3 DEF Underway
    <2>4. CASE GiveUp
      <3>1. UNCHANGED <<mailboxes, fifo>>
        BY <2>4 DEF GiveUp, receiver
      <3>2. Underway' = Underway
        BY <3>1 DEF Underway
      <3> QED BY <1>2, <3>2, SameIsKept
    <2> QED BY <2>1, <2>2, <2>3, <2>4
  <1> QED BY <1>3, <1>4, NothingElseKept

\* A reassembly that is within a packet after a frame took one that is not the last.
LEMMA StillActive ==
  ASSUME CanTypeOK, AtFragments, NEW f \in Frames, FeedResult(f).state.active
  PROVE  ~f.end /\ FeedResult(f).result # "COMPLETE"
  <1> DEFINE r == Extended(Opened(f), f)
             res == FeedResult(f)
  <1>1. /\ TakesFrame(f) /\ f.end => res.state.active = FALSE
        /\ TakesFrame(f) /\ ~f.end => res = [state |-> r, result |-> "NONE"]
        /\ ~TakesFrame(f) => res.state.active = FALSE
    BY FeedResultIs
  <1>2. f.end \in BOOLEAN
    BY FramesFacts
  <1>3. res.state.active
    OBVIOUS
  <1> HIDE DEF r, res
  <1>4. ~f.end /\ res.result = "NONE"
    BY <1>1, <1>2, <1>3
  <1> QED BY <1>4 DEF res

\* HeldFrom, of a reassembly and of frames on their way after a step.
HeldAfter(at, v, of, from, r) ==
  r.active =>
    /\ from \in [1 .. r.next -> DOMAIN sent]
    /\ \A i \in 1 .. r.next :
         /\ AsIn(r, sent[from[i]], i - 1)
         /\ \A n \in DOMAIN delivered : at[n] < from[i]
         /\ \A j \in DOMAIN v : from[i] <= of[j]

LEMMA PollKeepsFrameOrigins ==
  ASSUME MixturesTell, CanInv, FrameOrigins, PollCan
  PROVE  FrameOrigins'
  <1> DEFINE f == Head(fifo)
             res == FeedResult(f)
             w == Underway
             len == Len(w)
             v == Tail(w)
             n == Len(sent)
             q == res.state.packet
             whole == res.result = "COMPLETE" /\ Decodes(q)
  <1>1. CanTypeOK /\ AtFragments
    BY DEF CanInv
  <1>2. /\ fifo # <<>> /\ fifo' = Tail(fifo) /\ reassembly' = res.state
        /\ delivered' = IF whole THEN Append(delivered, q) ELSE delivered
        /\ UNCHANGED <<fragmenter, mailboxes, sent>>
    BY DEF PollCan
  <1>3. w # <<>> /\ w[1] = f /\ v = Underway' /\ w \in Seq(Frames)
    BY <1>1, <1>2, UnderwayFacts DEF Underway
  <1>4. /\ len \in Nat /\ len >= 1 /\ DOMAIN w = 1 .. len /\ Len(v) = len - 1
        /\ DOMAIN v = 1 .. len - 1 /\ \A j \in 1 .. len - 1 : v[j] = w[j + 1]
        /\ \A j \in 1 .. len : w[j] \in Frames /\ w[j].index \in Nat
    <2>1. v \in Seq(Frames)
      BY <1>3, TailFacts
    <2> QED BY <1>1, <1>3, <2>1, TailFacts, IndicesUnderway, LenProperties
  <1>5. PICK at, of, from : /\ Maps(at, delivered, sent) /\ Origins(w, of)
                            /\ NotYet(at, w, of) /\ SenderAhead(at, w, of)
                            /\ HeldFrom(at, w, of, from)
    BY DEF FrameOrigins
  <1>6. /\ sent \in Seq(Packets) /\ delivered \in Seq(Packets) /\ n \in Nat
        /\ DOMAIN sent = 1 .. n
    BY <1>1, CanTypes, LenProperties
  <1> DEFINE m == of[1]
             p == sent[m]
  <1>7. f \in Frames /\ f.index \in Nat /\ 1 \in 1 .. len
    BY <1>3, <1>4
  <1>8. /\ of \in [1 .. len -> 1 .. n]
        /\ \A j \in 1 .. len : IsFragment(w[j], sent[of[j]])
        /\ \A i, j \in 1 .. len :
             i < j => of[i] < of[j] \/ (of[i] = of[j] /\ w[i].index <= w[j].index)
        /\ \A k \in DOMAIN delivered, j \in 1 .. len :
             at[k] < of[j] \/ (at[k] = of[j] /\ w[j].end /\ ~reassembly.active)
        /\ fragmenter # Idle =>
             /\ n >= 1 /\ fragmenter.packet = sent[n]
             /\ \A j \in 1 .. len : of[j] = n => w[j].index < fragmenter.index
             /\ \A k \in DOMAIN delivered : at[k] < n
    BY <1>4, <1>5, <1>6 DEF Origins, NotYet, SenderAhead
  <1>9. \A j \in 1 .. len : of[j] \in 1 .. n /\ sent[of[j]] \in Packets
    BY <1>6, <1>8, ElementOfSeq
  <1>10. m \in 1 .. n /\ p \in Packets /\ IsFragment(f, p)
    BY <1>3, <1>7, <1>8, <1>9
  <1>11. f.end <=> f.index + 1 = CountFor(Len(p))
    BY <1>7, <1>10, FragmentFacts
  <1>12. res.state.active => ~f.end /\ ~whole
    BY <1>1, <1>7, StillActive
  <1>13. \A k \in DOMAIN delivered : at[k] \in 1 .. n
    BY <1>5, <1>6 DEF Maps
  <1>14. fragmenter # Idle /\ fragmenter.packet \in Packets =>
           fragmenter.index \in Nat /\ fragmenter.index < CountFor(Len(fragmenter.packet))
    BY <1>1, NextFragment
  <1>15. CountFor(Len(p)) \in Nat
    BY <1>10, CountOfPacket
  \* The last frame of the packet that the sender is in is not on its way yet.
  <1>16. fragmenter # Idle /\ f.end => m # n
    <2> SUFFICES ASSUME fragmenter # Idle, f.end, m = n
                 PROVE  FALSE
      OBVIOUS
    <2>1. fragmenter.packet = p /\ f.index < fragmenter.index
      BY <1>3, <1>7, <1>8
    <2>2. fragmenter.index \in Nat /\ fragmenter.index < CountFor(Len(p))
      BY <1>10, <1>14, <2>1
    <2> QED BY <1>7, <1>11, <1>15, <2>1, <2>2
  <1> DEFINE of2 == [j \in 1 .. len - 1 |-> of[j + 1]]
  <1>17. \A j \in 1 .. len - 1 : j + 1 \in 1 .. len /\ of2[j] = of[j + 1] /\ v[j] = w[j + 1]
    BY <1>4
  <1>18. of2 \in [1 .. len - 1 -> 1 .. n]
    BY <1>4, <1>8
  <1> HIDE DEF of2
  <1>19. \A j \in 1 .. len - 1 : IsFragment(v[j], sent[of2[j]])
    BY <1>8, <1>17
  <1>20. ASSUME NEW i \in 1 .. len - 1, NEW j \in 1 .. len - 1, i < j
         PROVE  of2[i] < of2[j] \/ (of2[i] = of2[j] /\ v[i].index <= v[j].index)
    <2>1. i + 1 \in 1 .. len /\ j + 1 \in 1 .. len /\ i + 1 < j + 1
      BY <1>4, <1>20
    <2> HIDE DEF v, w, len
    <2> QED BY <1>8, <1>17, <2>1
  \* What comes behind this frame is of its packet or of a later one.
  <1>21. \A j \in 1 .. len - 1 :
           /\ of2[j] \in 1 .. n
           /\ m < of2[j] \/ (m = of2[j] /\ f.index <= v[j].index)
    <2> SUFFICES ASSUME NEW j \in 1 .. len - 1
                 PROVE  /\ of2[j] \in 1 .. n
                        /\ m < of2[j] \/ (m = of2[j] /\ f.index <= v[j].index)
      OBVIOUS
    <2>1. 1 < j + 1 /\ j + 1 \in 1 .. len
      BY <1>4
    <2>2. of[1] < of[j + 1] \/ (of[1] = of[j + 1] /\ w[1].index <= w[j + 1].index)
      BY <1>7, <1>8, <2>1
    <2> HIDE DEF v, w, len, f
    <2> QED BY <1>3, <1>9, <1>17, <2>1, <2>2
  <1>22. fragmenter' = fragmenter /\ sent' = sent /\ reassembly' = res.state
    BY <1>2
  <1>23. \A j \in 1 .. len - 1 : of2[j] = n /\ fragmenter # Idle => v[j].index < fragmenter.index
    BY <1>8, <1>17
  \* What the reassembly held before was sent before the packet of this frame.
  <1> DEFINE held == reassembly.next
  <1>26. reassembly.active =>
           /\ from \in [1 .. held -> 1 .. n]
           /\ \A i \in 1 .. held :
                /\ AsIn(reassembly, sent[from[i]], i - 1) /\ from[i] \in 1 .. n
                /\ sent[from[i]] \in Packets /\ from[i] <= m
                /\ \A k \in DOMAIN delivered : at[k] < from[i]
                /\ \A j \in 1 .. len : from[i] <= of[j]
    <2> SUFFICES ASSUME reassembly.active
                 PROVE  /\ from \in [1 .. held -> 1 .. n]
                        /\ \A i \in 1 .. held :
                             /\ AsIn(reassembly, sent[from[i]], i - 1)
                             /\ \A k \in DOMAIN delivered : at[k] < from[i]
                             /\ \A j \in 1 .. len : from[i] <= of[j]
      BY <1>6, <1>7, ElementOfSeq
    <2> QED BY <1>4, <1>5, <1>6 DEF HeldFrom
  <1> DEFINE from2 == [i \in 1 .. res.state.next |-> IF i = f.index + 1 THEN m ELSE from[i]]
  <1>27. HeldAfter(at, v, of2, from2, res.state)
    <2> SUFFICES ASSUME res.state.active
                 PROVE  HeldAfter(at, v, of2, from2, res.state)
      BY DEF HeldAfter
    <2> DEFINE r == res.state
               x == f.index
    <2>1. /\ r.next = x + 1 /\ AsIn(r, p, x)
          /\ x # 0 =>
               /\ reassembly.active /\ held = x
               /\ r.expected = reassembly.expected /\ Len(reassembly.packet) \in Nat
               /\ \A k \in 1 .. Len(reassembly.packet) :
                    k <= Len(r.packet) /\ r.packet[k] = reassembly.packet[k]
      BY <1>1, <1>7, <1>10, TakenFragment
    <2>2. \A i \in 1 .. r.next : i = x + 1 \/ (i \in 1 .. held /\ x # 0 /\ i # x + 1)
      <3> HIDE DEF r, x, held
      <3> QED BY <1>7, <2>1 DEF x
    <2>3. \A i \in 1 .. r.next : from2[i] = IF i = x + 1 THEN m ELSE from[i]
      OBVIOUS
    <2> HIDE DEF from2
    <2>4. from2 \in [1 .. r.next -> 1 .. n]
      <3>1. \A i \in 1 .. r.next : from2[i] \in 1 .. n
        <4> HIDE DEF r, x, m, n, held
        <4> QED BY <1>10, <1>26, <2>1, <2>2, <2>3
      <3>2. from2 = [i \in 1 .. r.next |-> from2[i]]
        BY DEF from2
      <3> QED BY <3>1, <3>2
    <2>5. ASSUME NEW i \in 1 .. r.next
          PROVE  /\ AsIn(r, sent[from2[i]], i - 1)
                 /\ \A k \in DOMAIN delivered : at[k] < from2[i]
                 /\ \A j \in 1 .. len - 1 : from2[i] <= of2[j]
      <3>1. CASE i = x + 1
        <4>1. from2[i] = m /\ i - 1 = x
          BY <1>7, <2>3, <3>1
        <4>2. AsIn(r, sent[from2[i]], i - 1)
          BY <2>1, <4>1
        <4>3. ~f.end
          BY <1>12
        <4>4. \A k \in DOMAIN delivered : at[k] < m
          BY <1>3, <1>7, <1>8, <4>3
        <4>5. \A j \in 1 .. len - 1 : m <= of2[j]
          <5> HIDE DEF m, n, len, v, f
          <5> QED BY <1>10, <1>21
        <4> QED BY <4>1, <4>2, <4>4, <4>5
      <3>2. CASE i # x + 1
        <4>1. /\ i \in 1 .. held /\ from2[i] = from[i] /\ reassembly.active
              /\ r.expected = reassembly.expected /\ Len(reassembly.packet) \in Nat
              /\ \A k \in 1 .. Len(reassembly.packet) :
                   k <= Len(r.packet) /\ r.packet[k] = reassembly.packet[k]
          BY <2>1, <2>2, <2>3, <3>2
        <4>2. AsIn(reassembly, sent[from[i]], i - 1)
          BY <1>26, <4>1
        <4>3. OffsetOf(i - 1) \in Nat
          <5>1. i - 1 \in Nat
            BY <4>1
          <5> QED BY <5>1, NextOffset
        <4> HIDE DEF r
        <4>4. AsIn(r, sent[from[i]], i - 1)
          <5> DEFINE s == sent[from[i]]
                     j == i - 1
          <5> HIDE DEF s, j
          <5>1. /\ OffsetOf(j + 1) < Len(s) /\ (j = 0 => reassembly.expected = Len(s))
                /\ \A k \in Nat : OffsetOf(j) < k /\ k <= OffsetOf(j + 1) =>
                     k <= Len(reassembly.packet) /\ reassembly.packet[k] = s[k]
            BY <4>2 DEF AsIn, s, j
          <5>2. ASSUME NEW k \in Nat, OffsetOf(j) < k, k <= OffsetOf(j + 1)
                PROVE  k <= Len(r.packet) /\ r.packet[k] = s[k]
            <6>1. k \in 1 .. Len(reassembly.packet)
              BY <4>1, <4>3, <5>1, <5>2 DEF j
            <6> QED BY <4>1, <5>1, <5>2, <6>1
          <5> QED BY <4>1, <5>1, <5>2 DEF AsIn, s, j
        <4>5. \A j \in 1 .. len - 1 : j + 1 \in 1 .. len /\ of2[j] = of[j + 1]
          BY <1>17
        <4> HIDE DEF v, len, f, m, n, w
        <4> QED BY <1>26, <4>1, <4>4, <4>5
      <3> QED BY <3>1, <3>2
    <2>6. DOMAIN v = 1 .. len - 1
      BY <1>4
    <2> HIDE DEF v, len, f, m, n, w, r
    <2> QED BY <1>6, <2>4, <2>5, <2>6 DEF HeldAfter, n, r
  <1> HIDE DEF from2
  <1>24. CASE ~whole
    <2>1. delivered' = delivered /\ Maps(at, delivered', sent')
      BY <1>2, <1>5, <1>24
    <2>2. ASSUME NEW k \in DOMAIN delivered, NEW j \in 1 .. len - 1
          PROVE  at[k] < of2[j] \/ (at[k] = of2[j] /\ v[j].end /\ ~res.state.active)
      <3>1. /\ at[k] < of2[j] \/ (at[k] = of2[j] /\ v[j].end /\ ~reassembly.active)
            /\ at[k] < m \/ (at[k] = m /\ f.end)
            /\ at[k] \in 1 .. n /\ of2[j] \in 1 .. n /\ (m < of2[j] \/ m = of2[j])
        BY <1>3, <1>7, <1>8, <1>13, <1>17, <1>21
      <3> HIDE DEF v, w, len, f, res
      <3> QED BY <1>10, <1>12, <3>1 DEF res
    <2> HIDE DEF w, len, f, res, v, n
    <2>3. /\ of2 \in [DOMAIN v -> DOMAIN sent']
          /\ \A j \in DOMAIN v : IsFragment(v[j], sent'[of2[j]])
          /\ \A i, j \in DOMAIN v :
               i < j => of2[i] < of2[j] \/ (of2[i] = of2[j] /\ v[i].index <= v[j].index)
          /\ \A k \in DOMAIN delivered', j \in DOMAIN v :
               at[k] < of2[j] \/ (at[k] = of2[j] /\ v[j].end /\ ~reassembly'.active)
          /\ fragmenter' # Idle =>
               /\ Len(sent') >= 1 /\ fragmenter'.packet = sent'[Len(sent')]
               /\ \A j \in DOMAIN v : of2[j] = Len(sent') => v[j].index < fragmenter'.index
               /\ \A k \in DOMAIN delivered' : at[k] < Len(sent')
      BY <1>4, <1>6, <1>8, <1>18, <1>19, <1>20, <1>22, <1>23, <2>1, <2>2 DEF n
    <2>4. HeldNext(at, v, of2, from2)
      BY <1>22, <1>27, <2>1 DEF HeldNext, HeldAfter
    <2> QED BY <1>3, <2>1, <2>3, <2>4, OriginsOf
  <1>25. CASE whole
    <2>1. q \in Packets /\ res.result = "COMPLETE" /\ delivered' = Append(delivered, q)
      BY <1>2, <1>25 DEF Decodes
    <2>2. /\ f = LastFrame(q) /\ f.end /\ reassembly.active /\ res.state.active = FALSE
          /\ CountFor(Len(q)) = held + 1 /\ held \in Nat
          /\ reassembly.expected = Len(q) /\ Len(reassembly.packet) \in Nat
          /\ \A k \in 1 .. Len(reassembly.packet) : q[k] = reassembly.packet[k]
      BY <1>1, <1>7, <2>1, LastFrameOfDelivered
    <2>3. LastFrame(q).index = held
      <3>1. 0 < CountFor(Len(q)) /\ held < CountFor(Len(q))
        BY <2>2
      <3>2. OffsetOf(held) \in 0 .. Len(q) - 1 /\ LastFrame(q) = Frame(q, OffsetOf(held), held)
        BY <2>1, <2>2, <3>1, FragmentsOf DEF LastFrame
      <3> HIDE DEF held
      <3> QED BY <2>1, <3>2, FrameFacts
    \* It is one of those whose fragments it was made of.
    <2>4. q = p \/ \E i \in 1 .. held : q = sent[from[i]]
      <3>1. IsFragment(LastFrame(q), p)
        BY <1>10, <2>2
      <3>2. \A i \in 1 .. held : sent[from[i]] \in Packets /\ AsIn(reassembly, sent[from[i]], i - 1)
        BY <1>26, <2>2
      <3>3. MixturesTell /\ q \in Packets /\ p \in Packets /\ held \in Nat
        BY <1>10, <2>1, <2>2
      <3> HIDE DEF held, m, q, p
      <3>4. MadeOf(q, p, held, from)
        BY <2>2, <2>3, <3>1, <3>2 DEF MadeOf
      <3> QED BY ONLY <3>3, <3>4, DeliveredIsOneOf
    <2>5. PICK e \in 1 .. n : e <= m /\ q = sent[e] /\ \A k \in DOMAIN delivered : at[k] < e
      <3>1. CASE q = p
        <4>1. \A k \in DOMAIN delivered : at[k] < m
          BY <1>7, <1>8, <2>2
        <4>2. m <= m
          <5> HIDE DEF m
          <5> QED BY <1>10
        <4> QED BY <1>10, <3>1, <4>1, <4>2
      <3>2. CASE \E i \in 1 .. held : q = sent[from[i]]
        BY <1>26, <2>2, <3>2
      <3> QED BY <2>4, <3>1, <3>2
    <2>6. PICK to : /\ Maps(to, Append(delivered, q), sent)
                    /\ \A k \in DOMAIN Append(delivered, q) : to[k] <= e
      BY <1>5, <1>6, <2>1, <2>5, MapsOneMore
    <2>7. Maps(to, delivered', sent') /\ \A k \in DOMAIN delivered' : to[k] \in 1 .. n /\ to[k] <= m
      <3>1. Maps(to, delivered', sent') /\ \A k \in DOMAIN delivered' : to[k] \in 1 .. n /\ to[k] <= e
        BY <1>6, <1>22, <2>1, <2>6 DEF Maps
      <3> HIDE DEF m, n
      <3> QED BY <1>6, <1>10, <2>5, <3>1
    <2>8. ASSUME NEW k \in DOMAIN delivered', NEW j \in 1 .. len - 1
          PROVE  to[k] < of2[j] \/ (to[k] = of2[j] /\ v[j].end /\ ~res.state.active)
      <3>1. CASE m < of2[j]
        <4>1. to[k] \in 1 .. n /\ to[k] <= m /\ of2[j] \in 1 .. n
          BY <1>21, <2>7
        <4> HIDE DEF m, n
        <4> QED BY <1>10, <3>1, <4>1
      <3>2. CASE m = of2[j] /\ f.index <= v[j].index
        <4>1. IsFragment(v[j], p) /\ v[j].index \in Nat
          BY <1>4, <1>17, <1>19, <3>2
        <4>2. v[j].end <=> v[j].index + 1 = CountFor(Len(p))
          BY <1>10, <4>1, FragmentFacts
        <4>3. v[j].index < CountFor(Len(p))
          BY <4>1 DEF IsFragment
        <4>4. f.index + 1 = CountFor(Len(p))
          BY <1>11, <2>2
        <4> DEFINE a == f.index
                   b == v[j].index
                   c == CountFor(Len(p))
        <4>5. a \in Nat /\ b \in Nat /\ c \in Nat /\ a <= b /\ b < c /\ a + 1 = c
          BY <1>7, <1>15, <3>2, <4>1, <4>3, <4>4
        <4> HIDE DEF a, b, c
        <4>6. b + 1 = c
          BY <4>5
        <4>7. v[j].end
          BY <4>2, <4>6 DEF b, c
        <4>8. to[k] \in 1 .. n /\ to[k] <= m
          BY <2>7
        <4> HIDE DEF m, n, v
        <4>9. to[k] < m \/ to[k] = m
          BY <1>10, <4>8
        <4> QED BY <2>2, <3>2, <4>7, <4>9
      <3> QED BY <1>21, <3>1, <3>2
    <2>9. fragmenter # Idle => \A k \in DOMAIN delivered' : to[k] < n
      <3> SUFFICES ASSUME fragmenter # Idle, NEW k \in DOMAIN delivered'
                   PROVE  to[k] < n
        OBVIOUS
      <3>1. m # n
        BY <1>16, <2>2
      <3>2. to[k] \in 1 .. n /\ to[k] <= m
        BY <2>7
      <3>3. n \in Nat
        BY <1>6
      <3> HIDE DEF m, n
      <3> QED BY <1>10, <3>1, <3>2, <3>3
    <2> HIDE DEF w, len, f, res, v, n, m
    <2>10. /\ of2 \in [DOMAIN v -> DOMAIN sent']
           /\ \A j \in DOMAIN v : IsFragment(v[j], sent'[of2[j]])
           /\ \A i, j \in DOMAIN v :
                i < j => of2[i] < of2[j] \/ (of2[i] = of2[j] /\ v[i].index <= v[j].index)
           /\ \A k \in DOMAIN delivered', j \in DOMAIN v :
                to[k] < of2[j] \/ (to[k] = of2[j] /\ v[j].end /\ ~reassembly'.active)
           /\ fragmenter' # Idle =>
                /\ Len(sent') >= 1 /\ fragmenter'.packet = sent'[Len(sent')]
                /\ \A j \in DOMAIN v : of2[j] = Len(sent') => v[j].index < fragmenter'.index
                /\ \A k \in DOMAIN delivered' : to[k] < Len(sent')
      BY <1>4, <1>6, <1>8, <1>18, <1>19, <1>20, <1>22, <1>23, <2>8, <2>9 DEF n
    <2>11. Maps(to, delivered', sent')
      BY <2>7
    <2>12. v = Underway'
      BY <1>3
    <2>13. HeldNext(to, v, of2, from2)
      BY <1>22, <2>2 DEF HeldNext, res
    <2> QED BY ONLY <2>10, <2>11, <2>12, <2>13, OriginsOf
  <1> QED BY <1>24, <1>25

\* Over a bus that loses and doubles frames, and with packets that are broken off, no
\* packet is delivered that was not sent, none twice, and none out of turn, provided
\* that fragments of several packets together do not have the CRC of another one.
THEOREM FaultyBusDeliversWhatWasSent ==
  ASSUME MixturesTell
  PROVE  CanSpec => []DeliversWhatWasSent
  <1>1. CanInit => FrameOrigins
    <2> SUFFICES ASSUME CanInit PROVE FrameOrigins
      OBVIOUS
    <2>1. fifo = <<>> /\ mailboxes = <<>> /\ sent = <<>> /\ delivered = <<>> /\ fragmenter = Idle
          /\ ~reassembly.active
      BY DEF CanInit, NoReassembly
    <2>2. Underway = <<>> /\ DOMAIN Underway = {} /\ DOMAIN delivered = {}
      BY <2>1 DEF Underway
    <2> DEFINE none == [k \in {} |-> 1]
    <2>3. Maps(none, delivered, sent)
      BY <2>1, MapsNothing
    <2>4. none \in [{} -> DOMAIN sent]
      OBVIOUS
    <2> HIDE DEF none
    <2>5. Origins(Underway, none) /\ NotYet(none, Underway, none) /\ SenderAhead(none, Underway, none)
      BY <2>1, <2>2, <2>4 DEF Origins, NotYet, SenderAhead
    <2>6. HeldFrom(none, Underway, none, none)
      BY <2>1 DEF HeldFrom
    <2> QED BY <2>3, <2>5, <2>6 DEF FrameOrigins
  <1>2. CanInv /\ FrameOrigins /\ [CanNext]_canVars => FrameOrigins'
    <2> SUFFICES ASSUME CanInv, FrameOrigins, [CanNext]_canVars
                 PROVE  FrameOrigins'
      OBVIOUS
    <2>1. CASE UNCHANGED canVars
      <3>1. UNCHANGED <<fragmenter, mailboxes, fifo, reassembly, delivered, sent>>
        BY <2>1 DEF canVars, receiver, reassemblies
      <3>2. Underway' = Underway
        BY <3>1 DEF Underway
      <3>3. Kept(Underway, Underway')
        BY <3>2, SameIsKept, UnderwayFacts DEF CanInv
      <3> QED BY <3>1, <3>3, NothingElseKept
    <2>2. CASE Submit
      BY <2>2, SubmitKeepsOrigins
    <2>3. CASE QueueFragment
      BY <2>3, QueueKeepsOrigins
    <2>4. CASE Transmit \/ Lose \/ Duplicate \/ GiveUp
      BY <2>4, BusKeepsOrigins
    <2>5. CASE PollCan
      BY <2>5, PollKeepsFrameOrigins
    <2> QED BY <2>1, <2>2, <2>3, <2>4, <2>5 DEF CanNext
  <1>3. FrameOrigins => DeliversWhatWasSent
    BY MappedWasSent DEF FrameOrigins
  <1>4. CanSpec => []CanInv
    BY CanInvariant
  <1> QED BY <1>1, <1>2, <1>3, <1>4, PTL DEF CanSpec

=============================================================================
