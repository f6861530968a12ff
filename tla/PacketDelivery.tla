---------------------------- MODULE PacketDelivery ----------------------------
(***************************************************************************)
(* What the two ways of an update packet from the host to the device have in  *)
(* common, the UART of UpdateStream and the CAN bus of CanTransport: the       *)
(* packets, what is known of those that were sent and delivered, and what     *)
(* both promise.  The CRC is one without collisions: update_protocol_decode   *)
(* accepts what is in Packets and nothing else.                              *)
(***************************************************************************)
EXTENDS Naturals, Sequences

CONSTANTS
  Packets,            \* the encoded packets there are
  MaxPackets,         \* bound: how many packets are sent
  MaxFaults           \* bound: how much goes wrong

ASSUME PacketAssumption ==
  /\ Packets \subseteq Seq(Nat)
  /\ MaxPackets \in Nat /\ MaxFaults \in Nat \ {0}

VARIABLES
  sent,               \* history: the packets given to the sender
  delivered,          \* history: the packets that were decoded and processed
  faults              \* history: how much went wrong so far

\* No CRC.
FaultyDecodes(packet) == TRUE

Decodes(packet) == packet \in Packets

\* What is delivered was sent, in that order and no more often, whatever was lost,
\* doubled or made up on the way: the pieces of two packets never make a third
\* one, and no packet is delivered twice (update_protocol.c:100-166).
DeliversWhatWasSent ==
  \E at \in [DOMAIN delivered -> DOMAIN sent] :
    /\ \A n \in DOMAIN delivered : delivered[n] = sent[at[n]]
    /\ \A m, n \in DOMAIN delivered : m < n => at[m] < at[n]

=============================================================================
