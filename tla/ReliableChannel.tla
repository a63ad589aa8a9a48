--------------------------- MODULE ReliableChannel ---------------------------
(***************************************************************************)
(* networking/ReliableChannel: sequence numbers, piggy-backed acks and a   *)
(* resend queue over UDP.  Two channels, Peers 0 and 1, are each other's   *)
(* remote, as Session::createLocalPair wires them.  A message is named by  *)
(* its index, the number of messages its sender had sent before it; what   *)
(* travels and is compared is its sequence number, index % SeqMod.         *)
(*                                                                         *)
(* The bit field is the set of ages whose bit is set: age k is bit k - 1   *)
(* and stands for sequence recvSequence - k.  A resend entry is "fresh"    *)
(* until kResendWindowMs have passed since it was last transmitted.        *)
(*                                                                         *)
(* The UDP network (external) keeps a set of datagrams that it may lose,   *)
(* duplicate and reorder.                                                  *)
(***************************************************************************)
EXTENDS Integers, FiniteSets

CONSTANTS SeqMod,       \* 2^16: sequence numbers are uint16_t
          AckBits,      \* kAckBitfieldBits = 32
          Window,       \* environment: span of a sender's messages still about
          MaxSends,     \* bound: messages each peer sends
          MaxInFlight   \* bound: datagrams of each sender in flight

Peers == 0..1
Half  == SeqMod \div 2

(* Sequence arithmetic can only tell newer from older within half the      *)
(* range.                                                                  *)
ASSUME SeqAssumption == /\ SeqMod \in Nat /\ SeqMod > 0
                        /\ AckBits \in Nat /\ AckBits < Half
                        /\ Window \in Nat /\ Window > 0 /\ Window < Half
ASSUME BoundAssumption == /\ MaxSends \in [Peers -> Nat]
                          /\ MaxInFlight \in Nat

VARIABLES
    sent,             \* messages sent; sendSequence_ is Seq(sent[p])
    recvSequence,     \* recvSequence_
    recvAckBitfield,  \* recvAckBitfield_, as a set of ages
    resendQueue,      \* resendQueue_, the indices of its entries
    fresh,            \* the entries transmitted less than kResendWindowMs ago
    polling,          \* inside poll()
    network,          \* datagrams in flight
    delivered,        \* history: messages handed to the receive callback
    highest           \* history: the index recvSequence_ stands for

vars == <<sent, recvSequence, recvAckBitfield, resendQueue, fresh, polling,
          network, delivered, highest>>

Other(p) == 1 - p
Seq(i)   == i % SeqMod

(* The 16-bit subtraction static_cast<uint16_t>(a - b).                    *)
SeqDiff(a, b) == (a - b) % SeqMod

(* What writeHeader and the payload put on the wire; "ackOf" is history.   *)
Datagram(p, i) == [src |-> p, msg |-> i, ack |-> recvSequence[p],
                   bits |-> recvAckBitfield[p], ackOf |-> highest[p]]

(* socket_.send of p's datagrams D: any of them may be lost, now or as      *)
(* well later: a lost datagram is one that never entered the network.      *)
From(p) == {d \in network : d.src = p}

Transmit(p, D) == \E kept \in SUBSET D :
                     /\ Cardinality(From(p) \union kept) <= MaxInFlight
                     /\ network' = network \union kept
------------------------------------------------------------------------------
TypeOK ==
    /\ sent \in [Peers -> Nat]
    /\ recvSequence \in [Peers -> 0..(SeqMod - 1)]
    /\ recvAckBitfield \in [Peers -> SUBSET (1..AckBits)]
    /\ resendQueue \in [Peers -> SUBSET Nat]
    /\ fresh \in [Peers -> SUBSET Nat]
    /\ polling \in [Peers -> BOOLEAN]
    /\ network \subseteq [src : Peers, msg : Nat, ack : 0..(SeqMod - 1),
                          bits : SUBSET (1..AckBits), ackOf : Nat]
    /\ delivered \in [Peers -> SUBSET Nat]
    /\ highest \in [Peers -> Nat]

Init ==
    /\ sent = [p \in Peers |-> 0]
    /\ recvSequence = [p \in Peers |-> 0]
    /\ recvAckBitfield = [p \in Peers |-> {}]
    /\ resendQueue = [p \in Peers |-> {}]
    /\ fresh = [p \in Peers |-> {}]
    /\ polling = [p \in Peers |-> FALSE]
    /\ network = {}
    /\ delivered = [p \in Peers |-> {}]
    /\ highest = [p \in Peers |-> 0]

(* The messages of p that the resend queue, a datagram or an ack still     *)
(* mentions.                                                               *)
Mentioned(p) == resendQueue[p]
                \union {d.msg : d \in From(p)}
                \union {d.ackOf : d \in From(Other(p))}

(* send(payload): enqueue, advance the sequence, transmit.  It may be      *)
(* called between polls or by the receive callback.  A payload over        *)
(* kMaxPayload is refused with no effect.                                  *)
Send(p) ==
    /\ sent[p] < MaxSends[p]
    /\ \A i \in Mentioned(p) : sent[p] - i < Window
    /\ resendQueue' = [resendQueue EXCEPT ![p] = @ \union {sent[p]}]
    /\ fresh' = [fresh EXCEPT ![p] = @ \union {sent[p]}]
    /\ sent' = [sent EXCEPT ![p] = @ + 1]
    /\ Transmit(p, {Datagram(p, sent[p])})
    /\ UNCHANGED <<recvSequence, recvAckBitfield, polling, delivered, highest>>

(* kResendWindowMs elapse for an entry.                                    *)
Expire(p, i) ==
    /\ i \in fresh[p]
    /\ fresh' = [fresh EXCEPT ![p] = @ \ {i}]
    /\ UNCHANGED <<sent, recvSequence, recvAckBitfield, resendQueue, polling,
                   network, delivered, highest>>

(* poll() begins with resendUnacked(): every expired entry is transmitted  *)
(* again with the current ack state.                                       *)
Due_Inverted(p) == fresh[p]     \* mutant: >= became <
Due(p) == resendQueue[p] \ fresh[p]

PollBegin(p) ==
    /\ ~polling[p]
    /\ polling' = [polling EXCEPT ![p] = TRUE]
    /\ Transmit(p, {Datagram(p, i) : i \in Due(p)})
    /\ fresh' = [fresh EXCEPT ![p] = resendQueue[p]]
    /\ UNCHANGED <<sent, recvSequence, recvAckBitfield, resendQueue,
                   delivered, highest>>

(* processAcks: does the header acknowledge the entry?                     *)
Acks_OffByOne(d, i) == \/ Seq(i) = d.ack     \* mutant: bit age, not age - 1
                       \/ (SeqDiff(d.ack, Seq(i)) + 1) \in d.bits
Acks(d, i) == \/ Seq(i) = d.ack
              \/ SeqDiff(d.ack, Seq(i)) \in d.bits

(* updateAckState(seq).                                                    *)
IsNewer_NoHalf(p, seq) ==       \* mutant: no test against 32767
    SeqDiff(seq, recvSequence[p]) > 0
IsNewer(p, seq) == SeqDiff(seq, recvSequence[p]) \in 1..(Half - 1)

ShiftedBits_NoOld(bits, diff) ==    \* mutant: the old recvSequence_ forgotten
    {k + diff : k \in {b \in bits : b + diff <= AckBits}}
ShiftedBits_Unshifted(bits, diff) ==    \* mutant: the field is not shifted
    IF diff < AckBits THEN bits \union {diff} ELSE {}
ShiftedBits(bits, diff) ==
    IF diff < AckBits
      THEN {k + diff : k \in {b \in bits : b + diff <= AckBits}} \union {diff}
      ELSE {}

UpdateAckState(p, seq, i) ==
    IF IsNewer(p, seq)
      THEN /\ recvAckBitfield' = [recvAckBitfield EXCEPT ![p] =
                                   ShiftedBits(@, SeqDiff(seq, recvSequence[p]))]
           /\ recvSequence' = [recvSequence EXCEPT ![p] = seq]
           /\ highest' = [highest EXCEPT ![p] = i]
      ELSE /\ recvAckBitfield' = [recvAckBitfield EXCEPT ![p] =
                @ \union ({SeqDiff(recvSequence[p], seq)} \cap (1..AckBits))]
           /\ UNCHANGED <<recvSequence, highest>>

(* One iteration of poll()'s loop: process the acks, update the ack state, *)
(* hand the payload to the callback.  Nothing checks for a duplicate.      *)
Receive(p, d) ==
    /\ polling[p]
    /\ d \in network /\ d.src = Other(p)
    /\ resendQueue' = [resendQueue EXCEPT ![p] = {i \in @ : ~Acks(d, i)}]
    /\ fresh' = [fresh EXCEPT ![p] = {i \in @ : ~Acks(d, i)}]
    /\ UpdateAckState(p, Seq(d.msg), d.msg)
    /\ delivered' = [delivered EXCEPT ![p] = @ \union {d.msg}]
    /\ network' \in {network, network \ {d}}    \* duplicated, or consumed
    /\ UNCHANGED <<sent, polling>>

(* socket_.recv finds nothing: poll() returns.                             *)
PollEnd(p) ==
    /\ polling[p]
    /\ polling' = [polling EXCEPT ![p] = FALSE]
    /\ UNCHANGED <<sent, recvSequence, recvAckBitfield, resendQueue, fresh,
                   network, delivered, highest>>

Next == \E p \in Peers : \/ Send(p) \/ PollBegin(p) \/ PollEnd(p)
                         \/ \E i \in fresh[p] : Expire(p, i)
                         \/ \E d \in network : Receive(p, d)

Spec == Init /\ [][Next]_vars

(* Fairness.  Each peer polls every frame and its clock advances; the      *)
(* network is fair-lossy: a message that is transmitted again and again    *)
(* gets through, and what stays in flight is received and then gone.       *)
Resent(p, i) == /\ PollBegin(p) /\ i \in Due(p)
                /\ \E d \in network' : d.src = p /\ d.msg = i
Consumed(p, i) == \E d \in network : /\ d.msg = i /\ Receive(p, d)
                                     /\ d \notin network'

Indices(p) == 0..(MaxSends[p] - 1)

Fairness == \A p \in Peers :
    /\ WF_vars(PollEnd(p)) /\ WF_vars(PollBegin(p))
    /\ \A i \in Indices(p) : /\ WF_vars(Expire(p, i))
                             /\ SF_vars(Resent(p, i))
                             /\ SF_vars(Consumed(Other(p), i))

FairSpec == Spec /\ Fairness
------------------------------------------------------------------------------
(* "It will be resent until acked" (ReliableChannel.h): a message leaves   *)
(* the resend queue only once the peer has received it.  FALSE of message  *)
(* 0: a peer that has received nothing acks sequence 0.                    *)
Unreceived(p) == {i \in 0..(sent[p] - 1) : i \notin delivered[Other(p)]}

KeptUntilReceived == \A p \in Peers : Unreceived(p) \subseteq resendQueue[p]

(* What the code does guarantee: no message after the first is dropped     *)
(* from the queue before the peer has received it, through any loss,       *)
(* duplication, reordering and wrap-around.                                *)
NoneLostAfterFirst ==
    \A p \in Peers : Unreceived(p) \ {0} \subseteq resendQueue[p]

(* A header in flight acknowledges only messages its sender received (or   *)
(* message 0): "bit N set => packet (ack - N - 1) was received"            *)
(* (Packet.h).                                                             *)
HonestAcks ==
    \A d \in network : \A i \in resendQueue[Other(d.src)] :
        Acks(d, i) => i = 0 \/ i \in delivered[d.src]

(* A received message that is younger than the bit field is acknowledged   *)
(* by the next header: updateAckState forgets none when it shifts, and     *)
(* the field keeps its width.                                              *)
AckedWithin(limit) ==
    \A p \in Peers : \A i \in delivered[p] :
        highest[p] - i < limit =>
            i = highest[p] \/ (highest[p] - i) \in recvAckBitfield[p]

RecentAcked == TypeOK /\ AckedWithin(AckBits)

(* The peer's ack state never goes back, across wrap-around and stale      *)
(* duplicates.                                                             *)
AckStateAdvances ==
    [][\A p \in Peers : /\ highest'[p] >= highest[p]
                        /\ recvSequence'[p] # recvSequence[p]
                              => highest'[p] > highest[p]]_vars

(* Under a fair-lossy network every message after the first is received.   *)
EventuallyReceived ==
    \A p \in Peers : \A i \in Indices(p) \ {0} :
        sent[p] > i ~> i \in delivered[Other(p)]
==============================================================================
