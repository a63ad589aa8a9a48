------------------------ MODULE ReliableChannelProofs ------------------------
(***************************************************************************)
(* What ReliableChannel guarantees for every sequence range, bit field     *)
(* width, number of messages and network capacity.                         *)
(***************************************************************************)
EXTENDS ReliableChannel, TLAPS

(* A message that an ack may name: the first, or one that q has received.  *)
Honest(q, i) == i = 0 \/ i \in delivered[q]

(* The sender's side: every index that exists has been sent.               *)
SentInv ==
    \A p \in Peers :
        /\ \A i \in resendQueue[p] : i < sent[p]
        /\ fresh[p] \subseteq resendQueue[p]
        /\ \A i \in delivered[Other(p)] : i < sent[p]

(* The receiver's ack state names received messages, and highest bounds    *)
(* them all.                                                               *)
AckInv ==
    \A q \in Peers :
        /\ recvSequence[q] = Seq(highest[q])
        /\ Honest(q, highest[q])
        /\ \A i \in delivered[q] : i <= highest[q]
        /\ \A k \in recvAckBitfield[q] :
              k <= highest[q] /\ Honest(q, highest[q] - k)

(* A datagram carries a sent message and an honest copy of the ack state.  *)
NetInv ==
    \A d \in network :
        /\ d.msg < sent[d.src]
        /\ d.ack = Seq(d.ackOf)
        /\ Honest(d.src, d.ackOf)
        /\ \A k \in d.bits : k <= d.ackOf /\ Honest(d.src, d.ackOf - k)

(* The span of what is about stays below half the sequence range.          *)
SpanInv ==
    /\ \A p \in Peers : \A i \in resendQueue[p] : sent[p] - i <= Window
    /\ \A d \in network : sent[d.src] - d.msg <= Window
    /\ \A d \in network : sent[Other(d.src)] - d.ackOf <= Window + 1

IInv == /\ TypeOK
        /\ SentInv
        /\ AckInv
        /\ NetInv
        /\ SpanInv
        /\ NoneLostAfterFirst
------------------------------------------------------------------------------
(* Facts about sequence numbers taken modulo M: within less than M, the    *)
(* difference of two of them determines the difference of the indices.     *)

(* Quotient and remainder.                                                 *)
LEMMA DivMod ==
    ASSUME NEW M \in Nat, M > 0, NEW a \in Int
    PROVE  /\ a % M \in 0..(M - 1)
           /\ a \div M \in Int
           /\ a = M * (a \div M) + (a % M)
OBVIOUS

(* multiple of M.                                                          *)
LEMMA ModUnique ==
    ASSUME NEW M \in Nat, M > 0, NEW q \in Int, NEW r \in 0..(M - 1)
    PROVE  (M * q + r) % M = r
<1> DEFINE a == M * q + r
<1>1. a \in Int
  OBVIOUS
<1>2. /\ a % M \in 0..(M - 1)
      /\ a \div M \in Int
      /\ a = M * (a \div M) + (a % M)
  BY <1>1, DivMod
<1>3. M * (q - (a \div M)) = (a % M) - r
  BY <1>2
<1>4. CASE q - (a \div M) >= 1
  <2>1. M * (q - (a \div M)) >= M
    BY <1>2, <1>4
  <2>2. QED
    BY <2>1, <1>2, <1>3
<1>5. CASE q - (a \div M) <= -1
  <2>1. M * (q - (a \div M)) <= -M
    BY <1>2, <1>5
  <2>2. QED
    BY <2>1, <1>2, <1>3
<1>6. CASE q = a \div M
  BY <1>2, <1>6
<1>7. QED
  BY <1>2, <1>4, <1>5, <1>6

(* is the difference of the indices.                                       *)
LEMMA DiffAhead ==
    ASSUME NEW M \in Nat, M > 0, NEW i \in Nat, NEW j \in Nat,
           i >= j, i - j < M
    PROVE  ((i % M) - (j % M)) % M = i - j
<1>1. /\ i \div M \in Int /\ i = M * (i \div M) + (i % M) /\ i % M \in Int
      /\ j \div M \in Int /\ j = M * (j \div M) + (j % M) /\ j % M \in Int
  BY DivMod
<1> DEFINE q == (j \div M) - (i \div M)
<1>2. /\ q \in Int
      /\ M * q = M * (j \div M) - M * (i \div M)
  BY <1>1
<1>3. (i % M) - (j % M) = M * q + (i - j)
  BY <1>1, <1>2
<1>4. i - j \in 0..(M - 1)
  OBVIOUS
<1>5. (M * q + (i - j)) % M = i - j
  BY <1>2, <1>4, ModUnique
<1>6. QED
  BY <1>3, <1>5

(* The first older than the second: the difference wraps around.           *)
LEMMA DiffBehind ==
    ASSUME NEW M \in Nat, M > 0, NEW i \in Nat, NEW j \in Nat,
           i < j, j - i <= M
    PROVE  ((i % M) - (j % M)) % M = M - (j - i)
<1>1. /\ i \div M \in Int /\ i = M * (i \div M) + (i % M) /\ i % M \in Int
      /\ j \div M \in Int /\ j = M * (j \div M) + (j % M) /\ j % M \in Int
  BY DivMod
<1> DEFINE q == ((j \div M) - (i \div M)) - 1
<1>2. /\ q \in Int
      /\ M * q = (M * (j \div M) - M * (i \div M)) - M
  BY <1>1
<1>3. (i % M) - (j % M) = M * q + (M - (j - i))
  BY <1>1, <1>2
<1>4. M - (j - i) \in 0..(M - 1)
  OBVIOUS
<1>5. (M * q + (M - (j - i))) % M = M - (j - i)
  BY <1>2, <1>4, ModUnique
<1>6. QED
  BY <1>3, <1>5

(* Sequence numbers less than M apart are equal only if the indices are.   *)
LEMMA SeqInjective ==
    ASSUME NEW M \in Nat, M > 0, NEW i \in Nat, NEW j \in Nat,
           i - j < M, j - i < M
    PROVE  i % M = j % M => i = j
<1>1. i % M \in Int /\ j % M \in Int
  BY DivMod
<1>2. i > j => ((i % M) - (j % M)) % M = i - j
  <2>1. i > j => i >= j
    OBVIOUS
  <2>2. QED
    BY <2>1, DiffAhead, Zenon
<1>3. j > i => ((j % M) - (i % M)) % M = j - i
  <2>1. j > i => j >= i
    OBVIOUS
  <2>2. QED
    BY <2>1, DiffAhead, Zenon
<1>4. 0 % M = 0
  BY (M * 0 + 0) % M = 0, ModUnique
<1>5. SUFFICES ASSUME i % M = j % M
               PROVE  i = j
  OBVIOUS
<1>6. /\ (i % M) - (j % M) = 0
      /\ (j % M) - (i % M) = 0
  BY <1>1, <1>5
<1>7. QED
  BY <1>2, <1>3, <1>4, <1>6
------------------------------------------------------------------------------
(* The half range leaves room below the modulus.                           *)
LEMMA HalfBound == Half \in Nat /\ 2 * Half <= SeqMod
<1>1. /\ SeqMod % 2 \in 0..1
      /\ SeqMod \div 2 \in Int
      /\ SeqMod = 2 * (SeqMod \div 2) + (SeqMod % 2)
  BY SeqAssumption, DivMod
<1>2. QED
  BY <1>1, SeqAssumption DEF Half

LEMMA SeqType == \A i \in Nat : Seq(i) \in 0..(SeqMod - 1)
  BY SeqAssumption, DivMod DEF Seq

(* Two indices no further apart than the span: their sequence numbers      *)
(* compare as the indices do.                                              *)
LEMMA SeqCompare ==
    ASSUME NEW i \in Nat, NEW j \in Nat, i - j <= Window, j - i <= Window
    PROVE  /\ i >= j => SeqDiff(Seq(i), Seq(j)) = i - j
           /\ i < j => SeqDiff(Seq(i), Seq(j)) = SeqMod - (j - i)
           /\ Seq(i) = Seq(j) => i = j
<1>1. /\ SeqMod \in Nat /\ SeqMod > 0
      /\ i - j < SeqMod /\ j - i < SeqMod /\ j - i <= SeqMod
  BY HalfBound, SeqAssumption
<1>2. i >= j => ((i % SeqMod) - (j % SeqMod)) % SeqMod = i - j
  BY <1>1, DiffAhead, Zenon
<1>3. i < j => ((i % SeqMod) - (j % SeqMod)) % SeqMod = SeqMod - (j - i)
  BY <1>1, DiffBehind, Zenon
<1>4. i % SeqMod = j % SeqMod => i = j
  BY <1>1, SeqInjective, Zenon
<1>5. QED
  BY <1>2, <1>3, <1>4, Zenon DEF SeqDiff, Seq

LEMMA OtherPeer == \A p \in Peers : /\ Other(p) \in Peers
                                    /\ Other(Other(p)) = p
                                    /\ Other(p) # p
  BY DEF Peers, Other

(* transmit keeps whatever holds of the old and of the new datagrams.      *)
LEMMA TransmitSubset ==
    ASSUME NEW p, NEW D, Transmit(p, D)
    PROVE  network' \subseteq network \union D
  BY DEF Transmit
------------------------------------------------------------------------------
LEMMA InitIInv == Init => IInv
<1>1. SUFFICES ASSUME Init
               PROVE  IInv
  OBVIOUS
<1>2. 0 % SeqMod = 0 /\ 0 \in 0..(SeqMod - 1)
  <2>1. /\ SeqMod \in Nat /\ SeqMod > 0 /\ 0 \in Int
        /\ 0 \in 0..(SeqMod - 1)
    BY SeqAssumption
  <2>2. (SeqMod * 0 + 0) % SeqMod = 0
    BY <2>1, ModUnique, Zenon
  <2>3. QED
    BY <2>1, <2>2
<1>3. TypeOK
  BY <1>1, <1>2 DEF Init, TypeOK
<1>4. SentInv
  BY <1>1, OtherPeer DEF Init, SentInv
<1>5. AckInv
  BY <1>1, <1>2 DEF Init, AckInv, Honest, Seq
<1>6. NetInv /\ SpanInv
  BY <1>1 DEF Init, NetInv, SpanInv
<1>7. NoneLostAfterFirst
  BY <1>1 DEF Init, NoneLostAfterFirst, Unreceived
<1>8. QED
  BY <1>3, <1>4, <1>5, <1>6, <1>7 DEF IInv
------------------------------------------------------------------------------
(* The ack state never lags a sender by more than the span: the message    *)
(* after the highest one received is still in the sender's queue.          *)
LEMMA HighestSpan ==
    ASSUME IInv, NEW q \in Peers
    PROVE  sent[Other(q)] - highest[q] <= Window + 1
<1> DEFINE p == Other(q)
           m == highest[q] + 1
<1>1. /\ p \in Peers /\ Other(p) = q
      /\ sent[p] \in Nat /\ highest[q] \in Nat /\ m \in Nat
  BY OtherPeer DEF IInv, TypeOK
<1>2. CASE m < sent[p]
  <2>1. m \notin delivered[q] /\ m # 0
    BY <1>1 DEF IInv, AckInv
  <2>2. m \in Unreceived(p) \ {0}
    BY <1>1, <1>2, <2>1 DEF Unreceived
  <2>3. m \in resendQueue[p]
    BY <1>1, <2>2 DEF IInv, NoneLostAfterFirst
  <2>4. sent[p] - m <= Window
    BY <1>1, <2>3 DEF IInv, SpanInv
  <2>5. QED
    BY <1>1, <2>4, SeqAssumption
<1>3. CASE ~(m < sent[p])
  BY <1>1, <1>3, SeqAssumption
<1>4. QED
  BY <1>2, <1>3

(* A datagram built from a queued or new message satisfies NetInv, and its *)
(* fields have their types.                                                *)
LEMMA DatagramInv ==
    ASSUME IInv, NEW p \in Peers, NEW i \in Nat
    PROVE  /\ Datagram(p, i) \in [src : Peers, msg : Nat, ack : 0..(SeqMod - 1),
                                  bits : SUBSET (1..AckBits), ackOf : Nat]
           /\ Datagram(p, i).src = p
           /\ Datagram(p, i).msg = i
           /\ Datagram(p, i).ack = Seq(Datagram(p, i).ackOf)
           /\ Honest(p, Datagram(p, i).ackOf)
           /\ \A k \in Datagram(p, i).bits :
                 k <= Datagram(p, i).ackOf /\ Honest(p, Datagram(p, i).ackOf - k)
           /\ sent[Other(p)] - Datagram(p, i).ackOf <= Window + 1
<1>1. sent[Other(p)] - highest[p] <= Window + 1
  BY HighestSpan
<1>2. /\ recvSequence[p] = Seq(highest[p])
      /\ Honest(p, highest[p])
      /\ \A k \in recvAckBitfield[p] : k <= highest[p] /\ Honest(p, highest[p] - k)
  BY DEF IInv, AckInv
<1>3. /\ recvSequence[p] \in 0..(SeqMod - 1)
      /\ recvAckBitfield[p] \in SUBSET (1..AckBits)
      /\ highest[p] \in Nat
  BY DEF IInv, TypeOK
<1>4. QED
  BY <1>1, <1>2, <1>3 DEF Datagram

LEMMA SendIInv ==
    ASSUME IInv, NEW p \in Peers, Send(p)
    PROVE  IInv'
<1> DEFINE n == sent[p]
           d0 == Datagram(p, n)
<1>1. n \in Nat /\ Other(p) \in Peers /\ Other(p) # p /\ Other(Other(p)) = p
  BY OtherPeer DEF IInv, TypeOK
<1>2. network' \subseteq network \union {d0}
  BY TransmitSubset DEF Send
<1>3. /\ sent' = [sent EXCEPT ![p] = n + 1]
      /\ resendQueue' = [resendQueue EXCEPT ![p] = @ \union {n}]
      /\ fresh' = [fresh EXCEPT ![p] = @ \union {n}]
      /\ UNCHANGED <<recvSequence, recvAckBitfield, polling, delivered, highest>>
  BY DEF Send
<1>4. \A i \in Mentioned(p) : n - i < Window
  BY DEF Send
<1>5. TypeOK'
  <2>1. d0 \in [src : Peers, msg : Nat, ack : 0..(SeqMod - 1),
                bits : SUBSET (1..AckBits), ackOf : Nat]
    BY <1>1, DatagramInv
  <2>2. network' \subseteq [src : Peers, msg : Nat, ack : 0..(SeqMod - 1),
                            bits : SUBSET (1..AckBits), ackOf : Nat]
    BY <1>2, <2>1 DEF IInv, TypeOK
  <2>3. QED
    BY <1>1, <1>3, <2>2 DEF IInv, TypeOK
<1>6. SentInv'
  BY <1>1, <1>3, OtherPeer DEF IInv, SentInv, TypeOK
<1>7. AckInv'
  BY <1>3 DEF IInv, AckInv, Honest
<1>8. \A q, i : Honest(q, i)' <=> Honest(q, i)
  BY <1>3 DEF Honest
<1>9. \A q \in Peers : sent[q] \in Nat /\ sent'[q] \in Nat /\ sent'[q] >= sent[q]
  BY <1>1, <1>3 DEF IInv, TypeOK
<1>10. \A d \in network : /\ d.src \in Peers /\ d.msg \in Nat /\ d.ackOf \in Nat
                          /\ d.bits \subseteq Nat
  <2>1. \A d \in network : d \in [src : Peers, msg : Nat, ack : 0..(SeqMod - 1),
                                  bits : SUBSET (1..AckBits), ackOf : Nat]
    BY DEF IInv, TypeOK
  <2>2. QED
    BY <2>1, SeqAssumption
<1>11. NetInv'
  <2> SUFFICES ASSUME NEW d \in network'
               PROVE  /\ d.msg < sent'[d.src]
                      /\ d.ack = Seq(d.ackOf)
                      /\ Honest(d.src, d.ackOf)'
                      /\ \A k \in d.bits :
                            k <= d.ackOf /\ Honest(d.src, d.ackOf - k)'
    BY DEF NetInv
  <2>1. CASE d \in network
    BY <1>8, <1>9, <1>10, <2>1 DEF IInv, NetInv
  <2>2. CASE d = d0
    <3>1. d0.msg = n /\ d0.src = p /\ sent'[p] = n + 1
      BY <1>1, <1>3, DatagramInv DEF IInv, TypeOK
    <3>2. /\ d0.ack = Seq(d0.ackOf)
          /\ Honest(p, d0.ackOf)
          /\ \A k \in d0.bits : k <= d0.ackOf /\ Honest(p, d0.ackOf - k)
      BY <1>1, DatagramInv
    <3>3. QED
      BY <1>1, <1>8, <2>2, <3>1, <3>2
  <2>3. QED
    BY <1>2, <2>1, <2>2
<1>12. SpanInv'
  <2>1. \A q \in Peers : \A i \in resendQueue'[q] : sent'[q] - i <= Window
    <3>1. \A i \in resendQueue[p] : n - i < Window /\ i \in Nat
      BY <1>4 DEF Mentioned, From, IInv, TypeOK
    <3>2. Window > 0 \/ Window = 0
      BY SeqAssumption
    <3>3. QED
      BY <1>1, <1>3, <3>1, SeqAssumption DEF IInv, SpanInv, TypeOK
  <2>2. \A d \in network' : sent'[d.src] - d.msg <= Window
    <3>1. \A d \in network : d.src = p => n - d.msg < Window
      BY <1>4 DEF Mentioned, From
    <3>2. d0.src = p /\ d0.msg = n
      BY <1>1, DatagramInv
    <3>3. \A d \in network : sent'[d.src] - d.msg <= Window
      BY <1>1, <1>3, <1>10, <3>1, SeqAssumption DEF IInv, SpanInv, TypeOK
    <3>4. QED
      BY <1>1, <1>2, <1>3, <3>2, <3>3, SeqAssumption DEF IInv, TypeOK
  <2>3. \A d \in network' : sent'[Other(d.src)] - d.ackOf <= Window + 1
    <3>1. \A d \in network : d.src = Other(p) => n - d.ackOf < Window
      BY <1>4 DEF Mentioned, From
    <3>2. d0.src = p /\ sent[Other(p)] - d0.ackOf <= Window + 1
      BY <1>1, DatagramInv
    <3>3. ASSUME NEW d \in network
          PROVE  sent'[Other(d.src)] - d.ackOf <= Window + 1
      <4>1. d.src \in Peers /\ d.ackOf \in Nat /\ Other(Other(d.src)) = d.src
            /\ Other(d.src) \in Peers
        BY <1>10, OtherPeer
      <4>2. CASE Other(d.src) = p
        BY <1>1, <1>3, <3>1, <4>1, <4>2, SeqAssumption DEF IInv, TypeOK
      <4>3. CASE Other(d.src) # p
        BY <1>3, <4>1, <4>3 DEF IInv, SpanInv, TypeOK
      <4>4. QED
        BY <4>2, <4>3
    <3>4. QED
      BY <1>1, <1>2, <1>3, <3>2, <3>3 DEF IInv, TypeOK
  <2>4. QED
    BY <2>1, <2>2, <2>3 DEF SpanInv
<1>13. NoneLostAfterFirst'
  <2> SUFFICES ASSUME NEW q \in Peers, NEW i \in Unreceived(q)', i # 0
               PROVE  i \in resendQueue'[q]
    BY DEF NoneLostAfterFirst
  <2>1. CASE i \in Unreceived(q)
    BY <1>1, <1>3, <2>1 DEF IInv, NoneLostAfterFirst, TypeOK
  <2>2. CASE i \notin Unreceived(q)
    <3>1. q = p /\ i = n
      BY <1>1, <1>3, <2>2 DEF Unreceived, IInv, TypeOK
    <3>2. QED
      BY <1>1, <1>3, <3>1 DEF IInv, TypeOK
  <2>3. QED
    BY <2>1, <2>2
<1>14. QED
  BY <1>5, <1>6, <1>7, <1>11, <1>12, <1>13 DEF IInv

LEMMA PollBeginIInv ==
    ASSUME IInv, NEW p \in Peers, PollBegin(p)
    PROVE  IInv'
<1> DEFINE D == {Datagram(p, i) : i \in Due(p)}
<1>1. network' \subseteq network \union D
  BY TransmitSubset DEF PollBegin
<1>2. /\ fresh' = [fresh EXCEPT ![p] = resendQueue[p]]
      /\ polling' = [polling EXCEPT ![p] = TRUE]
      /\ UNCHANGED <<sent, recvSequence, recvAckBitfield, resendQueue,
                     delivered, highest>>
  BY DEF PollBegin
<1>3. \A i \in Due(p) : /\ i \in Nat /\ i < sent[p] /\ sent[p] - i <= Window
  BY DEF Due, IInv, TypeOK, SentInv, SpanInv
<1>4. ASSUME NEW d \in D
      PROVE  /\ d \in [src : Peers, msg : Nat, ack : 0..(SeqMod - 1),
                       bits : SUBSET (1..AckBits), ackOf : Nat]
             /\ d.msg < sent[d.src]
             /\ d.ack = Seq(d.ackOf)
             /\ Honest(d.src, d.ackOf)
             /\ \A k \in d.bits : k <= d.ackOf /\ Honest(d.src, d.ackOf - k)
             /\ sent[d.src] - d.msg <= Window
             /\ sent[Other(d.src)] - d.ackOf <= Window + 1
  <2>1. PICK i \in Due(p) : d = Datagram(p, i)
    OBVIOUS
  <2>2. i \in Nat /\ d.src = p /\ d.msg = i
    BY <1>3, <2>1, DatagramInv
  <2>3. QED
    BY <1>3, <2>1, <2>2, DatagramInv
<1>5. TypeOK'
  <2>1. network' \subseteq [src : Peers, msg : Nat, ack : 0..(SeqMod - 1),
                            bits : SUBSET (1..AckBits), ackOf : Nat]
    BY <1>1, <1>4 DEF IInv, TypeOK
  <2>2. QED
    BY <1>2, <2>1 DEF IInv, TypeOK
<1>6. SentInv'
  BY <1>2 DEF IInv, SentInv, TypeOK
<1>7. AckInv'
  BY <1>2 DEF IInv, AckInv, Honest
<1>8. NetInv'
  <2> SUFFICES ASSUME NEW d \in network'
               PROVE  /\ d.msg < sent[d.src]
                      /\ d.ack = Seq(d.ackOf)
                      /\ Honest(d.src, d.ackOf)
                      /\ \A k \in d.bits :
                            k <= d.ackOf /\ Honest(d.src, d.ackOf - k)
    BY <1>2 DEF NetInv, Honest
  <2>1. CASE d \in network
    BY <2>1 DEF IInv, NetInv
  <2>2. CASE d \in D
    BY <1>4, <2>2
  <2>3. QED
    BY <1>1, <2>1, <2>2
<1>9. SpanInv'
  BY <1>1, <1>2, <1>4 DEF IInv, SpanInv
<1>10. NoneLostAfterFirst'
  BY <1>2 DEF IInv, NoneLostAfterFirst, Unreceived
<1>11. QED
  BY <1>5, <1>6, <1>7, <1>8, <1>9, <1>10 DEF IInv

(* Expire and PollEnd add nothing to the queues or the network.            *)
LEMMA QuietIInv ==
    ASSUME IInv, TypeOK',
           UNCHANGED <<sent, recvSequence, recvAckBitfield, resendQueue,
                       delivered, highest>>,
           network' \subseteq network,
           \A p \in Peers : fresh'[p] \subseteq fresh[p]
    PROVE  IInv'
<1>1. SentInv' /\ AckInv' /\ NetInv' /\ SpanInv' /\ NoneLostAfterFirst'
  BY DEF IInv, SentInv, AckInv, NetInv, SpanInv, Honest,
         NoneLostAfterFirst, Unreceived
<1>2. QED
  BY <1>1 DEF IInv

(* An ack that arrives removes from the queue only what it honestly names. *)
LEMMA AcksHonest ==
    ASSUME IInv, NEW p \in Peers, NEW d \in network, d.src = Other(p),
           NEW i \in resendQueue[p], Acks(d, i)
    PROVE  Honest(Other(p), i)
<1> DEFINE a == d.ackOf
<1>1. /\ a \in Nat /\ i \in Nat /\ sent[p] \in Nat
      /\ d.bits \subseteq 1..AckBits
      /\ Other(p) \in Peers /\ Other(Other(p)) = p
  <2>1. d \in [src : Peers, msg : Nat, ack : 0..(SeqMod - 1),
               bits : SUBSET (1..AckBits), ackOf : Nat]
    BY DEF IInv, TypeOK
  <2>2. QED
    BY <2>1, OtherPeer DEF IInv, TypeOK
<1>2. /\ d.ack = Seq(a)
      /\ Honest(Other(p), a)
      /\ \A k \in d.bits : k <= a /\ Honest(Other(p), a - k)
  BY DEF IInv, NetInv
<1>3. i < sent[p] /\ sent[p] - i <= Window /\ sent[p] - a <= Window + 1
  BY <1>1 DEF IInv, SentInv, SpanInv
<1>4. a < sent[p]
  <2>1. CASE a = 0
    BY <1>1, <1>3, <2>1
  <2>2. CASE a \in delivered[Other(p)]
    BY <2>2 DEF IInv, SentInv
  <2>3. QED
    BY <1>2, <2>1, <2>2 DEF Honest
<1>5. a - i <= Window /\ i - a <= Window
  BY <1>1, <1>3, <1>4, SeqAssumption
<1>6. /\ a >= i => SeqDiff(Seq(a), Seq(i)) = a - i
      /\ a < i => SeqDiff(Seq(a), Seq(i)) = SeqMod - (i - a)
      /\ Seq(i) = Seq(a) => i = a
  BY <1>1, <1>5, SeqCompare
<1>7. CASE Seq(i) = d.ack
  BY <1>2, <1>6, <1>7
<1>8. CASE SeqDiff(d.ack, Seq(i)) \in d.bits
  <2>1. CASE a >= i
    <3>1. (a - i) \in d.bits
      BY <1>2, <1>6, <1>8, <2>1
    <3>2. Honest(Other(p), a - (a - i))
      BY <1>2, <3>1
    <3>3. a - (a - i) = i
      BY <1>1
    <3>4. QED
      BY <3>2, <3>3
  <2>2. CASE a < i
    <3>1. (SeqMod - (i - a)) \in 1..AckBits
      BY <1>1, <1>2, <1>6, <1>8, <2>2
    <3>2. FALSE
      BY <1>1, <1>5, <3>1, HalfBound, SeqAssumption
    <3>3. QED
      BY <3>2
  <2>3. QED
    BY <1>1, <2>1, <2>2
<1>9. QED
  BY <1>7, <1>8 DEF Acks

(* updateAckState compares a received sequence as the indices compare.     *)
LEMMA NewerIff ==
    ASSUME IInv, NEW p \in Peers, NEW d \in network, d.src = Other(p)
    PROVE  /\ IsNewer(p, Seq(d.msg)) <=> d.msg > highest[p]
           /\ d.msg > highest[p] =>
                 SeqDiff(Seq(d.msg), recvSequence[p]) = d.msg - highest[p]
           /\ ~(d.msg > highest[p]) =>
                 SeqDiff(recvSequence[p], Seq(d.msg)) = highest[p] - d.msg
<1> DEFINE i == d.msg
           h == highest[p]
           q == Other(p)
<1>1. /\ i \in Nat /\ h \in Nat /\ q \in Peers /\ Other(q) = p /\ sent[q] \in Nat
  BY OtherPeer DEF IInv, TypeOK
<1>2. /\ recvSequence[p] = Seq(h)
      /\ i < sent[q] /\ sent[q] - i <= Window
      /\ sent[q] - h <= Window + 1
  BY HighestSpan DEF IInv, AckInv, NetInv, SpanInv
<1>3. h < sent[q]
  <2>1. CASE h = 0
    BY <1>1, <1>2, <2>1
  <2>2. CASE h \in delivered[p]
    BY <1>1, <2>2 DEF IInv, SentInv
  <2>3. QED
    BY <2>1, <2>2 DEF IInv, AckInv, Honest
<1>4. i - h <= Window /\ h - i <= Window
  BY <1>1, <1>2, <1>3, SeqAssumption
<1>5. /\ i >= h => SeqDiff(Seq(i), Seq(h)) = i - h
      /\ i < h => SeqDiff(Seq(i), Seq(h)) = SeqMod - (h - i)
      /\ h >= i => SeqDiff(Seq(h), Seq(i)) = h - i
  BY <1>1, <1>4, SeqCompare
<1>6. IsNewer(p, Seq(i)) <=> i > h
  BY <1>1, <1>2, <1>4, <1>5, HalfBound, SeqAssumption DEF IsNewer
<1>7. QED
  BY <1>1, <1>2, <1>5, <1>6

(* The ack state after one received datagram.                              *)
LEMMA UpdateAckStateInv ==
    ASSUME IInv, NEW p \in Peers, NEW d \in network, d.src = Other(p),
           UpdateAckState(p, Seq(d.msg), d.msg),
           delivered' = [delivered EXCEPT ![p] = @ \union {d.msg}]
    PROVE  /\ recvSequence' \in [Peers -> 0..(SeqMod - 1)]
           /\ recvAckBitfield' \in [Peers -> SUBSET (1..AckBits)]
           /\ highest' \in [Peers -> Nat]
           /\ AckInv'
           /\ highest'[p] >= highest[p]
           /\ \A q \in Peers \ {p} : highest'[q] = highest[q]
<1> DEFINE i == d.msg
           h == highest[p]
           bits == recvAckBitfield[p]
<1>1. /\ i \in Nat /\ h \in Nat /\ bits \subseteq 1..AckBits
      /\ delivered \in [Peers -> SUBSET Nat]
      /\ delivered'[p] = delivered[p] \union {i}
      /\ \A q \in Peers \ {p} : delivered'[q] = delivered[q]
      /\ delivered' \in [Peers -> SUBSET Nat]
  BY DEF IInv, TypeOK
<1>2. /\ recvSequence[p] = Seq(h)
      /\ Honest(p, h)
      /\ \A j \in delivered[p] : j <= h
      /\ \A k \in bits : k <= h /\ Honest(p, h - k)
  BY DEF IInv, AckInv
<1>3. \A q \in Peers, j \in Nat : Honest(q, j) => Honest(q, j)'
  BY <1>1 DEF Honest
<1>4. Honest(p, i)'
  BY <1>1 DEF Honest
<1>5. \A q \in Peers \ {p} :
         /\ recvSequence'[q] = recvSequence[q]
         /\ recvAckBitfield'[q] = recvAckBitfield[q]
         /\ highest'[q] = highest[q]
  BY DEF UpdateAckState, IInv, TypeOK
<1>6. CASE i > h
  <2> DEFINE diff == i - h
  <2>1. IsNewer(p, Seq(i)) /\ SeqDiff(Seq(i), recvSequence[p]) = diff
    BY <1>6, NewerIff
  <2>2. /\ recvSequence' = [recvSequence EXCEPT ![p] = Seq(i)]
        /\ highest' = [highest EXCEPT ![p] = i]
        /\ recvAckBitfield' = [recvAckBitfield EXCEPT ![p] = ShiftedBits(bits, diff)]
    BY <2>1 DEF UpdateAckState, IInv, TypeOK
  <2>3. /\ recvSequence'[p] = Seq(i) /\ highest'[p] = i
        /\ recvAckBitfield'[p] = ShiftedBits(bits, diff)
    BY <2>2 DEF IInv, TypeOK
  <2>4. ShiftedBits(bits, diff) \subseteq 1..AckBits
    BY <1>1, <1>6, SeqAssumption DEF ShiftedBits
  <2>5. ASSUME NEW b \in ShiftedBits(bits, diff)
        PROVE  b <= i /\ Honest(p, i - b)'
    <3>1. CASE b = diff
      <4>1. b <= i /\ i - b = h
        BY <1>1, <3>1
      <4>2. QED
        BY <1>1, <1>2, <1>3, <4>1
    <3>2. CASE b # diff
      <4>1. PICK k \in bits : b = k + diff
        BY <2>5, <3>2 DEF ShiftedBits
      <4>2. k \in Nat /\ k <= h /\ Honest(p, h - k)
        BY <1>1, <1>2, SeqAssumption
      <4>3. i - b = h - k /\ b <= i /\ h - k \in Nat
        BY <1>1, <4>1, <4>2
      <4>4. QED
        BY <1>3, <4>2, <4>3
    <3>3. QED
      BY <3>1, <3>2
  <2>6. \A j \in delivered'[p] : j <= i
    BY <1>1, <1>2, <1>6
  <2>7. AckInv'
    BY <1>1, <1>3, <1>4, <1>5, <2>3, <2>5, <2>6 DEF IInv, AckInv, Honest
  <2>8. QED
    BY <1>1, <1>5, <1>6, <2>2, <2>3, <2>4, <2>7, SeqType DEF IInv, TypeOK
<1>7. CASE ~(i > h)
  <2> DEFINE age == h - i
  <2>1. ~IsNewer(p, Seq(i)) /\ SeqDiff(recvSequence[p], Seq(i)) = age
    BY <1>7, NewerIff
  <2>2. /\ recvSequence' = recvSequence
        /\ highest' = highest
        /\ recvAckBitfield' = [recvAckBitfield EXCEPT ![p] =
                                  bits \union ({age} \cap (1..AckBits))]
    BY <2>1 DEF UpdateAckState
  <2>3. recvAckBitfield'[p] = bits \union ({age} \cap (1..AckBits))
    BY <2>2 DEF IInv, TypeOK
  <2>4. age <= h /\ h - age = i
    BY <1>1, <1>7
  <2>5. ASSUME NEW b \in recvAckBitfield'[p]
        PROVE  b <= h /\ Honest(p, h - b)'
    <3>1. CASE b \in bits
      <4>1. b \in Nat /\ b <= h /\ Honest(p, h - b) /\ h - b \in Nat
        BY <1>1, <1>2, <3>1, SeqAssumption
      <4>2. QED
        BY <1>3, <2>2, <4>1
    <3>2. CASE b = age
      BY <1>4, <2>2, <2>4, <3>2
    <3>3. QED
      BY <2>3, <2>5, <3>1, <3>2
  <2>6. \A j \in delivered'[p] : j <= h
    BY <1>1, <1>2, <1>7
  <2>7. AckInv'
    BY <1>1, <1>3, <1>5, <2>2, <2>5, <2>6 DEF IInv, AckInv, Honest
  <2>8. QED
    BY <1>1, <2>2, <2>7 DEF IInv, TypeOK
<1>8. QED
  BY <1>6, <1>7

LEMMA ReceiveIInv ==
    ASSUME IInv, NEW p \in Peers, NEW d \in network, Receive(p, d)
    PROVE  IInv'
<1> DEFINE q == Other(p)
           i == d.msg
<1>1. /\ q \in Peers /\ Other(q) = p /\ q # p
      /\ i \in Nat /\ i < sent[q] /\ d.src = q
  BY OtherPeer DEF IInv, TypeOK, NetInv, Receive
<1>2. /\ resendQueue' = [resendQueue EXCEPT ![p] = {j \in @ : ~Acks(d, j)}]
      /\ fresh' = [fresh EXCEPT ![p] = {j \in @ : ~Acks(d, j)}]
      /\ delivered' = [delivered EXCEPT ![p] = @ \union {i}]
      /\ network' \subseteq network
      /\ UNCHANGED <<sent, polling>>
  BY DEF Receive
<1>3. /\ recvSequence' \in [Peers -> 0..(SeqMod - 1)]
      /\ recvAckBitfield' \in [Peers -> SUBSET (1..AckBits)]
      /\ highest' \in [Peers -> Nat]
      /\ AckInv'
  BY <1>2, UpdateAckStateInv DEF Receive
<1>4. TypeOK'
  BY <1>1, <1>2, <1>3 DEF IInv, TypeOK
<1>5. /\ \A r \in Peers : delivered[r] \subseteq delivered'[r]
      /\ delivered'[p] = delivered[p] \union {i}
      /\ delivered'[q] = delivered[q]
  BY <1>1, <1>2 DEF IInv, TypeOK
<1>6. /\ \A r \in Peers : resendQueue'[r] \subseteq resendQueue[r]
      /\ resendQueue'[p] = {j \in resendQueue[p] : ~Acks(d, j)}
      /\ resendQueue'[q] = resendQueue[q]
      /\ fresh'[p] = {j \in fresh[p] : ~Acks(d, j)}
      /\ fresh'[q] = fresh[q]
  BY <1>1, <1>2 DEF IInv, TypeOK
<1>7. \A r \in Peers : r = p \/ r = q
  BY DEF Peers, Other
<1>8. SentInv'
  <2>1. \A r \in Peers : \A j \in delivered'[Other(r)] : j < sent[r]
    BY <1>1, <1>5, <1>7 DEF IInv, SentInv
  <2>2. QED
    BY <1>2, <1>6, <1>7, <2>1 DEF IInv, SentInv
<1>9. \A r \in Peers : \A j : Honest(r, j) => Honest(r, j)'
  BY <1>5 DEF Honest
<1>10. NetInv'
  <2> SUFFICES ASSUME NEW e \in network
               PROVE  /\ e.msg < sent[e.src]
                      /\ e.ack = Seq(e.ackOf)
                      /\ Honest(e.src, e.ackOf)'
                      /\ \A k \in e.bits :
                            k <= e.ackOf /\ Honest(e.src, e.ackOf - k)'
    BY <1>2 DEF NetInv
  <2>1. e.src \in Peers
    BY DEF IInv, TypeOK
  <2>2. QED
    BY <1>9, <2>1 DEF IInv, NetInv
<1>11. SpanInv'
  BY <1>2, <1>6 DEF IInv, SpanInv
<1>12. NoneLostAfterFirst'
  <2> SUFFICES ASSUME NEW r \in Peers, NEW j \in Unreceived(r)', j # 0
               PROVE  j \in resendQueue'[r]
    BY DEF NoneLostAfterFirst
  <2>1. j \in Unreceived(r) /\ j \notin delivered'[Other(r)]
    BY <1>2, <1>5, OtherPeer DEF Unreceived
  <2>2. j \in resendQueue[r]
    BY <2>1 DEF IInv, NoneLostAfterFirst
  <2>3. CASE r = q
    BY <1>6, <2>2, <2>3
  <2>4. CASE r = p
    <3>1. ~Honest(Other(p), j)
      BY <2>1, <2>4 DEF Honest, Unreceived
    <3>2. ~Acks(d, j)
      BY <1>1, <2>2, <2>4, <3>1, AcksHonest
    <3>3. QED
      BY <1>6, <2>2, <2>4, <3>2
  <2>5. QED
    BY <1>7, <2>3, <2>4
<1>13. QED
  BY <1>3, <1>4, <1>8, <1>10, <1>11, <1>12 DEF IInv

LEMMA NextIInv == IInv /\ [Next]_vars => IInv'
<1>1. SUFFICES ASSUME IInv, [Next]_vars
               PROVE  IInv'
  OBVIOUS
<1>2. ASSUME NEW p \in Peers, Send(p) PROVE IInv'
  BY <1>1, <1>2, SendIInv
<1>3. ASSUME NEW p \in Peers, PollBegin(p) PROVE IInv'
  BY <1>1, <1>3, PollBeginIInv
<1>4. ASSUME NEW p \in Peers, PollEnd(p) PROVE IInv'
  <2>1. TypeOK'
    BY <1>1, <1>4 DEF IInv, TypeOK, PollEnd
  <2>2. QED
    BY <1>1, <1>4, <2>1, QuietIInv DEF PollEnd
<1>5. ASSUME NEW p \in Peers, NEW i \in fresh[p], Expire(p, i) PROVE IInv'
  <2>1. TypeOK' /\ \A r \in Peers : fresh'[r] \subseteq fresh[r]
    BY <1>1, <1>5 DEF IInv, TypeOK, Expire
  <2>2. QED
    BY <1>1, <1>5, <2>1, QuietIInv DEF Expire
<1>6. ASSUME NEW p \in Peers, NEW d \in network, Receive(p, d) PROVE IInv'
  BY <1>1, <1>6, ReceiveIInv
<1>7. ASSUME UNCHANGED vars PROVE IInv'
  <2>1. TypeOK'
    BY <1>1, <1>7 DEF IInv, TypeOK, vars
  <2>2. QED
    BY <1>1, <1>7, <2>1, QuietIInv DEF vars
<1>8. QED
  BY <1>1, <1>2, <1>3, <1>4, <1>5, <1>6, <1>7 DEF Next

(* The strengthening that carries every theorem below.                     *)
THEOREM Invariance == Spec => []IInv
<1>1. Init => IInv
  BY InitIInv
<1>2. IInv /\ [Next]_vars => IInv'
  BY NextIInv
<1>3. QED
  BY <1>1, <1>2, PTL DEF Spec

(* The state stays within its types, the 16-bit and 32-bit fields          *)
(* included.                                                               *)
THEOREM TypeCorrect == Spec => []TypeOK
<1>1. IInv => TypeOK
  BY DEF IInv
<1>2. QED
  BY <1>1, Invariance, PTL

(* No message after the first leaves the resend queue before the peer has  *)
(* received it, however many messages are sent.                            *)
THEOREM NoneLost == Spec => []NoneLostAfterFirst
<1>1. IInv => NoneLostAfterFirst
  BY DEF IInv
<1>2. QED
  BY <1>1, Invariance, PTL

(* No header in flight acknowledges an unreceived message but the first.   *)
THEOREM AcksAreHonest == Spec => []HonestAcks
<1>1. ASSUME IInv PROVE HonestAcks
  <2>1. ASSUME NEW d \in network, NEW i \in resendQueue[Other(d.src)], Acks(d, i)
        PROVE  i = 0 \/ i \in delivered[d.src]
    <3>1. d.src \in Peers /\ Other(d.src) \in Peers /\ Other(Other(d.src)) = d.src
      BY <1>1, OtherPeer DEF IInv, TypeOK
    <3>2. QED
      BY <1>1, <2>1, <3>1, AcksHonest DEF Honest
  <2>2. QED
    BY <2>1 DEF HonestAcks
<1>2. QED
  BY <1>1, Invariance, PTL

(* The receiver's ack state only moves forward.                            *)
THEOREM AckStateMonotone == Spec => AckStateAdvances
<1> DEFINE Advance == \A p \in Peers : /\ highest'[p] >= highest[p]
                                       /\ recvSequence'[p] # recvSequence[p]
                                             => highest'[p] > highest[p]
<1>1. ASSUME IInv, IInv', [Next]_vars PROVE [Advance]_vars
  <2>1. CASE UNCHANGED <<highest, recvSequence>>
    BY <1>1, <2>1 DEF IInv, TypeOK
  <2>2. ASSUME NEW p \in Peers, NEW d \in network, Receive(p, d)
        PROVE  Advance
    <3>1. /\ highest'[p] >= highest[p]
          /\ \A r \in Peers \ {p} : highest'[r] = highest[r]
      BY <1>1, <2>2, UpdateAckStateInv DEF Receive
    <3>2. \A r \in Peers : /\ recvSequence[r] = Seq(highest[r])
                           /\ recvSequence'[r] = Seq(highest'[r])
                           /\ highest[r] \in Nat /\ highest'[r] \in Nat
      BY <1>1 DEF IInv, AckInv, TypeOK
    <3>3. QED
      BY <3>1, <3>2
  <2>3. QED
    BY <1>1, <2>1, <2>2 DEF Next, vars, Send, PollBegin, PollEnd, Expire
<1>2. [][Advance]_vars <=> AckStateAdvances
  BY PTL DEF AckStateAdvances
<1>3. QED
  BY <1>1, <1>2, Invariance, PTL DEF Spec

(* One received datagram keeps every recently received message in the ack  *)
(* state, and adds itself.                                                 *)
LEMMA ReceiveRecent ==
    ASSUME IInv, AckedWithin(AckBits), NEW p \in Peers, NEW d \in network, Receive(p, d)
    PROVE  AckedWithin(AckBits)'
<1> DEFINE i == d.msg
           h == highest[p]
           bits == recvAckBitfield[p]
<1>1. /\ i \in Nat /\ h \in Nat /\ bits \subseteq 1..AckBits /\ AckBits \in Nat
      /\ delivered[p] \subseteq Nat
      /\ delivered'[p] = delivered[p] \union {i}
      /\ \A q \in Peers \ {p} : delivered'[q] = delivered[q]
      /\ \A j \in delivered[p] : j <= h
  BY SeqAssumption DEF IInv, TypeOK, AckInv, Receive
<1>2. \A j \in delivered[p] : h - j < AckBits => j = h \/ (h - j) \in bits
  BY DEF AckedWithin
<1>3. \A q \in Peers \ {p} :
         /\ recvAckBitfield'[q] = recvAckBitfield[q]
         /\ highest'[q] = highest[q]
  BY DEF Receive, UpdateAckState, IInv, TypeOK
<1>4. SUFFICES ASSUME NEW j \in delivered'[p], highest'[p] - j < AckBits
               PROVE  j = highest'[p] \/ (highest'[p] - j) \in recvAckBitfield'[p]
  BY <1>1, <1>3 DEF AckedWithin
<1>5. j \in Nat
  BY <1>1
<1>6. CASE i > h
  <2> DEFINE diff == i - h
  <2>1. IsNewer(p, Seq(i)) /\ SeqDiff(Seq(i), recvSequence[p]) = diff
    BY <1>6, NewerIff DEF Receive
  <2>2. /\ highest'[p] = i
        /\ recvAckBitfield'[p] = ShiftedBits(bits, diff)
    BY <2>1 DEF Receive, UpdateAckState, IInv, TypeOK
  <2>3. CASE j = i
    BY <2>2, <2>3
  <2>4. CASE j # i
    <3>1. j \in delivered[p] /\ j <= h /\ i - j < AckBits
      BY <1>1, <1>4, <2>2, <2>4
    <3>2. diff < AckBits /\ h - j < AckBits /\ i - j = (h - j) + diff
      BY <1>1, <1>5, <1>6, <3>1
    <3>3. CASE j = h
      BY <2>2, <3>2, <3>3 DEF ShiftedBits
    <3>4. CASE (h - j) \in bits
      <4>1. (h - j) + diff <= AckBits
        BY <1>1, <1>5, <3>1, <3>2
      <4>2. (h - j) + diff \in ShiftedBits(bits, diff)
        BY <3>2, <3>4, <4>1 DEF ShiftedBits
      <4>3. QED
        BY <2>2, <3>2, <4>2
    <3>5. QED
      BY <1>2, <3>1, <3>2, <3>3, <3>4
  <2>5. QED
    BY <2>3, <2>4
<1>7. CASE ~(i > h)
  <2> DEFINE age == h - i
  <2>1. ~IsNewer(p, Seq(i)) /\ SeqDiff(recvSequence[p], Seq(i)) = age
    BY <1>7, NewerIff DEF Receive
  <2>2. /\ highest'[p] = h
        /\ recvAckBitfield'[p] = bits \union ({age} \cap (1..AckBits))
    BY <2>1 DEF Receive, UpdateAckState, IInv, TypeOK
  <2>3. CASE j \in delivered[p]
    BY <1>2, <1>4, <2>2, <2>3
  <2>4. CASE j = i /\ j # h
    <3>1. age \in 1..AckBits
      BY <1>1, <1>4, <1>7, <2>2, <2>4
    <3>2. QED
      BY <2>2, <2>4, <3>1
  <2>5. QED
    BY <1>1, <2>2, <2>3, <2>4
<1>8. QED
  BY <1>6, <1>7

(* Every message received within the width of the bit field is             *)
(* acknowledged by the next header sent.                                   *)
THEOREM RecentIsAcked == Spec => []RecentAcked
<1>1. Init => AckedWithin(AckBits)
  BY DEF Init, AckedWithin
<1>2. ASSUME IInv, AckedWithin(AckBits), [Next]_vars PROVE AckedWithin(AckBits)'
  <2>1. CASE UNCHANGED <<delivered, highest, recvAckBitfield>>
    BY <1>2, <2>1 DEF AckedWithin
  <2>2. ASSUME NEW p \in Peers, NEW d \in network, Receive(p, d)
        PROVE  AckedWithin(AckBits)'
    BY <1>2, <2>2, ReceiveRecent
  <2>3. QED
    BY <1>2, <2>1, <2>2 DEF Next, vars, Send, PollBegin, PollEnd, Expire
<1>3. IInv /\ AckedWithin(AckBits) => RecentAcked
  BY DEF IInv, RecentAcked
<1>4. QED
  BY <1>1, <1>2, <1>3, Invariance, PTL DEF Spec
==============================================================================
