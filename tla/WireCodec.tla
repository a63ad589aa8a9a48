------------------------------ MODULE WireCodec ------------------------------
(***************************************************************************)
(* How networking turns values into bytes and back: BitWriter, BitReader   *)
(* (Serializer.cpp) for input messages, ByteWriter, ByteReader             *)
(* (BitStreamImpl.cpp) for shot claims and the snapshots of                *)
(* ReplicationSystem, and SnapshotEncoder, SnapshotDecoder.  Widths are    *)
(* the code's; real numbers are integers in units named where they occur,  *)
(* and no value reaches 2^31.                                              *)
(***************************************************************************)
EXTENDS Integers, Sequences, SequencesExt

Pow2 == [n \in 0..30 |-> 2^n]
Bit(v, i) == IF i > 30 THEN 0 ELSE (v \div Pow2[i]) % 2
Number(bits) == LET from[i \in 1..Len(bits) + 1] ==
                        IF i > Len(bits) THEN 0 ELSE bits[i] + 2 * from[i + 1]
                IN  from[1]
Signed(v, n) == IF v >= Pow2[n - 1] THEN v - Pow2[n] ELSE v
Clamp(v, lo, hi) == IF v < lo THEN lo ELSE IF v > hi THEN hi ELSE v
Near(a, b, slack) == a - b <= slack /\ b - a <= slack
------------------------------------------------------------------------------
(* BitWriter over a buffer of so many bytes.  What does not fit sets the   *)
(* flag, but the bits that do are written.                                 *)
Writer(bytes) == [bits |-> << >>, room |-> 8 * bytes, overflow |-> FALSE]
WriteBits(w, v, n) ==
    LET k == Clamp(n, 0, w.room)
    IN  [bits |-> w.bits \o [i \in 1..k |-> Bit(v, i - 1)], room |-> w.room - k,
         overflow |-> w.overflow \/ k < n]
WrittenData(w) == w.bits \o [i \in 1..((-Len(w.bits)) % 8) |-> 0]
AlignedWriter(w) == WriteBits(w, 0, (-Len(w.bits)) % 8)

(* BitReader: what is left, the values read so far, and whether a read ran *)
(* over the end, which gives 0 and uses the rest up.                       *)
BitReader(bits) == [in |-> bits, out |-> << >>, overflow |-> FALSE]
ReadBits(r, n) ==
    IF n <= Len(r.in)
      THEN [r EXCEPT !.in = SubSeq(@, n + 1, Len(@)), !.out = Append(@, Number(SubSeq(r.in, 1, n)))]
      ELSE [in |-> << >>, out |-> Append(r.out, 0), overflow |-> TRUE]
(* A byte boundary of the input is one of what is left of it.              *)
AlignedReader(r) == [ReadBits(r, Len(r.in) % 8) EXCEPT !.out = r.out]

(* Seven bits to a byte, the eighth says that more follow.                 *)
VarintBytes(v) ==
    LET more == {k \in 1..4 : v >= Pow2[7 * k]}
        size == CHOOSE k \in 1..5 : k \notin more /\ 1..k - 1 \subseteq more
    IN  [k \in 1..size |-> ((v \div Pow2[7 * (k - 1)]) % 128) + (IF k < size THEN 128 ELSE 0)]
WriteVarint(w, v) == FoldLeft(LAMBDA x, byte : WriteBits(x, byte, 8), w, VarintBytes(v))
ReadVarint(r) ==
    LET Group(s, k) == IF s.done THEN s
                       ELSE LET one == ReadBits([s.r EXCEPT !.out = << >>], 8)
                                byte == one.out[1]
                            IN  [r |-> one, v |-> s.v + ((byte % 128) * Pow2[7 * (k - 1)]), done |-> byte < 128]
        end == FoldLeft(Group, [r |-> r, v |-> 0, done |-> FALSE], <<1, 2, 3, 4, 5>>)
    IN  [end.r EXCEPT !.out = Append(r.out, end.v)]

(* A coordinate on a grid of n bits; places are in quarters of a grid step.*)
Grid(v, min, n) == Clamp((2 * (v - min) + 4) \div 8, 0, Pow2[n] - 1)
OffGrid(g, min) == 4 * g + min
WriteVec3(w, v, min, n) == FoldLeft(LAMBDA x, a : WriteBits(x, Grid(a, min, n), n), w, v)
ReadVec3(r, min, n) == FoldLeft(LAMBDA x, i : LET y == ReadBits(x, n)
                                              IN  [y EXCEPT !.out = Append(Front(@), OffGrid(Last(@), min))],
                                r, <<1, 2, 3>>)

(* Unit quaternions <<x, y, z, w>>, in ten thousandths: the first largest  *)
(* component is left out, and made positive so that it can be put back.    *)
Square(n) == n * n
AbsOf(n) == IF n < 0 THEN -n ELSE n
LargestOf(q) == CHOOSE i \in 1..4 : /\ \A j \in 1..4 : AbsOf(q[j]) <= AbsOf(q[i])
                                    /\ \A j \in 1..i - 1 : AbsOf(q[j]) < AbsOf(q[i])
Upright(q) == IF q[LargestOf(q)] < 0 THEN [i \in 1..4 |-> -q[i]] ELSE q
Kept(q) == LET i == LargestOf(q) IN RemoveAt(Upright(q), i)
Missing(k) == LET s == 100000000 - Square(k[1]) - Square(k[2]) - Square(k[3])
              IN  CHOOSE n \in 0..10000 : /\ Square(n) <= s \/ n = 0
                                          /\ s < Square(n + 1)
PutBack(k, i) == InsertAt(k, i, Missing(k))

WriteQuat(w, q) ==
    LET Nine(c) == Clamp((2 * 511 * (c + 7071) + 14142) \div 28284, 0, 511)
    IN  WriteBits(FoldLeft(LAMBDA x, c : WriteBits(x, Nine(c), 9),
                           WriteBits(w, LargestOf(q) - 1, 2), Kept(q)), 0, 3)
ReadQuat(r) ==
    LET all == FoldLeft(ReadBits, [r EXCEPT !.out = << >>], <<2, 9, 9, 9, 3>>)
        kept == [i \in 1..3 |-> (all.out[i + 1] * 14142) \div 511 - 7071]
    IN  [all EXCEPT !.out = Append(r.out, PutBack(kept, all.out[1] + 1))]
------------------------------------------------------------------------------
(* An input frame in 127ths of full speed and hundredths of a degree.      *)
ToWire(f, tick) ==
    [tick |-> tick, moveX |-> Clamp(f.moveX, -127, 127), moveZ |-> Clamp(f.moveZ, -127, 127),
     yaw |-> Clamp(f.yaw, -32768, 32767), pitch |-> Clamp(f.pitch, -32768, 32767),
     buttons |-> f.held % 16, fireSerial |-> 0]

WriteInputMessage_Swapped(w, m) ==         \* mutant: not in the order they are read
    FoldLeft(LAMBDA x, f : WriteBits(x, f[1], f[2]), w,
             <<<<m.tick, 32>>, <<m.moveZ, 8>>, <<m.moveX, 8>>, <<m.yaw, 16>>, <<m.pitch, 16>>,
               <<m.buttons, 8>>, <<m.fireSerial, 8>>>>)
WriteInputMessage(w, m) ==
    FoldLeft(LAMBDA x, f : WriteBits(x, f[1], f[2]), w,
             <<<<m.tick, 32>>, <<m.moveX, 8>>, <<m.moveZ, 8>>, <<m.yaw, 16>>, <<m.pitch, 16>>,
               <<m.buttons, 8>>, <<m.fireSerial, 8>>>>)
ReadInputMessage(r) ==
    LET all == FoldLeft(ReadBits, [r EXCEPT !.out = << >>], <<32, 8, 8, 16, 16, 8, 8>>)
        v == all.out
    IN  [all EXCEPT !.out = Append(r.out,
            [tick |-> v[1], moveX |-> Signed(v[2], 8), moveZ |-> Signed(v[3], 8), yaw |-> Signed(v[4], 16),
             pitch |-> Signed(v[5], 16), buttons |-> v[6], fireSerial |-> v[7]])]
------------------------------------------------------------------------------
(* ByteWriter: numbers by the byte, the low one first.  A float's bits.    *)
LowBytes(v, n) == [k \in 1..n |-> IF k = 4 THEN v \div Pow2[24] ELSE (v \div Pow2[8 * (k - 1)]) % 256]
U8(v) == LowBytes(v, 1)
U16(v) == LowBytes(v, 2)
U32(v) == LowBytes(v, 4)

(* ByteReader: after a read that the input cannot serve all give 0.        *)
ByteReader(bytes) == [in |-> bytes, ok |-> TRUE, out |-> << >>]
Given(r, n) == [r EXCEPT !.in = SubSeq(@, n + 1, Len(@))]
ReadNumber(r, n) ==
    IF ~r.ok \/ n > Len(r.in) THEN [r EXCEPT !.ok = FALSE, !.out = Append(@, 0)]
    ELSE [Given(r, n) EXCEPT !.out = Append(@, FoldRight(LAMBDA b, v : 256 * v + b, SubSeq(r.in, 1, n), 0))]
ReadNumbers(r, sizes) == FoldLeft(ReadNumber, r, sizes)

(* HitscanValidationRequest: serial, tick, origin, direction, target.      *)
WriteRequest(q) == FlattenSeq([i \in 1..9 |-> U32(q[i])])
ReadRequest(bytes) == ReadNumbers(ByteReader(bytes), [i \in 1..9 |-> 4])

(* Transform and Health of a snapshot: three floats and the quaternion in  *)
(* three 16-bit parts of 7072; hit points and 255ths of the shield.        *)
Sixteen(c) == (IF c < 0 THEN -1 ELSE 1) * Clamp((AbsOf(c) * 32767) \div 7072, 0, 32767)
FromSixteen(e) == (Signed(e, 16) * 7072) \div 32767
WriteTransform(t) ==
    FlattenSeq([i \in 1..3 |-> U32(t.pos[i])] \o [i \in 1..3 |-> U16(Sixteen(Kept(t.rot)[i]) % 65536)])
    \o U8(LargestOf(t.rot) - 1)
ReadTransform(r) ==
    LET all == ReadNumbers([r EXCEPT !.out = << >>], <<4, 4, 4, 2, 2, 2, 1>>)
        kept == [i \in 1..3 |-> FromSixteen(all.out[i + 3])]
        index == IF all.out[7] < 3 THEN all.out[7] + 1 ELSE 4
    IN  [all EXCEPT !.out = Append(r.out, [pos |-> SubSeq(all.out, 1, 3), rot |-> PutBack(kept, index)])]
WriteHealth(h) == U16(Clamp(h.hp, 0, 65535)) \o U16(Clamp(h.max, 0, 65535)) \o U8(Clamp(h.shield, 0, 255))

(* buildSnapshot: the header, and of every entity with a network identity  *)
(* what it replicates; the header is read back by decodeHeader.            *)
WriteHeader(h) == U32(h.seq) \o U32(h.tick) \o U32(h.time) \o U16(h.count) \o U32(h.acked) \o U8(0)
WriteEntity(e) ==
    U32(e.netId) \o U8((IF e.moves THEN 1 ELSE 0) + (IF e.lives THEN 4 ELSE 0))
    \o (IF e.moves THEN WriteTransform(e.transform) ELSE << >>)
    \o (IF e.lives THEN WriteHealth(e.health) ELSE << >>)
BuildSnapshot(h, es) == WriteHeader([h EXCEPT !.count = Len(es) % 65536]) \o FlattenSeq([i \in DOMAIN es |-> WriteEntity(es[i])])
DecodeHeader(bytes) ==
    LET r == ReadNumbers(ByteReader(bytes), <<4, 4, 4, 2, 4, 1>>)
    IN  IF Len(bytes) < 19 THEN << >>
        ELSE [seq |-> r.out[1], tick |-> r.out[2], time |-> r.out[3], count |-> r.out[4], acked |-> r.out[5]]

(* The game mode's state goes into 256 bytes; their number into one.       *)
StateBlob(state) == LET n == Clamp(Len(state), 0, 256)
                    IN  [data |-> SubSeq(state, 1, n), size |-> n % 256]
------------------------------------------------------------------------------
(* SnapshotEncoder: entities [index, generation, mask, data], the mask a   *)
(* set of component ids below 256, laid out in 32 bytes.                   *)
MaskBytes(mask) ==
    [k \in 1..32 |-> FoldLeft(LAMBDA v, b : IF 8 * (k - 1) + b \in mask THEN v + Pow2[b] ELSE v,
                              0, <<0, 1, 2, 3, 4, 5, 6, 7>>)]
MaskOf(bytes) == {8 * (k - 1) + b : k \in DOMAIN bytes, b \in 0..7}
                    \cap {i \in 0..255 : Bit(bytes[(i \div 8) + 1], i % 8) = 1}
Encode(es) ==
    VarintBytes(Len(es)) \o FlattenSeq([i \in DOMAIN es |->
        VarintBytes(es[i].index) \o U32(es[i].generation) \o MaskBytes(es[i].mask)
        \o VarintBytes(Len(es[i].data)) \o es[i].data])

(* SnapshotDecoder: every read is bounded, and an error gives nothing.     *)
TakeVarint(r) ==
    LET ends == {k \in 1..5 : k <= Len(r.in) /\ r.in[k] < 128 /\ \A j \in 1..k - 1 : r.in[j] >= 128}
    IN  IF ~r.ok \/ ends = {} THEN [r EXCEPT !.ok = FALSE, !.out = Append(@, 0)]
        ELSE LET n == CHOOSE k \in ends : TRUE
             IN  [Given(r, n) EXCEPT !.out = Append(@, FoldRight(LAMBDA b, v : (128 * v) + (b % 128), SubSeq(r.in, 1, n), 0))]
TakeBytes(r, n) == IF ~r.ok \/ n > Len(r.in) THEN [r EXCEPT !.ok = FALSE, !.out = Append(@, << >>)]
                   ELSE [Given(r, n) EXCEPT !.out = Append(@, SubSeq(r.in, 1, n))]
TakeEntity(r) ==
    LET head == TakeBytes(ReadNumber(TakeVarint([r EXCEPT !.out = << >>]), 4), 32)
        size == TakeVarint(head)
        all  == TakeBytes(size, Last(size.out))
    IN  [all EXCEPT !.out = IF all.ok THEN Append(r.out, [index |-> all.out[1], generation |-> all.out[2],
                                                          mask |-> MaskOf(all.out[3]), data |-> all.out[5]])
                            ELSE << >>]
Decode(bytes) ==
    LET count == TakeVarint(ByteReader(bytes))
        all == FoldLeft(LAMBDA r, i : IF r.ok THEN TakeEntity(r) ELSE r,
                        [count EXCEPT !.out = << >>], [i \in 1..Last(count.out) |-> i])
    IN  all.out
------------------------------------------------------------------------------
(* Session: the bytes of a message, masked by the key when there is one.   *)
XorObfuscate(packet, key) ==
    IF key = << >> THEN packet
    ELSE [i \in DOMAIN packet |->
            Number([b \in 1..8 |-> (Bit(packet[i], b - 1) + Bit(key[((i - 1) % Len(key)) + 1], b - 1)) % 2])]

(* Packet.cpp: the ten bytes before a message; all zero if there are fewer.*)
WritePacketHeader(h) == U8(h.protocol) \o U8(h.flags) \o U16(h.sequence) \o U16(h.ack) \o U32(h.bits)
ReadPacketHeader(data) ==
    LET r == ReadNumbers(ByteReader(data), <<1, 1, 2, 2, 4>>)
        v == IF Len(data) < 10 THEN <<0, 0, 0, 0, 0>> ELSE r.out
    IN  [protocol |-> v[1], flags |-> v[2], sequence |-> v[3], ack |-> v[4], bits |-> v[5]]
------------------------------------------------------------------------------
Cuts(s) == {SubSeq(s, 1, n) : n \in 0..Len(s) - 1}
Frames == {[moveX |-> x, moveZ |-> z, yaw |-> y, pitch |-> p, held |-> h] :
             x \in {-127, 0, 300}, z \in {-1, 127}, y \in {-32768, 0, 40000}, p \in {-1, 18000}, h \in {0, 15, 255}}
Messages127 == {ToWire(f, t) : f \in Frames, t \in {0, 65536, 2147483647}}
Quats == {<<10000, 0, 0, 0>>, <<0, -10000, 0, 0>>, <<0, 0, 0, 10000>>, <<0, 0, -7071, 7071>>, <<7071, 0, -7071, 0>>,
          <<5000, 5000, 5000, 5000>>, <<-5000, 5000, -5000, 5000>>, <<5000, -5000, -5000, 5000>>, <<1000, -7000, 7000, 1000>>}
SameTurn(p, q, slack) == \E s \in {1, -1} : \A i \in 1..4 : Near(p[i], s * q[i], slack)
Entities1 == [index |-> 200, generation |-> 70000, mask |-> {0, 7, 8, 255}, data |-> <<1, 255>>]
Entities2 == [index |-> 0, generation |-> 0, mask |-> {}, data |-> << >>]

(* Serializer.h: "Callers MUST check overflow()".  A message that fits its *)
(* buffer is read back as it was, at any bit; of one that does not fit, or *)
(* of which a part is missing, writer and reader say so.                   *)
MessagesExact ==
    \A m \in Messages127, shift \in {0, 1, 7} :
        LET w == WriteInputMessage(WriteBits(Writer(13), 1, shift), m)
            r == ReadInputMessage(ReadBits(BitReader(WrittenData(w)), shift))
        IN  /\ ~w.overflow /\ ~r.overflow /\ Last(r.out) = m
            /\ AlignedWriter(w).bits = WrittenData(w) /\ AlignedReader(r).in = << >>
            /\ WriteInputMessage(Writer(11), m).overflow
            /\ ReadInputMessage(BitReader(WriteInputMessage(Writer(11), m).bits)).overflow
VarintsExact ==
    \A v \in {0, 1, 127, 128, 16383, 16384, 2097152, 268435455, 268435456, 2147483647} :
        /\ ReadVarint(BitReader(WriteVarint(Writer(5), v).bits)).out = <<v>>
        /\ \A cut \in Cuts(VarintBytes(v)) : ~TakeVarint(ByteReader(cut)).ok
        /\ WriteVarint(Writer(Len(VarintBytes(v)) - 1), v).overflow
PlacesExact ==
    \A a \in -10..70 :
        LET w == WriteVec3(Writer(2), <<a, 0, -a>>, -8, 4)
            r == ReadVec3(BitReader(w.bits), -8, 4)
        IN  \A i \in 1..3 : Near(r.out[i], Clamp(<<a, 0, -a>>[i], -8, 52), 2)
TurnsExact ==
    \A q \in Quats :
        /\ SameTurn(Last(ReadQuat(BitReader(WriteQuat(Writer(4), q).bits)).out), q, 60)
        /\ LET t == WriteTransform([pos |-> <<1, 2, 3>>, rot |-> q])
               back == Last(ReadTransform(ByteReader(t)).out)
           IN  Len(t) = 19 /\ back.pos = <<1, 2, 3>> /\ SameTurn(back.rot, q, 6)
SnapshotsExact ==
    LET h == [seq |-> 3, tick |-> 300, time |-> 77, count |-> 2, acked |-> 1]
        e == [netId |-> 9, moves |-> TRUE, lives |-> TRUE, transform |-> [pos |-> <<0, 0, 0>>, rot |-> <<0, 0, 0, 10000>>],
              health |-> [hp |-> 70000, max |-> 100, shield |-> 128]]
        bytes == BuildSnapshot(h, <<e, [e EXCEPT !.moves = FALSE]>>)
    IN  /\ DecodeHeader(bytes) = h /\ Len(bytes) = 19 + 29 + 10
        /\ \A n \in 0..18 : DecodeHeader(SubSeq(bytes, 1, n)) = << >>
        /\ \A es \in {<< >>, <<Entities1>>, <<Entities1, Entities2, Entities1>>} :
              Decode(Encode(es)) = es /\ \A cut \in Cuts(Encode(es)) : Decode(cut) = << >>
RequestsExact ==
    LET q == <<3, 2147483647, 5, 6, 7, 8, 9, 10, 300>>
    IN  /\ Len(WriteRequest(q)) = 36 /\ ReadRequest(WriteRequest(q)).out = q
        /\ \A cut \in Cuts(WriteRequest(q)) : ~ReadRequest(cut).ok
PacketsExact ==
    LET h == [protocol |-> 236, flags |-> 1, sequence |-> 65535, ack |-> 256, bits |-> 2147483647]
    IN  /\ ReadPacketHeader(WritePacketHeader(h)) = h
        /\ \A cut \in Cuts(WritePacketHeader(h)) : ReadPacketHeader(cut).protocol = 0
        /\ \A key \in {<< >>, <<255>>, <<1, 128, 77>>}, cut \in Cuts(WriteRequest(<<3, 2, 5, 6, 7, 8, 9, 10, 300>>)) :
              XorObfuscate(XorObfuscate(cut, key), key) = cut
        /\ \A n \in {0, 1, 255} : StateBlob([i \in 1..n |-> i]).size = n

(* What is written is what is read, field by field, whatever else is in    *)
(* the message and wherever it is cut off.                                 *)
CodecsExact == /\ MessagesExact /\ VarintsExact /\ PlacesExact /\ TurnsExact
               /\ SnapshotsExact /\ RequestsExact /\ PacketsExact
==============================================================================
