------------------------------- MODULE SaveFiles -------------------------------
(***************************************************************************)
(* What tools/SaveSystem puts into its files: payloads written and read    *)
(* field by field with ByteWriter and ByteReader, inside a container with  *)
(* a magic, the raw size and a checksum.  A file is a sequence of cells, a *)
(* number field (or a run of them that nothing tells apart) is one cell.   *)
(* A profile, a match record or a checkpoint is the sequence of its fields.*)
(***************************************************************************)
EXTENDS Integers, Sequences, SequencesExt

CONSTANT W16      \* how many values a uint16 has

ASSUME WidthAssumption == W16 \in Nat \ {0}

(* ByteWriter: a length goes through the width of its field.               *)
Size16(s) == <<Len(s) % W16>>
Text(s) == Size16(s) \o s         \* writeString
Blob(s) == <<Len(s)>> \o s        \* writeBlob
Flat(parts) ==
    LET last[k \in 0..Len(parts)] ==        \* the last k parts, one behind the other
            IF k = 0 THEN << >> ELSE parts[Len(parts) - k + 1] \o last[k - 1]
    IN  last[Len(parts)]
Each(Item(_), s) == Flat([n \in 1..Len(s) |-> Item(s[n])])

(* ByteReader: what is left of the input, whether every read so far was    *)
(* served, and the values read.                                            *)
Reader(bytes) == [in |-> bytes, ok |-> TRUE, out |-> << >>]
Value(r, v) == [r EXCEPT !.out = Append(@, v)]
Failed(r, v) == Value([r EXCEPT !.ok = FALSE], v)

ReadNum(r) == IF r.in = << >> THEN Failed(r, 0)
              ELSE Value([r EXCEPT !.in = Tail(@)], Head(r.in))

(* A length, and what follows when the length is known.                    *)
Sized(r, Body(_, _)) == LET size == ReadNum([r EXCEPT !.out = << >>])
                        IN  Body([size EXCEPT !.out = r.out], size.out[1])
Taken(r, n) == Value([r EXCEPT !.in = SubSeq(@, n + 1, Len(@))], SubSeq(r.in, 1, n))

ReadText(r) == Sized(r, LAMBDA b, n : IF b.ok /\ n <= Len(b.in) THEN Taken(b, n)
                                      ELSE Failed(b, << >>))

(* A blob or the data of a component: the room is made first, and stays    *)
(* zero when the bytes are not there.                                      *)
Zeros(n) == [i \in 1..n |-> 0]
ReadBlob(r) == Sized(r, LAMBDA b, n : IF n <= Len(b.in) THEN Taken(b, n)
                                      ELSE Failed(b, Zeros(n)))

(* A counted list: reading goes on while every read was served, and the    *)
(* item that failed is kept.                                               *)
ReadList(r, Item(_)) ==
    Sized(r, LAMBDA b, n :
        LET Next(l) == LET item == Item([l EXCEPT !.out = << >>])
                       IN  [item EXCEPT !.out = Append(l.out, item.out)]
            list[i \in 0..n] == IF i = 0 THEN [b EXCEPT !.out = << >>]
                                ELSE IF list[i - 1].ok THEN Next(list[i - 1]) ELSE list[i - 1]
        IN  [list[n] EXCEPT !.out = Append(b.out, list[n].out)])
------------------------------------------------------------------------------
(* PlayerProfile: account, name, statistics, settings, two blobs.          *)
SerializeProfile_Swapped(p) ==     \* mutant: not in the order they are read
    <<p[1]>> \o Text(p[2]) \o <<p[4], p[3]>> \o Blob(p[5]) \o Blob(p[6])
SerializeProfile(p) ==
    <<p[1]>> \o Text(p[2]) \o <<p[3], p[4]>> \o Blob(p[5]) \o Blob(p[6])
DeserializeProfile(bytes) ==
    ReadBlob(ReadBlob(ReadNum(ReadNum(ReadText(ReadNum(Reader(bytes)))))))
DefaultProfile(account) == <<account, << >>, 0, 1, << >>, << >> >>

(* MatchRecord: match, map, mode, result, its players, one blob.  A player *)
(* is an account, a name and the counts.                                   *)
WritePlayer(q) == <<q[1]>> \o Text(q[2]) \o <<q[3]>>
ReadPlayer(r) == ReadNum(ReadText(ReadNum(r)))
SerializeMatch(m) ==
    <<m[1]>> \o Text(m[2]) \o Text(m[3]) \o <<m[4], Len(m[5])>>
    \o Each(WritePlayer, m[5]) \o Blob(m[6])
DeserializeMatch(bytes) ==
    ReadBlob(ReadList(ReadNum(ReadText(ReadText(ReadNum(Reader(bytes))))), ReadPlayer))

(* ServerCheckpoint: header, map, mode, entities, blob, players, blob.  An *)
(* entity is a netId and its components, a component a type and its data.  *)
WriteComponent(d) == <<d[1]>> \o Size16(d[2]) \o d[2]
ReadComponent(r) == ReadBlob(ReadNum(r))
WriteEntity(e) == <<e[1]>> \o Size16(e[2]) \o Each(WriteComponent, e[2])
ReadEntity(r) == ReadList(ReadNum(r), ReadComponent)
SerializeCheckpoint(c) ==
    <<c[1]>> \o Text(c[2]) \o Text(c[3]) \o <<Len(c[4])>> \o Each(WriteEntity, c[4])
    \o Blob(c[5]) \o Size16(c[6]) \o Flat(c[6]) \o Blob(c[7])
DeserializeCheckpoint(bytes) ==
    LET head == ReadText(ReadText(ReadNum(Reader(bytes))))
        body == ReadBlob(ReadList(head, ReadEntity))
    IN  ReadBlob(ReadList(body, ReadNum))
------------------------------------------------------------------------------
(* The checksum, and LZ4, whose output decompresses to the raw size only   *)
(* when nothing is missing: here it is the payload itself.                 *)
Crc(bytes) == FoldLeft(LAMBDA c, b : (31 * c + b + 7) % 65521, 0, bytes)

PackContainer(magic, payload) == <<magic, Len(payload), Crc(payload)>> \o payload

Unpacks(magic, file) == /\ Len(file) >= 3
                        /\ file[1] = magic
                        /\ LET payload == SubSeq(file, 4, Len(file))
                           IN  Len(payload) = file[2] /\ Crc(payload) = file[3]
Payload(file) == SubSeq(file, 4, Len(file))

Nothing == << >>      \* nullopt

LoadProfile(file, account) ==
    IF Unpacks(1, file) THEN DeserializeProfile(Payload(file)).out ELSE DefaultProfile(account)
LoadMatchRecord(file) ==
    IF Unpacks(2, file) THEN DeserializeMatch(Payload(file)).out ELSE Nothing
LoadCheckpoint(file) ==
    LET read == DeserializeCheckpoint(Payload(file))
    IN  IF Unpacks(3, file) /\ read.ok THEN read.out ELSE Nothing
==============================================================================
