-------------------------- MODULE AssetImportProofs ---------------------------
(***************************************************************************)
(* What the imports guarantee for any sources, requests, loads and faults  *)
(* and any size of the stream's buffer: a file read at any moment gives    *)
(* nothing or what its last writer was asked for (FilesReadWhole), and a   *)
(* reported success can be read (SuccessIsReadable).  Of the format they   *)
(* use FormatAssumption only, which is about files that are whole.  That a *)
(* file cut short is refused is proved here, from the length it announces. *)
(***************************************************************************)
EXTENDS AssetImport, SequenceTheorems, TLAPS

Stages == {"idle", "open", "write", "close", "done", "ready"}
WriterStates == [st : Stages, job : Jobs \union {NoJob}, pos : Nat, rest : Seq(Int), ok : BOOLEAN]
Authors == [w : Writers \union {""}, job : Jobs \union {NoJob}]

(* The types of the variables.                                             *)
Types ==
    /\ files \in [Paths -> Seq(Int)]
    /\ writer \in [Writers -> WriterStates]
    /\ panel \in [entries : SUBSET Paths, asks : Sources \union {""}]
    /\ author \in [Paths -> Authors]
    /\ console \in [Paths -> Jobs \union {NoJob}] /\ meta \in [Paths -> Jobs \union {NoJob}]
    /\ mixed \subseteq Paths /\ lost \subseteq Paths

(* What each writer was asked for, and that the stream is asked only once. *)
Taken(w, j) == j \in Jobs /\ Askable(j) /\ (w # "cooker" => Source[j.src].kind # "hdr")
JobsInv ==
    /\ \A w \in Writers : /\ writer[w].st # "idle" => Taken(w, writer[w].job)
                          /\ writer[w].st \in {"open", "write"} => ~writer[w].ok
                          /\ writer[w].st = "open" => writer[w].pos = 0
    /\ panel.asks # "" => panel.asks \in Sources /\ Source[panel.asks].kind = "gltf"

(* The file p holds the beginning of what its author was asked for.        *)
Cut(j, n) == SubSeq(Words(j), 1, n)
Remains(j, n) == SubSeq(Words(j), n + 1, Len(Words(j)))
HoldsCut(p) ==
    \/ author[p].w = "" /\ files[p] = Absent
    \/ /\ author[p].w # "" /\ author[p].job \in Jobs /\ Askable(author[p].job)
       /\ \E n \in 0 .. Len(Words(author[p].job)) : files[p] = Cut(author[p].job, n)

(* A writer in the middle of p is its only one, has written what precedes  *)
(* its place and holds the rest.                                           *)
Under(w, p) ==
    Writing(w, p) =>
        /\ author[p] = [w |-> w, job |-> writer[w].job]
        /\ writer[w].pos <= Len(Words(writer[w].job))
        /\ files[p] = Cut(writer[w].job, writer[w].pos)
        /\ writer[w].rest = Remains(writer[w].job, writer[w].pos)
        /\ console[p] = NoJob /\ p \notin lost

(* A writer that ended well and was the last to open p has written it all. *)
Ended(w, p) ==
    /\ writer[w].st \in {"done", "ready"} /\ writer[w].ok /\ Out(w) = p
    /\ author[p].w = w /\ p \notin lost
    => author[p].job = writer[w].job /\ files[p] = Words(writer[w].job)

(* So has the one the user was told of.                                    *)
Reported(p) ==
    console[p] # NoJob /\ p \notin lost =>
        /\ console[p] \in Jobs /\ Askable(console[p]) /\ Source[console[p].src].kind # "hdr"
        /\ files[p] = Words(console[p])

FileInv(p) == /\ HoldsCut(p) /\ Reported(p)
              /\ \A w \in Writers : Under(w, p) /\ Ended(w, p)

ImportInv == Types /\ JobsInv /\ \A p \in Paths \ mixed : FileInv(p)
------------------------------------------------------------------------------
(* Files cut short.                                                        *)

(* What the format promises of a job's file, taken from FormatAssumption.  *)
LEMMA WholeFile ==
    ASSUME NEW j \in Jobs, Askable(j)
    PROVE  /\ Words(j) \in Seq(Int) /\ Len(Words(j)) \in Nat
           /\ Len(Words(j)) >= HeaderSize /\ Words(j)[3] = Len(Words(j))
           /\ GivesOnly(j, Words(j))
           /\ Source[j.src].kind # "hdr" => LoadEasset(Words(j)).ok
<1>1. /\ Words(j) \in Seq(Int) /\ Len(Words(j)) >= HeaderSize
      /\ Word(Words(j), 2) = Len(Words(j)) /\ GivesOnly(j, Words(j))
      /\ Source[j.src].kind # "hdr" => LoadEasset(Words(j)).ok
  BY FormatAssumption
<1>2. Word(Words(j), 2) = Words(j)[3]
  BY DEF Word
<1>3. Len(Words(j)) \in Nat
  BY <1>1, LenProperties
<1> QED BY <1>1, <1>2, <1>3

(* The whole of a file is a cut of it.                                     *)
LEMMA CutProperties ==
    ASSUME NEW j \in Jobs, Askable(j), NEW n \in 0 .. Len(Words(j))
    PROVE  /\ Cut(j, n) \in Seq(Int) /\ Len(Cut(j, n)) = n
           /\ \A i \in 1 .. n : Cut(j, n)[i] = Words(j)[i]
           /\ n = Len(Words(j)) => Cut(j, n) = Words(j)
           /\ Remains(j, n) \in Seq(Int) /\ Len(Remains(j, n)) = Len(Words(j)) - n
           /\ \A i \in 1 .. Len(Words(j)) - n : Remains(j, n)[i] = Words(j)[n + i]
           /\ n = 0 => Remains(j, n) = Words(j) /\ Cut(j, n) = << >>
<1> DEFINE W == Words(j)
           N == Len(W)
<1>1. W \in Seq(Int) /\ N \in Nat
  BY WholeFile
<1>2. \A i \in 1 .. N : W[i] \in Int
  BY <1>1, ElementOfSeq
<1> HIDE DEF W, N
<1>3. n \in Nat /\ n <= N
  BY <1>1 DEF N, W
<1>4. /\ SubSeq(W, 1, n) \in Seq(Int) /\ Len(SubSeq(W, 1, n)) = n
      /\ \A i \in 1 .. n : SubSeq(W, 1, n)[i] = W[i]
  <2>1. \A i \in 1 .. n : W[i] \in Int
    BY <1>1, <1>2, <1>3
  <2> QED BY <1>3, <2>1, SubSeqProperties
<1>5. /\ SubSeq(W, n + 1, N) \in Seq(Int) /\ Len(SubSeq(W, n + 1, N)) = N - n
      /\ \A i \in 1 .. N - n : SubSeq(W, n + 1, N)[i] = W[n + i]
  <2>1. \A i \in n + 1 .. N : W[i] \in Int
    BY <1>1, <1>2, <1>3
  <2>2. n + 1 \in Int /\ N \in Int
    BY <1>1, <1>3
  <2>3. /\ SubSeq(W, n + 1, N) \in Seq(Int)
        /\ Len(SubSeq(W, n + 1, N)) = IF n + 1 <= N THEN N - (n + 1) + 1 ELSE 0
        /\ \A i \in 1 .. N - (n + 1) + 1 : SubSeq(W, n + 1, N)[i] = W[n + 1 + i - 1]
    BY <2>1, <2>2, SubSeqProperties
  <2>4. \A i \in 1 .. N - n : SubSeq(W, n + 1, N)[i] = W[n + 1 + i - 1] /\ n + 1 + i - 1 = n + i
    BY <1>1, <1>3, <2>3
  <2> QED BY <1>1, <1>3, <2>3, <2>4
<1>6. SubSeq(W, 1, N) = W
  BY <1>1, SubSeqFull DEF N
<1>7. SubSeq(W, 1, 0) = << >>
  BY SubSeqEmpty
<1>8. n = 0 => SubSeq(W, n + 1, N) = W /\ SubSeq(W, 1, n) = << >>
  <2>1. n = 0 => n + 1 = 1
    OBVIOUS
  <2> QED BY <1>6, <1>7, <2>1
<1>9. Cut(j, n) = SubSeq(W, 1, n) /\ Remains(j, n) = SubSeq(W, n + 1, N)
  BY DEF Cut, Remains, W, N
<1>10. n = N => SubSeq(W, 1, n) = W
  BY <1>6
<1>11. Words(j) = W /\ Len(Words(j)) = N
  BY DEF W, N
<1> QED BY <1>4, <1>5, <1>8, <1>9, <1>10, <1>11

(* A file whose header does not hold gives nothing.                        *)
LEMMA Refused ==
    ASSUME NEW f, Len(f) < HeaderSize \/ ~(Word(f, 2) <= Len(f)),
           Len(f) \in Nat
    PROVE  ~LoadEasset(f).ok /\ ~LoadIblEasset(f).ok
<1>1. ~HeaderOk(f, {1, 2, 3}, 0) /\ ~HeaderOk(f, {4}, 1)
  BY DEF HeaderOk, HeaderSize
<1>2. LoadEasset(f) = NoMesh
  BY <1>1 DEF LoadEasset
<1>3. LoadIblEasset(f).ok = FALSE
  BY <1>1 DEF LoadIblEasset
<1> QED BY <1>2, <1>3 DEF NoMesh

(* A file cut anywhere gives nothing or what was asked for.                *)
LEMMA CutGivesOnly ==
    ASSUME NEW j \in Jobs, Askable(j), NEW n \in 0 .. Len(Words(j))
    PROVE  GivesOnly(j, Cut(j, n))
<1>1. /\ Len(Words(j)) \in Nat /\ Words(j)[3] = Len(Words(j)) /\ GivesOnly(j, Words(j))
      /\ Len(Words(j)) >= HeaderSize
  BY WholeFile
<1>2. /\ Len(Cut(j, n)) = n /\ \A i \in 1 .. n : Cut(j, n)[i] = Words(j)[i]
      /\ n = Len(Words(j)) => Cut(j, n) = Words(j)
  BY CutProperties
<1>3. CASE n = Len(Words(j))
  BY <1>1, <1>2, <1>3
<1>4. CASE n # Len(Words(j))
  <2>1. n \in Nat /\ n < Len(Words(j))
    BY <1>1, <1>4
  <2>2. n >= HeaderSize => Word(Cut(j, n), 2) = Len(Words(j))
    <3>1. n >= HeaderSize => 3 \in 1 .. n
      BY <2>1 DEF HeaderSize
    <3> QED BY <1>1, <1>2, <3>1 DEF Word
  <2>3. Len(Cut(j, n)) < HeaderSize \/ ~(Word(Cut(j, n), 2) <= Len(Cut(j, n)))
    BY <1>1, <1>2, <2>1, <2>2 DEF HeaderSize
  <2>4. ~LoadEasset(Cut(j, n)).ok /\ ~LoadIblEasset(Cut(j, n)).ok
    BY <1>2, <2>1, <2>3, Refused
  <2> QED BY <2>4 DEF GivesOnly
<1> QED BY <1>3, <1>4

(* A file that was never written gives nothing.                            *)
LEMMA AbsentGivesOnly ==
    ASSUME NEW j
    PROVE  GivesOnly(j, Absent)
<1>1. Len(Absent) = 1
  BY DEF Absent
<1>2. Len(Absent) < HeaderSize /\ Len(Absent) \in Nat
  BY <1>1 DEF HeaderSize
<1>3. ~LoadEasset(Absent).ok /\ ~LoadIblEasset(Absent).ok
  BY <1>2, Refused
<1> QED BY <1>3 DEF GivesOnly
------------------------------------------------------------------------------
(* What a stream does to a file.                                           *)

LEMMA FillZeros == ASSUME NEW n \in Int
                   PROVE  Fill(n, 0) \in Seq(Int) /\ (n <= 0 => Fill(n, 0) = << >>)
<1>1. CASE n <= 0
  <2>1. 1 .. n = 1 .. 0
    BY <1>1
  <2>2. Fill(n, 0) = [i \in 1 .. 0 |-> 0]
    BY <2>1 DEF Fill, Up
  <2>3. [i \in 1 .. 0 |-> 0] = << >>
    OBVIOUS
  <2>4. << >> \in Seq(Int)
    OBVIOUS
  <2> QED BY <2>2, <2>3, <2>4
<1>2. CASE n > 0
  <2>1. n \in Nat
    BY <1>2
  <2>2. [i \in 1 .. n |-> 0] \in Seq(Int)
    BY <2>1
  <2> QED BY <1>2, <2>2 DEF Fill, Up
<1> QED BY <1>1, <1>2

(* A write leaves a sequence of words, whatever the file held.             *)
LEMMA PutType ==
    ASSUME NEW f \in Seq(Int), NEW pos \in Nat, NEW ws \in Seq(Int)
    PROVE  Put(f, pos, ws) \in Seq(Int)
<1> DEFINE base == f \o Fill(pos - Len(f), 0)
<1>1. Len(f) \in Nat /\ Len(ws) \in Nat
  BY LenProperties
<1>2. Fill(pos - Len(f), 0) \in Seq(Int)
  BY <1>1, FillZeros
<1>3. base \in Seq(Int) /\ Len(base) = Len(f) + Len(Fill(pos - Len(f), 0))
  BY <1>2, ConcatProperties
<1> HIDE DEF base
<1>4. Len(base) \in Nat /\ \A i \in 1 .. Len(base) : base[i] \in Int
  BY <1>3, LenProperties, ElementOfSeq
<1>5. pos <= Len(base)
  <2>1. CASE pos <= Len(f)
    <3>1. Len(Fill(pos - Len(f), 0)) \in Nat
      BY <1>2, LenProperties
    <3> QED BY <1>1, <1>3, <2>1, <3>1
  <2>2. CASE pos > Len(f)
    <3>1. pos - Len(f) \in Nat
      BY <1>1, <2>2
    <3>2. Len(Fill(pos - Len(f), 0)) = pos - Len(f)
      BY <3>1 DEF Fill, Up
    <3> QED BY <1>1, <1>3, <3>2
  <2> QED BY <1>1, <2>1, <2>2
<1>6. SubSeq(base, 1, pos) \in Seq(Int)
  <2>1. \A i \in 1 .. pos : base[i] \in Int
    BY <1>4, <1>5
  <2> QED BY <2>1, SubSeqProperties
<1>7. SubSeq(base, pos + Len(ws) + 1, Len(base)) \in Seq(Int)
  <2>1. \A i \in pos + Len(ws) + 1 .. Len(base) : base[i] \in Int
    BY <1>1, <1>4
  <2> QED BY <1>1, <1>4, <2>1, SubSeqProperties
<1>8. SubSeq(base, 1, pos) \o ws \o SubSeq(base, pos + Len(ws) + 1, Len(base)) \in Seq(Int)
  BY <1>6, <1>7, ConcatProperties
<1> QED BY <1>8 DEF Put, base

(* A write at the end of a file appends.                                   *)
LEMMA PutAppends ==
    ASSUME NEW f \in Seq(Int), NEW ws \in Seq(Int)
    PROVE  Put(f, Len(f), ws) = f \o ws
<1>1. Len(f) \in Nat /\ Len(ws) \in Nat
  BY LenProperties
<1>2. Fill(Len(f) - Len(f), 0) = << >>
  BY <1>1, FillZeros
<1>3. f \o << >> = f
  BY ConcatEmptySeq
<1>4. SubSeq(f, 1, Len(f)) = f
  BY SubSeqFull
<1>5. SubSeq(f, Len(f) + Len(ws) + 1, Len(f)) = << >>
  BY <1>1, SubSeqEmpty
<1>6. f \o ws \in Seq(Int)
  BY ConcatProperties
<1>7. (f \o ws) \o << >> = f \o ws
  BY <1>6, ConcatEmptySeq
<1> QED BY <1>2, <1>3, <1>4, <1>5, <1>7 DEF Put

(* The next k words of a stream lengthen the cut by k.                     *)
LEMMA NextWords ==
    ASSUME NEW j \in Jobs, Askable(j), NEW n \in Nat, NEW k \in Nat, n + k <= Len(Words(j))
    PROVE  /\ Cut(j, n) \o SubSeq(Remains(j, n), 1, k) = Cut(j, n + k)
           /\ SubSeq(Remains(j, n), k + 1, Len(Remains(j, n))) = Remains(j, n + k)
           /\ SubSeq(Remains(j, n), 1, k) \in Seq(Int)
<1> DEFINE W == Words(j)
           N == Len(W)
           R == Remains(j, n)
<1>1. W \in Seq(Int) /\ N \in Nat
  BY WholeFile
<1>2. n \in 0 .. N /\ n + k \in 0 .. N
  BY <1>1
<1>3. /\ Cut(j, n) \in Seq(Int) /\ Len(Cut(j, n)) = n
      /\ \A i \in 1 .. n : Cut(j, n)[i] = W[i]
      /\ R \in Seq(Int) /\ Len(R) = N - n
      /\ \A i \in 1 .. N - n : R[i] = W[n + i]
  BY <1>2, CutProperties
<1>4. /\ Cut(j, n + k) \in Seq(Int) /\ Len(Cut(j, n + k)) = n + k
      /\ \A i \in 1 .. n + k : Cut(j, n + k)[i] = W[i]
      /\ Remains(j, n + k) \in Seq(Int) /\ Len(Remains(j, n + k)) = N - (n + k)
      /\ \A i \in 1 .. N - (n + k) : Remains(j, n + k)[i] = W[(n + k) + i]
  BY <1>2, CutProperties
<1>5. \A i \in 1 .. N - n : R[i] \in Int
  BY <1>3, ElementOfSeq
<1> DEFINE C == Cut(j, n)
           D == Cut(j, n + k)
           T == Remains(j, n + k)
<1> HIDE DEF W, N, R, C, D, T
<1>6. k <= N - n
  BY <1>1, <1>2
<1> DEFINE H == SubSeq(R, 1, k)
           L == SubSeq(R, k + 1, N - n)
<1>7. H \in Seq(Int) /\ Len(H) = k /\ \A i \in 1 .. k : H[i] = R[i]
  <2>1. \A i \in 1 .. k : R[i] \in Int
    BY <1>1, <1>5, <1>6
  <2> QED BY <2>1, SubSeqProperties
<1>8. L \in Seq(Int) /\ Len(L) = N - (n + k) /\ \A i \in 1 .. N - (n + k) : L[i] = R[k + i]
  <2>1. \A i \in k + 1 .. N - n : R[i] \in Int
    BY <1>1, <1>5, <1>6
  <2>2. k + 1 \in Int /\ N - n \in Int
    BY <1>1
  <2>3. /\ L \in Seq(Int)
        /\ Len(L) = IF k + 1 <= N - n THEN (N - n) - (k + 1) + 1 ELSE 0
        /\ \A i \in 1 .. (N - n) - (k + 1) + 1 : L[i] = R[k + 1 + i - 1]
    BY <2>1, <2>2, SubSeqProperties
  <2>4. \A i \in 1 .. N - (n + k) : i \in 1 .. (N - n) - (k + 1) + 1 /\ k + 1 + i - 1 = k + i
    BY <1>1
  <2>5. \A i \in 1 .. N - (n + k) : L[i] = R[k + i]
    BY <2>3, <2>4
  <2>6. Len(L) = N - (n + k)
    <3>1. k + 1 <= N - n \/ k = N - n
      BY <1>1, <1>6
    <3> HIDE DEF L
    <3> QED BY <1>1, <1>6, <2>3, <3>1
  <2> QED BY <2>3, <2>5, <2>6
<1> HIDE DEF H, L
<1>9. C \o H = D
  <2>1. /\ C \o H \in Seq(Int) /\ Len(C \o H) = n + k
        /\ \A i \in 1 .. n + k : (C \o H)[i] = IF i <= n THEN C[i] ELSE H[i - n]
    BY <1>3, <1>7, ConcatProperties DEF C
  <2>2. ASSUME NEW i \in 1 .. n + k PROVE (C \o H)[i] = D[i]
    <3>1. D[i] = W[i]
      BY <1>4 DEF D
    <3>2. CASE i <= n
      <4>1. i \in 1 .. n
        BY <3>2
      <4>2. C[i] = W[i]
        BY <1>3, <4>1 DEF C
      <4> QED BY <2>1, <3>1, <3>2, <4>2
    <3>3. CASE i > n
      <4>1. i - n \in 1 .. k /\ i - n \in 1 .. N - n /\ n + (i - n) = i
        BY <1>1, <1>6, <3>3
      <4>2. H[i - n] = R[i - n] /\ R[i - n] = W[n + (i - n)]
        BY <1>3, <1>7, <4>1 DEF R
      <4>3. (C \o H)[i] = H[i - n]
        <5>1. ~(i <= n)
          BY <3>3
        <5>2. (C \o H)[i] = IF i <= n THEN C[i] ELSE H[i - n]
          BY <2>1
        <5> QED BY <5>1, <5>2
      <4>4. W[n + (i - n)] = W[i]
        <5>1. n + (i - n) = i
          BY <4>1
        <5> QED BY <5>1, Zenon
      <4>5. (C \o H)[i] = W[i]
        BY <4>2, <4>3, <4>4, Zenon
      <4> QED BY <3>1, <4>5, Zenon
    <3>4. i <= n \/ i > n
      OBVIOUS
    <3> QED BY <3>2, <3>3, <3>4, Zenon
  <2> QED BY <1>4, <2>1, <2>2, SeqEqual DEF D
<1>10. L = T
  <2>1. ASSUME NEW i \in 1 .. N - (n + k) PROVE L[i] = T[i]
    <3>1. k + i \in 1 .. N - n /\ n + (k + i) = (n + k) + i
      BY <1>1, <1>6
    <3>2. R[k + i] = W[n + (k + i)]
      BY <1>3, <3>1 DEF R
    <3> QED BY <1>4, <1>8, <3>1, <3>2 DEF T
  <2> QED BY <1>4, <1>8, <2>1, SeqEqual DEF T
<1> QED BY <1>3, <1>7, <1>9, <1>10 DEF C, D, H, L, R, T
------------------------------------------------------------------------------
(* Types and jobs.                                                         *)

(* A writer at work has a path of its own sources and a job it may take.   *)
LEMMA AtWork ==
    ASSUME Types, JobsInv, NEW w \in Writers, writer[w].st # "idle"
    PROVE  /\ writer[w].job \in Jobs /\ Askable(writer[w].job)
           /\ w # "cooker" => Source[writer[w].job.src].kind # "hdr"
           /\ Out(w) \in Paths
           /\ writer[w].job.src \in Sources
BY DEF JobsInv, Taken, Jobs, Out, Paths

(* A new job of a writer.                                                  *)
LEMMA NewJob ==
    ASSUME NEW w \in Writers, NEW s \in Sources, NEW c \in Collisions,
           Source[s].kind = "gltf" \/ c = "no",
           Source[s].kind = "image" => ExtractTextures(s) # << >>,
           w # "cooker" => Source[s].kind # "hdr"
    PROVE  LET j == [src |-> s, coll |-> c]
           IN  Taken(w, j) /\ Asked(j) \in WriterStates /\ Asked(j).st = "open" /\ ~Asked(j).ok
               /\ Asked(j).pos = 0 /\ Asked(j).job = j
<1> DEFINE j == [src |-> s, coll |-> c]
<1>1. j \in Jobs /\ j.src = s /\ j.coll = c
  BY DEF Jobs
<1>2. Taken(w, j)
  BY <1>1 DEF Taken, Askable
<1>3. << >> \in Seq(Int)
  OBVIOUS
<1>4. /\ Asked(j) \in WriterStates /\ Asked(j).st = "open" /\ ~Asked(j).ok
      /\ Asked(j).pos = 0 /\ Asked(j).job = j
  BY <1>1, <1>3 DEF Asked, WriterStates, Stages
<1> QED BY <1>2, <1>4

LEMMA IdleType == Idle \in WriterStates /\ Idle.st = "idle" /\ ~Idle.ok
<1>1. << >> \in Seq(Int)
  OBVIOUS
<1> QED BY <1>1 DEF Idle, WriterStates, Stages

(* What the handlers of the main thread leave of the variables' types.     *)
LEMMA ToldType ==
    ASSUME Types, JobsInv, NEW w \in Writers, writer[w].st # "idle"
    PROVE  Told(w) \in [Paths -> Jobs \union {NoJob}]
<1>1. writer[w].job \in Jobs
  BY AtWork
<1> QED BY <1>1 DEF Told, Types

LEMMA RefreshedType ==
    ASSUME Types
    PROVE  Refreshed \in [entries : SUBSET Paths, asks : Sources \union {""}] /\ Refreshed.asks = panel.asks
BY DEF Refreshed, Listed, Types

(* The step of a writer that keeps its job.                                *)
LEMMA WriterMoves ==
    ASSUME Types, JobsInv, NEW w \in Writers, writer[w].st # "idle",
           writer'[w].job = writer[w].job,
           writer'[w].st # "open", writer'[w].st = "write" => ~writer'[w].ok,
           \A v \in Writers \ {w} : writer'[v] = writer[v], UNCHANGED panel
    PROVE  JobsInv'
<1>1. Taken(w, writer'[w].job)
  BY DEF JobsInv
<1>2. ASSUME NEW v \in Writers
      PROVE  /\ writer'[v].st # "idle" => Taken(v, writer'[v].job)
             /\ writer'[v].st \in {"open", "write"} => ~writer'[v].ok
             /\ writer'[v].st = "open" => writer'[v].pos = 0
  <2>1. CASE v = w
    BY <1>1, <2>1
  <2>2. CASE v # w
    BY <2>2 DEF JobsInv
  <2> QED BY <2>1, <2>2
<1>3. panel'.asks # "" => panel'.asks \in Sources /\ Source[panel'.asks].kind = "gltf"
  BY DEF JobsInv
<1> QED BY <1>2, <1>3 DEF JobsInv, Taken

(* The step of a writer that gives up its job or takes a new one.          *)
LEMMA WriterTakes ==
    ASSUME Types, JobsInv, NEW w \in Writers, NEW r \in WriterStates,
           r.st # "idle" => Taken(w, r.job), r.st \in {"open", "write"} => ~r.ok,
           r.st = "open" => r.pos = 0,
           writer' = [writer EXCEPT ![w] = r],
           panel'.asks = panel.asks \/ panel'.asks = ""
    PROVE  /\ writer' \in [Writers -> WriterStates] /\ JobsInv'
           /\ writer'[w] = r /\ \A v \in Writers \ {w} : writer'[v] = writer[v]
<1>1. writer \in [Writers -> WriterStates]
  BY DEF Types
<1>2. writer'[w] = r /\ \A v \in Writers \ {w} : writer'[v] = writer[v]
  BY <1>1
<1>3. writer' \in [Writers -> WriterStates]
  BY <1>1
<1>4. JobsInv'
  <2>1. ASSUME NEW v \in Writers
        PROVE  /\ writer'[v].st # "idle" => Taken(v, writer'[v].job)
               /\ writer'[v].st \in {"open", "write"} => ~writer'[v].ok
               /\ writer'[v].st = "open" => writer'[v].pos = 0
    <3>1. CASE v = w
      BY <1>2, <3>1
    <3>2. CASE v # w
      BY <1>2, <3>2 DEF JobsInv
    <3> QED BY <3>1, <3>2
  <2>2. panel'.asks # "" => panel'.asks \in Sources /\ Source[panel'.asks].kind = "gltf"
    BY DEF JobsInv
  <2> QED BY <2>1, <2>2 DEF JobsInv, Taken
<1> QED BY <1>2, <1>3, <1>4

(* What each step of a writer does to its state.                           *)
LEMMA OpenStep ==
    ASSUME Types, JobsInv, NEW w \in Writers, OpenFile(w)
    PROVE  /\ writer' \in [Writers -> WriterStates] /\ JobsInv'
           /\ \A v \in Writers \ {w} : writer'[v] = writer[v]
           /\ writer'[w].st = "write" /\ writer'[w].job = writer[w].job
           /\ writer'[w].rest = Words(writer[w].job) /\ writer'[w].pos = 0
           /\ ~writer'[w].ok
<1>1. /\ writer[w].job \in Jobs /\ Askable(writer[w].job) /\ ~writer[w].ok /\ writer[w].st = "open"
      /\ writer[w].pos = 0
  BY AtWork DEF OpenFile, JobsInv
<1>2. Words(writer[w].job) \in Seq(Int)
  BY <1>1, WholeFile
<1>3. writer \in [Writers -> WriterStates]
  BY DEF Types
<1>4. /\ writer'[w] = [writer[w] EXCEPT !.st = "write", !.rest = Words(writer[w].job)]
      /\ \A v \in Writers \ {w} : writer'[v] = writer[v]
  BY <1>3 DEF OpenFile
<1>5. writer' \in [Writers -> WriterStates]
  BY <1>2, <1>3 DEF OpenFile, WriterStates, Stages
<1>6. /\ writer'[w].st = "write" /\ writer'[w].job = writer[w].job
      /\ writer'[w].rest = Words(writer[w].job) /\ writer'[w].pos = writer[w].pos
      /\ writer'[w].ok = writer[w].ok
  BY <1>3, <1>4 DEF WriterStates
<1>7. UNCHANGED panel
  BY DEF OpenFile
<1>8. JobsInv'
  BY <1>1, <1>4, <1>6, <1>7, WriterMoves
<1> QED BY <1>1, <1>4, <1>5, <1>6, <1>8

LEMMA FlushStep ==
    ASSUME Types, JobsInv, NEW w \in Writers, Flush(w)
    PROVE  /\ writer' \in [Writers -> WriterStates] /\ JobsInv'
           /\ \A v \in Writers \ {w} : writer'[v] = writer[v]
           /\ writer[w].st = "write" /\ Len(writer[w].rest) > Buffer
           /\ writer'[w].st = "write" /\ writer'[w].job = writer[w].job
           /\ writer'[w].rest = SubSeq(writer[w].rest, Buffer + 1, Len(writer[w].rest))
           /\ writer'[w].pos = writer[w].pos + Buffer
           /\ SubSeq(writer[w].rest, 1, Buffer) \in Seq(Int)
<1> DEFINE r == writer[w].rest
           t == SubSeq(r, Buffer + 1, Len(r))
<1>1. writer[w].st = "write" /\ Len(r) > Buffer /\ ~writer[w].ok
  BY DEF Flush, JobsInv
<1>2. writer \in [Writers -> WriterStates]
  BY DEF Types
<1>3. r \in Seq(Int) /\ writer[w].pos \in Nat
  BY <1>2 DEF WriterStates
<1>4. t \in Seq(Int) /\ SubSeq(r, 1, Buffer) \in Seq(Int)
  <2>1. Len(r) \in Nat /\ \A i \in 1 .. Len(r) : r[i] \in Int
    BY <1>3, LenProperties, ElementOfSeq
  <2> HIDE DEF r
  <2>2. /\ \A i \in Buffer + 1 .. Len(r) : r[i] \in Int
        /\ \A i \in 1 .. Buffer : r[i] \in Int
    BY <1>1, <2>1, BufferAssumption
  <2> QED BY <2>1, <2>2, BufferAssumption, SubSeqProperties
<1>5. writer' = [writer EXCEPT ![w].pos = writer[w].pos + Buffer, ![w].rest = t]
  BY <1>2 DEF Flush, WriterStates
<1> DEFINE n == writer[w].pos + Buffer
<1> HIDE DEF t
<1>9. n \in Nat
  BY <1>3, BufferAssumption
<1>6. writer' \in [Writers -> WriterStates]
  <2>1. writer' = [writer EXCEPT ![w].pos = n, ![w].rest = t]
    BY <1>5
  <2> HIDE DEF n
  <2> QED BY <1>2, <1>4, <1>9, <2>1 DEF WriterStates
<1>7. /\ \A v \in Writers \ {w} : writer'[v] = writer[v]
      /\ writer'[w].st = writer[w].st /\ writer'[w].job = writer[w].job
      /\ writer'[w].rest = t /\ writer'[w].pos = writer[w].pos + Buffer
      /\ writer'[w].ok = writer[w].ok
  BY <1>2, <1>5 DEF WriterStates
<1>8. JobsInv'
  <2>1. UNCHANGED panel
    BY DEF Flush
  <2> QED BY <1>1, <1>7, <2>1, WriterMoves
<1> QED BY <1>1, <1>4, <1>6, <1>7, <1>8 DEF t

LEMMA GoodStep ==
    ASSUME Types, JobsInv, NEW w \in Writers, Good(w)
    PROVE  /\ writer' \in [Writers -> WriterStates] /\ JobsInv'
           /\ \A v \in Writers \ {w} : writer'[v] = writer[v]
           /\ writer[w].st = "write"
           /\ writer'[w].st = "close" /\ writer'[w].job = writer[w].job
           /\ writer'[w].rest = writer[w].rest /\ writer'[w].pos = writer[w].pos
<1>1. writer[w].st = "write"
  BY DEF Good
<1>2. writer \in [Writers -> WriterStates]
  BY DEF Types
<1>3. writer' \in [Writers -> WriterStates]
  BY <1>2 DEF Good, WriterStates, Stages
<1>4. /\ \A v \in Writers \ {w} : writer'[v] = writer[v]
      /\ writer'[w].st = "close" /\ writer'[w].job = writer[w].job
      /\ writer'[w].rest = writer[w].rest /\ writer'[w].pos = writer[w].pos
  BY <1>2 DEF Good, WriterStates
<1>5. JobsInv'
  <2>1. UNCHANGED panel
    BY DEF Good
  <2> QED BY <1>1, <1>4, <2>1, WriterMoves
<1> QED BY <1>1, <1>3, <1>4, <1>5

(* The steps that end the writing of a file, in whatever way.              *)
LEMMA EndStep ==
    ASSUME Types, JobsInv, NEW w \in Writers,
           OpenFails(w) \/ FlushFails(w) \/ CloseFile(w) \/ CloseFails(w)
    PROVE  /\ writer' \in [Writers -> WriterStates] /\ JobsInv'
           /\ \A v \in Writers \ {w} : writer'[v] = writer[v]
           /\ writer[w].st \in {"open", "write", "close"}
           /\ writer'[w].st = "done" /\ writer'[w].job = writer[w].job
           /\ writer'[w].ok = writer[w].ok
           /\ OpenFails(w) \/ FlushFails(w) => ~writer[w].ok
<1>1. writer[w].st \in {"open", "write", "close"} /\ (OpenFails(w) \/ FlushFails(w) => ~writer[w].ok)
  BY DEF OpenFails, FlushFails, CloseFile, CloseFails, JobsInv
<1>2. writer \in [Writers -> WriterStates]
  BY DEF Types
<1>3. writer' = [writer EXCEPT ![w].st = "done", ![w].rest = << >>] /\ UNCHANGED panel
  BY DEF OpenFails, FlushFails, CloseFile, CloseFails
<1>4. << >> \in Seq(Int)
  OBVIOUS
<1>5. writer' \in [Writers -> WriterStates]
  BY <1>2, <1>3, <1>4 DEF WriterStates, Stages
<1>6. /\ \A v \in Writers \ {w} : writer'[v] = writer[v]
      /\ writer'[w].st = "done" /\ writer'[w].job = writer[w].job
      /\ writer'[w].ok = writer[w].ok
  BY <1>2, <1>3 DEF WriterStates
<1>7. JobsInv'
  BY <1>1, <1>3, <1>6, WriterMoves
<1> QED BY <1>1, <1>5, <1>6, <1>7
------------------------------------------------------------------------------
(* What is known of a file, step by step.                                  *)

(* A writer that does nothing to p: it stays as it was, or has just been   *)
(* asked or dismissed, or failed, or is busy elsewhere, or a result is in. *)
Quiet(v, p) ==
    \/ writer'[v] = writer[v]
    \/ writer'[v].st \in {"idle", "open"}
    \/ writer'[v].st = "done" /\ ~writer'[v].ok
    \/ Path(writer'[v].job.src) # p
    \/ /\ writer[v].st = "done" /\ writer'[v].st = "ready"
       /\ writer'[v].job = writer[v].job /\ writer'[v].ok = writer[v].ok

LEMMA Elsewhere ==
    ASSUME NEW p \in Paths, FileInv(p),
           files'[p] = files[p], author'[p] = author[p], console'[p] \in {console[p], NoJob},
           p \in lost' <=> p \in lost,
           \A v \in Writers : Quiet(v, p)
    PROVE  FileInv(p)'
<1>1. HoldsCut(p)'
  BY DEF FileInv, HoldsCut
<1>2. Reported(p)'
  BY DEF FileInv, Reported
<1>3. ASSUME NEW v \in Writers PROVE Under(v, p)' /\ Ended(v, p)'
  <2>1. Under(v, p) /\ Ended(v, p)
    BY DEF FileInv
  <2>2. CASE writer'[v] = writer[v]
    BY <2>1, <2>2 DEF Under, Ended, Writing, Out
  <2>3. CASE writer'[v].st \in {"idle", "open"}
    BY <2>3 DEF Under, Ended, Writing, Out
  <2>4. CASE writer'[v].st = "done" /\ ~writer'[v].ok
    BY <2>4 DEF Under, Ended, Writing, Out
  <2>5. CASE Path(writer'[v].job.src) # p
    BY <2>5 DEF Under, Ended, Writing, Out
  <2>6. CASE /\ writer[v].st = "done" /\ writer'[v].st = "ready"
             /\ writer'[v].job = writer[v].job /\ writer'[v].ok = writer[v].ok
    BY <2>1, <2>6 DEF Under, Ended, Writing, Out
  <2> QED BY <2>2, <2>3, <2>4, <2>5, <2>6 DEF Quiet
<1> QED BY <1>1, <1>2, <1>3 DEF FileInv

(* A step that touches no file and of which no one is told.                *)
LEMMA NoFileTouched ==
    ASSUME ImportInv, JobsInv', writer' \in [Writers -> WriterStates],
           panel' \in [entries : SUBSET Paths, asks : Sources \union {""}],
           meta' \in [Paths -> Jobs \union {NoJob}],
           console' \in [Paths -> Jobs \union {NoJob}],
           \A p \in Paths : console'[p] \in {console[p], NoJob},
           UNCHANGED <<files, author, mixed, lost>>,
           \A p \in Paths, v \in Writers : Quiet(v, p)
    PROVE  ImportInv'
<1>1. Types'
  BY DEF ImportInv, Types
<1>2. ASSUME NEW p \in Paths \ mixed PROVE FileInv(p)'
  <2>1. FileInv(p)
    BY DEF ImportInv
  <2>2. /\ files'[p] = files[p] /\ author'[p] = author[p] /\ (p \in lost' <=> p \in lost)
        /\ console'[p] \in {console[p], NoJob} /\ \A v \in Writers : Quiet(v, p)
    OBVIOUS
  <2> QED BY <2>1, <2>2, Elsewhere
<1>3. \A p \in Paths \ mixed' : FileInv(p)'
  BY <1>2
<1> QED BY <1>1, <1>3 DEF ImportInv

(* A step of the stream of one writer, which leaves the other files alone. *)
LEMMA OneFileTouched ==
    ASSUME ImportInv, JobsInv', writer' \in [Writers -> WriterStates], NEW w \in Writers,
           NEW o \in Paths, Out(w) = o, writer'[w].job = writer[w].job,
           \A v \in Writers \ {w} : writer'[v] = writer[v],
           files' \in [Paths -> Seq(Int)], author' \in [Paths -> Authors],
           console' \in [Paths -> Jobs \union {NoJob}], UNCHANGED <<panel, meta>>,
           mixed' \subseteq Paths, lost' \subseteq Paths,
           \A p \in Paths \ {o} : /\ files'[p] = files[p] /\ author'[p] = author[p]
                                  /\ console'[p] = console[p]
                                  /\ p \in lost' <=> p \in lost
                                  /\ p \in mixed' <=> p \in mixed,
           o \notin mixed' => FileInv(o)'
    PROVE  ImportInv'
<1>1. Types'
  BY DEF ImportInv, Types
<1>2. ASSUME NEW p \in Paths \ mixed' PROVE FileInv(p)'
  <2>1. CASE p = o
    BY <2>1
  <2>2. CASE p # o
    <3>1. FileInv(p)
      <4>1. p \in Paths \ mixed
        BY <2>2
      <4> QED BY <4>1 DEF ImportInv
    <3>2. /\ files'[p] = files[p] /\ author'[p] = author[p] /\ (p \in lost' <=> p \in lost)
          /\ console'[p] \in {console[p], NoJob}
      BY <2>2
    <3>3. ASSUME NEW v \in Writers PROVE Quiet(v, p)
      BY <2>2 DEF Quiet, Out
    <3> QED BY <3>1, <3>2, <3>3, Elsewhere
  <2> QED BY <2>1, <2>2
<1> QED BY <1>1, <1>2 DEF ImportInv
------------------------------------------------------------------------------
(* The streams.                                                            *)

(* Opening truncates the file; from here on it is w's alone, unless another *)
(* is in the middle of it.                                                 *)
LEMMA Opens ==
    ASSUME ImportInv, NEW w \in Writers, OpenFile(w)
    PROVE  ImportInv'
<1> DEFINE j == writer[w].job
<1>1. Types /\ JobsInv
  BY DEF ImportInv
<1>2. writer[w].st = "open"
  BY DEF OpenFile
<1>3. j \in Jobs /\ Askable(j) /\ Out(w) \in Paths
  BY <1>1, <1>2, AtWork
<1>0. PICK o \in Paths : Out(w) = o
  BY <1>3
<1>4. /\ writer' \in [Writers -> WriterStates] /\ JobsInv'
      /\ \A v \in Writers \ {w} : writer'[v] = writer[v]
      /\ writer'[w].st = "write" /\ writer'[w].job = j
      /\ writer'[w].rest = Words(j) /\ writer'[w].pos = 0 /\ ~writer'[w].ok
  BY <1>1, OpenStep
<1>5. /\ files' = [files EXCEPT ![o] = << >>]
      /\ mixed' = IF \E v \in Writers \ {w} : Writing(v, o) THEN mixed \union {o} ELSE mixed \ {o}
      /\ lost' = lost \ {o}
      /\ author' = [author EXCEPT ![o] = [w |-> w, job |-> j]]
      /\ console' = [console EXCEPT ![o] = NoJob]
      /\ UNCHANGED <<panel, meta>>
  BY <1>0 DEF OpenFile
<1>6. << >> \in Seq(Int) /\ [w |-> w, job |-> j] \in Authors
  <2>1. << >> \in Seq(Int)
    OBVIOUS
  <2> QED BY <1>3, <2>1 DEF Authors
<1> HIDE DEF j
<1>7. /\ files' \in [Paths -> Seq(Int)] /\ author' \in [Paths -> Authors]
      /\ console' \in [Paths -> Jobs \union {NoJob}]
      /\ mixed' \subseteq Paths /\ lost' \subseteq Paths
  BY <1>1, <1>3, <1>5, <1>6 DEF Types
<1>8. /\ files'[o] = << >> /\ author'[o] = [w |-> w, job |-> j] /\ console'[o] = NoJob
      /\ o \notin lost'
  BY <1>1, <1>3, <1>5 DEF Types
<1>9. \A p \in Paths \ {o} : /\ files'[p] = files[p] /\ author'[p] = author[p]
                             /\ console'[p] = console[p]
                             /\ p \in lost' <=> p \in lost
                             /\ p \in mixed' <=> p \in mixed
  BY <1>1, <1>5 DEF Types
<1>10. ASSUME o \notin mixed' PROVE FileInv(o)'
  <2>1. ~ \E v \in Writers \ {w} : Writing(v, o)
    BY <1>5, <1>10
  <2>2. Len(Words(j)) \in Nat /\ 0 \in 0 .. Len(Words(j))
    BY <1>3, WholeFile
  <2>3. Remains(j, 0) = Words(j) /\ Cut(j, 0) = << >>
    BY <1>3, <2>2, CutProperties
  <2>4. HoldsCut(o)'
    <3>1. w # ""
      BY DEF Writers
    <3>2. author'[o].w = w /\ author'[o].job = j /\ files'[o] = Cut(j, 0)
      BY <1>8, <2>3
    <3>3. HoldsCut(o)' <=> \/ author'[o].w = "" /\ files'[o] = Absent
                          \/ /\ author'[o].w # "" /\ author'[o].job \in Jobs /\ Askable(author'[o].job)
                             /\ \E n \in 0 .. Len(Words(author'[o].job)) : files'[o] = Cut(author'[o].job, n)
      BY DEF HoldsCut, Cut
    <3> QED BY <1>3, <2>2, <3>1, <3>2, <3>3, Zenon
  <2>5. Reported(o)'
    BY <1>8 DEF Reported
  <2>6. ASSUME NEW v \in Writers PROVE Under(v, o)' /\ Ended(v, o)'
    <3>1. CASE v = w
      BY <1>4, <1>8, <2>2, <2>3, <3>1 DEF Under, Ended
    <3>2. CASE v # w
      <4>1. ~Writing(v, o)'
        BY <1>4, <2>1, <3>2 DEF Writing, Out
      <4>2. author'[o].w # v
        BY <1>8, <3>2
      <4> QED BY <4>1, <4>2 DEF Under, Ended
    <3> QED BY <3>1, <3>2
  <2> QED BY <2>4, <2>5, <2>6 DEF FileInv
<1> QED BY <1>0, <1>2, <1>4, <1>5, <1>7, <1>9, <1>10, OneFileTouched DEF j

(* A write appends the next words, as long as the file is w's alone.       *)
LEMMA Flushes ==
    ASSUME ImportInv, NEW w \in Writers, Flush(w)
    PROVE  ImportInv'
<1> DEFINE j == writer[w].job
           n == writer[w].pos
           ws == SubSeq(writer[w].rest, 1, Buffer)
<1>1. Types /\ JobsInv
  BY DEF ImportInv
<1>2. /\ writer' \in [Writers -> WriterStates] /\ JobsInv'
      /\ \A v \in Writers \ {w} : writer'[v] = writer[v]
      /\ writer[w].st = "write" /\ Len(writer[w].rest) > Buffer
      /\ writer'[w].st = "write" /\ writer'[w].job = j
      /\ writer'[w].rest = SubSeq(writer[w].rest, Buffer + 1, Len(writer[w].rest))
      /\ writer'[w].pos = n + Buffer /\ ws \in Seq(Int)
  BY <1>1, FlushStep
<1>3. j \in Jobs /\ Askable(j) /\ Out(w) \in Paths
  BY <1>1, <1>2, AtWork
<1>0. PICK o \in Paths : Out(w) = o
  BY <1>3
<1>4. /\ files' = [files EXCEPT ![o] = Put(files[o], n, ws)]
      /\ UNCHANGED <<meta, panel, author, console, mixed, lost>>
  BY <1>0, <1>1 DEF Flush, Types
<1>5. n \in Nat /\ writer[w].rest \in Seq(Int) /\ files[o] \in Seq(Int)
  BY <1>1, <1>3 DEF Types, WriterStates
<1>6. Put(files[o], n, ws) \in Seq(Int)
  BY <1>2, <1>5, PutType
<1>7. ASSUME o \notin mixed PROVE FileInv(o)'
  <2>1. FileInv(o) /\ Under(w, o) /\ Writing(w, o)
    BY <1>0, <1>2, <1>7 DEF ImportInv, FileInv, Writing
  <2>2. /\ author[o] = [w |-> w, job |-> j] /\ n <= Len(Words(j))
        /\ files[o] = Cut(j, n) /\ writer[w].rest = Remains(j, n)
        /\ console[o] = NoJob /\ o \notin lost
    BY <2>1 DEF Under
  <2>3. Len(Words(j)) \in Nat /\ n \in 0 .. Len(Words(j))
    BY <1>3, <1>5, <2>2, WholeFile
  <2>4. Len(Cut(j, n)) = n /\ Len(Remains(j, n)) = Len(Words(j)) - n
    BY <1>3, <2>3, CutProperties
  <2>5. n + Buffer <= Len(Words(j)) /\ n + Buffer \in Nat /\ Buffer \in Nat
    <3> DEFINE N == Len(Words(j))
    <3>1. N - n > Buffer
      BY <1>2, <2>2, <2>4
    <3>2. N \in Nat /\ n \in Nat /\ Buffer \in Nat
      BY <1>5, <2>3, BufferAssumption
    <3> HIDE DEF N, n
    <3>3. n + Buffer <= N /\ n + Buffer \in Nat
      BY <3>1, <3>2
    <3> QED BY <3>2, <3>3 DEF N
  <2>6. /\ Cut(j, n) \o ws = Cut(j, n + Buffer)
        /\ writer'[w].rest = Remains(j, n + Buffer)
    BY <1>2, <1>3, <1>5, <2>2, <2>5, NextWords
  <2>7. files'[o] = Cut(j, n + Buffer)
    <3>1. files'[o] = Put(files[o], n, ws)
      BY <1>1, <1>3, <1>4 DEF Types
    <3>2. Put(files[o], Len(files[o]), ws) = files[o] \o ws
      BY <1>2, <1>5, PutAppends
    <3> QED BY <2>2, <2>4, <2>6, <3>1, <3>2
  <2> HIDE DEF j, n, ws
  <2>8. n + Buffer \in 0 .. Len(Words(j))
    BY <2>3, <2>5
  <2>9. HoldsCut(o)'
    <3>1. w # ""
      BY DEF Writers
    <3>2. author'[o].w = w /\ author'[o].job = j
      BY <1>4, <2>2
    <3>3. HoldsCut(o)' <=> \/ author'[o].w = "" /\ files'[o] = Absent
                          \/ /\ author'[o].w # "" /\ author'[o].job \in Jobs /\ Askable(author'[o].job)
                             /\ \E m \in 0 .. Len(Words(author'[o].job)) : files'[o] = Cut(author'[o].job, m)
      BY DEF HoldsCut, Cut
    <3> QED BY <1>3, <2>7, <2>8, <3>1, <3>2, <3>3, Zenon
  <2>10. Reported(o)'
    BY <1>4, <2>2 DEF Reported
  <2>11. ASSUME NEW v \in Writers PROVE Under(v, o)' /\ Ended(v, o)'
    <3>1. CASE v = w
      BY <1>2, <1>4, <2>2, <2>5, <2>6, <2>7, <3>1 DEF Under, Ended
    <3>2. CASE v # w
      <4>1. ~Writing(v, o)
        <5>1. Under(v, o)
          BY <2>1 DEF FileInv
        <5>2. Writing(v, o) => author[o].w = v
          BY <5>1 DEF Under
        <5>3. author[o].w = w
          BY <2>2
        <5> QED BY <3>2, <5>2, <5>3
      <4>2. ~Writing(v, o)'
        BY <1>2, <3>2, <4>1 DEF Writing, Out
      <4>3. author'[o].w # v
        BY <1>4, <2>2, <3>2
      <4> QED BY <4>2, <4>3 DEF Under, Ended
    <3> QED BY <3>1, <3>2
  <2> QED BY <2>9, <2>10, <2>11 DEF FileInv
<1>8. files' \in [Paths -> Seq(Int)]
  BY <1>1, <1>4, <1>6 DEF Types
<1>9. \A p \in Paths \ {o} : files'[p] = files[p]
  BY <1>1, <1>4 DEF Types
<1>10. /\ author' \in [Paths -> Authors] /\ console' \in [Paths -> Jobs \union {NoJob}]
       /\ mixed' \subseteq Paths /\ lost' \subseteq Paths
  BY <1>1, <1>4 DEF Types
<1> HIDE DEF n, ws
<1> QED BY <1>0, <1>2, <1>4, <1>7, <1>8, <1>9, <1>10, OneFileTouched

LEMMA AsksTheStream ==
    ASSUME ImportInv, NEW w \in Writers, Good(w)
    PROVE  ImportInv'
<1>1. Types /\ JobsInv
  BY DEF ImportInv
<1>2. /\ writer' \in [Writers -> WriterStates] /\ JobsInv'
      /\ \A v \in Writers \ {w} : writer'[v] = writer[v]
      /\ writer[w].st = "write"
      /\ writer'[w].st = "close" /\ writer'[w].job = writer[w].job
      /\ writer'[w].rest = writer[w].rest /\ writer'[w].pos = writer[w].pos
  BY <1>1, GoodStep
<1>3. PICK o \in Paths : Out(w) = o
  BY <1>1, <1>2, AtWork
<1>4. UNCHANGED <<files, meta, panel, author, console, mixed, lost>>
  BY DEF Good
<1>5. ASSUME o \notin mixed PROVE FileInv(o)'
  <2>1. FileInv(o)
    BY <1>5 DEF ImportInv
  <2>2. HoldsCut(o)' /\ Reported(o)'
    BY <1>4, <2>1 DEF FileInv, HoldsCut, Reported
  <2>3. ASSUME NEW v \in Writers PROVE Under(v, o)' /\ Ended(v, o)'
    <3>1. Under(v, o) /\ Ended(v, o)
      BY <2>1 DEF FileInv
    <3>2. CASE v = w
      BY <1>2, <1>3, <1>4, <3>1, <3>2 DEF Under, Ended, Writing, Out
    <3>3. CASE v # w
      BY <1>2, <1>4, <3>1, <3>3 DEF Under, Ended, Writing, Out
    <3> QED BY <3>2, <3>3
  <2> QED BY <2>2, <2>3 DEF FileInv
<1>6. /\ files' \in [Paths -> Seq(Int)] /\ author' \in [Paths -> Authors]
      /\ console' \in [Paths -> Jobs \union {NoJob}]
      /\ mixed' \subseteq Paths /\ lost' \subseteq Paths
  BY <1>1, <1>4 DEF Types
<1> QED BY <1>1, <1>2, <1>3, <1>4, <1>5, <1>6, OneFileTouched

(* A stream that failed: the file keeps what it had.                       *)
LEMMA Fails ==
    ASSUME ImportInv, NEW w \in Writers, OpenFails(w) \/ FlushFails(w)
    PROVE  ImportInv'
<1>1. Types /\ JobsInv
  BY DEF ImportInv
<1>2. /\ writer' \in [Writers -> WriterStates] /\ JobsInv'
      /\ \A v \in Writers \ {w} : writer'[v] = writer[v]
      /\ writer'[w].st = "done" /\ ~writer'[w].ok
  BY <1>1, EndStep
<1>3. UNCHANGED <<files, meta, panel, author, console, mixed, lost>>
  BY DEF OpenFails, FlushFails
<1>4. \A p \in Paths, v \in Writers : Quiet(v, p)
  BY <1>2 DEF Quiet
<1> QED BY <1>1, <1>2, <1>3, <1>4, NoFileTouched DEF Types

(* The close writes all that remains.                                      *)
LEMMA Closes ==
    ASSUME ImportInv, NEW w \in Writers, CloseFile(w)
    PROVE  ImportInv'
<1> DEFINE j == writer[w].job
           n == writer[w].pos
           ws == writer[w].rest
<1>1. Types /\ JobsInv
  BY DEF ImportInv
<1>2. /\ writer' \in [Writers -> WriterStates] /\ JobsInv'
      /\ \A v \in Writers \ {w} : writer'[v] = writer[v]
      /\ writer'[w].st = "done" /\ writer'[w].job = j
  BY <1>1, EndStep
<1>3. writer[w].st = "close"
  BY DEF CloseFile
<1>4. j \in Jobs /\ Askable(j) /\ Out(w) \in Paths
  BY <1>1, <1>3, AtWork
<1>5. PICK o \in Paths : Out(w) = o
  BY <1>4
<1>6. /\ files' = [files EXCEPT ![o] = Put(files[o], n, ws)]
      /\ UNCHANGED <<meta, panel, author, console, mixed, lost>>
  BY <1>1, <1>5 DEF CloseFile, Types
<1>7. n \in Nat /\ ws \in Seq(Int) /\ files[o] \in Seq(Int)
  BY <1>1 DEF Types, WriterStates
<1>8. Put(files[o], n, ws) \in Seq(Int)
  BY <1>7, PutType
<1>9. ASSUME o \notin mixed PROVE FileInv(o)'
  <2>1. FileInv(o) /\ Under(w, o) /\ Writing(w, o)
    BY <1>3, <1>5, <1>9 DEF ImportInv, FileInv, Writing
  <2>2. /\ author[o] = [w |-> w, job |-> j] /\ n <= Len(Words(j))
        /\ files[o] = Cut(j, n) /\ ws = Remains(j, n)
        /\ console[o] = NoJob /\ o \notin lost
    BY <2>1 DEF Under
  <2> DEFINE N == Len(Words(j))
  <2>3. N \in Nat /\ n \in 0 .. N /\ N - n \in Nat /\ N \in 0 .. N
    <3>1. N \in Nat
      BY <1>4, WholeFile
    <3> HIDE DEF N
    <3>2. n <= N
      BY <2>2 DEF N
    <3> QED BY <1>7, <3>1, <3>2
  <2>4. Len(Cut(j, n)) = n /\ ws \in Seq(Int) /\ Len(ws) = N - n
    BY <1>4, <2>2, <2>3, CutProperties
  <2>5. SubSeq(ws, 1, N - n) = ws
    BY <2>4, SubSeqFull
  <2>6. n + (N - n) = N
    BY <2>3
  <2>7. Cut(j, n) \o ws = Cut(j, N)
    <3> DEFINE k == N - n
    <3>1. k \in Nat /\ n + k = N /\ n + k <= Len(Words(j)) /\ n \in Nat
      BY <1>7, <2>3, <2>6
    <3>2. ws = Remains(j, n) /\ SubSeq(ws, 1, k) = ws
      BY <2>2, <2>5
    <3> HIDE DEF k, N, ws, n, j
    <3>3. Cut(j, n) \o SubSeq(Remains(j, n), 1, k) = Cut(j, n + k)
      BY <1>4, <3>1, NextWords
    <3> QED BY <3>1, <3>2, <3>3
  <2>8. files'[o] = Words(j) /\ files'[o] = Cut(j, N)
    <3>1. files'[o] = Put(files[o], n, ws)
      BY <1>1, <1>6 DEF Types
    <3>2. Put(files[o], Len(files[o]), ws) = files[o] \o ws
      BY <1>7, PutAppends
    <3>3. Cut(j, N) = Words(j)
      BY <1>4, <2>3, CutProperties
    <3> QED BY <2>2, <2>4, <2>7, <3>1, <3>2, <3>3
  <2>9. author'[o].w = w /\ author'[o].job = j
    BY <1>6, <2>2
  <2> HIDE DEF j, n, ws
  <2>10. HoldsCut(o)'
    <3>1. w # ""
      BY DEF Writers
    <3>2. HoldsCut(o)' <=> \/ author'[o].w = "" /\ files'[o] = Absent
                          \/ /\ author'[o].w # "" /\ author'[o].job \in Jobs /\ Askable(author'[o].job)
                             /\ \E m \in 0 .. Len(Words(author'[o].job)) : files'[o] = Cut(author'[o].job, m)
      BY DEF HoldsCut, Cut
    <3> QED BY <1>4, <2>3, <2>8, <2>9, <3>1, <3>2, Zenon DEF N
  <2>11. Reported(o)'
    BY <1>6, <2>2 DEF Reported
  <2>12. ASSUME NEW v \in Writers PROVE Under(v, o)' /\ Ended(v, o)'
    <3>1. CASE v = w
      BY <1>2, <2>8, <2>9, <3>1 DEF Under, Ended, Writing
    <3>2. CASE v # w
      <4>1. ~Writing(v, o)
        <5>1. Under(v, o)
          BY <2>1 DEF FileInv
        <5>2. Writing(v, o) => author[o].w = v
          BY <5>1 DEF Under
        <5>3. author[o].w = w
          BY <2>2
        <5> QED BY <3>2, <5>2, <5>3
      <4>2. ~Writing(v, o)'
        BY <1>2, <3>2, <4>1 DEF Writing, Out
      <4> QED BY <2>9, <3>2, <4>2 DEF Under, Ended
    <3> QED BY <3>1, <3>2
  <2> QED BY <2>10, <2>11, <2>12 DEF FileInv
<1>10. files' \in [Paths -> Seq(Int)]
  BY <1>1, <1>6, <1>8 DEF Types
<1>11. \A p \in Paths \ {o} : files'[p] = files[p]
  BY <1>1, <1>6 DEF Types
<1>12. /\ author' \in [Paths -> Authors] /\ console' \in [Paths -> Jobs \union {NoJob}]
       /\ mixed' \subseteq Paths /\ lost' \subseteq Paths
  BY <1>1, <1>6 DEF Types
<1> HIDE DEF n, ws
<1> QED BY <1>2, <1>5, <1>6, <1>9, <1>10, <1>11, <1>12, OneFileTouched

(* A close whose write fails loses the file, whatever was said of it.      *)
LEMMA CloseLoses ==
    ASSUME ImportInv, NEW w \in Writers, CloseFails(w)
    PROVE  ImportInv'
<1>1. Types /\ JobsInv
  BY DEF ImportInv
<1>2. /\ writer' \in [Writers -> WriterStates] /\ JobsInv'
      /\ \A v \in Writers \ {w} : writer'[v] = writer[v]
      /\ writer'[w].st = "done" /\ writer'[w].job = writer[w].job
  BY <1>1, EndStep
<1>3. writer[w].st = "close"
  BY DEF CloseFails
<1>4. PICK o \in Paths : Out(w) = o
  BY <1>1, <1>3, AtWork
<1>5. lost' = lost \union {o} /\ UNCHANGED <<files, meta, panel, author, console, mixed>>
  BY <1>4 DEF CloseFails
<1>6. ASSUME o \notin mixed PROVE FileInv(o)'
  <2>1. FileInv(o)
    BY <1>6 DEF ImportInv
  <2>2. HoldsCut(o)' /\ Reported(o)'
    BY <1>5, <2>1 DEF FileInv, HoldsCut, Reported
  <2>3. ASSUME NEW v \in Writers PROVE Under(v, o)' /\ Ended(v, o)'
    <3>1. ~Writing(v, o)'
      <4>1. CASE v = w
        BY <1>2, <4>1 DEF Writing
      <4>2. CASE v # w
        <5>1. Under(v, o) /\ Under(w, o) /\ Writing(w, o)
          BY <1>3, <1>4, <2>1 DEF FileInv, Writing
        <5>2. author[o].w = w /\ (Writing(v, o) => author[o].w = v)
          BY <5>1 DEF Under
        <5> QED BY <1>2, <4>2, <5>2 DEF Writing, Out
      <4> QED BY <4>1, <4>2
    <3> QED BY <1>5, <3>1 DEF Under, Ended
  <2> QED BY <2>2, <2>3 DEF FileInv
<1>7. /\ files' \in [Paths -> Seq(Int)] /\ author' \in [Paths -> Authors]
      /\ console' \in [Paths -> Jobs \union {NoJob}]
      /\ mixed' \subseteq Paths /\ lost' \subseteq Paths
  BY <1>1, <1>5 DEF Types
<1>8. \A p \in Paths \ {o} : p \in lost' <=> p \in lost
  BY <1>5
<1> QED BY <1>1, <1>2, <1>4, <1>5, <1>6, <1>7, <1>8, OneFileTouched
------------------------------------------------------------------------------
(* The import thread's end, the cooker's, and the main thread.             *)

(* The result of the import thread is in.                                  *)
LEMMA Finishes ==
    ASSUME ImportInv, FinishImport
    PROVE  ImportInv'
<1> DEFINE w == "import"
<1>1. Types /\ JobsInv /\ w \in Writers
  BY DEF ImportInv, Writers
<1>2. writer[w].st = "done" /\ writer' = [writer EXCEPT ![w].st = "ready"]
  BY DEF FinishImport
<1>3. UNCHANGED <<files, panel, author, console, mixed, lost>>
  BY DEF FinishImport
<1>4. writer[w].job \in Jobs /\ Out(w) \in Paths
  BY <1>1, <1>2, AtWork
<1>5. meta' \in [Paths -> Jobs \union {NoJob}]
  BY <1>1, <1>4 DEF FinishImport, Types
<1>6. /\ writer' \in [Writers -> WriterStates]
      /\ \A v \in Writers \ {w} : writer'[v] = writer[v]
      /\ writer'[w].st = "ready" /\ writer'[w].job = writer[w].job /\ writer'[w].ok = writer[w].ok
  BY <1>1, <1>2 DEF Types, WriterStates, Stages
<1>7. JobsInv'
  BY <1>1, <1>2, <1>3, <1>6, WriterMoves
<1>8. \A p \in Paths, v \in Writers : Quiet(v, p)
  BY <1>2, <1>6 DEF Quiet
<1> QED BY <1>1, <1>3, <1>5, <1>6, <1>7, <1>8, NoFileTouched DEF Types

(* A writer is given a new job, or gives its last one up, and that is all. *)
LEMMA Reassigned ==
    ASSUME ImportInv, NEW w \in Writers, NEW r \in WriterStates, r.st \in {"idle", "open"},
           r.st = "open" => Taken(w, r.job) /\ ~r.ok /\ r.pos = 0,
           writer' = [writer EXCEPT ![w] = r],
           panel' \in [entries : SUBSET Paths, asks : Sources \union {""}],
           panel'.asks = panel.asks \/ panel'.asks = "",
           console' = console, UNCHANGED <<files, meta, author, mixed, lost>>
    PROVE  ImportInv'
<1>1. Types /\ JobsInv
  BY DEF ImportInv
<1>2. /\ writer' \in [Writers -> WriterStates] /\ JobsInv'
      /\ writer'[w] = r /\ \A v \in Writers \ {w} : writer'[v] = writer[v]
  BY <1>1, WriterTakes
<1>3. \A p \in Paths, v \in Writers : Quiet(v, p)
  BY <1>2 DEF Quiet
<1> QED BY <1>1, <1>2, <1>3, NoFileTouched DEF Types

(* No writer moves.                                                        *)
LEMMA WritersStay ==
    ASSUME ImportInv, UNCHANGED <<files, meta, writer, author, console, mixed, lost>>,
           panel' \in [entries : SUBSET Paths, asks : Sources \union {""}],
           panel'.asks # "" => Source[panel'.asks].kind = "gltf"
    PROVE  ImportInv'
<1>1. Types /\ JobsInv
  BY DEF ImportInv
<1>2. panel'.asks \in Sources \union {""}
  OBVIOUS
<1>3. JobsInv'
  BY <1>1, <1>2 DEF JobsInv, Taken
<1>4. \A p \in Paths, v \in Writers : Quiet(v, p)
  BY DEF Quiet
<1> QED BY <1>1, <1>3, <1>4, NoFileTouched DEF Types

(* The import thread is asked, or is busy and stays as it was.             *)
LEMMA Begins ==
    ASSUME ImportInv, NEW s \in Of("gltf"), NEW c \in Collisions,
           BeginImport([src |-> s, coll |-> c]),
           panel' \in [entries : SUBSET Paths, asks : Sources \union {""}],
           panel'.asks = panel.asks \/ panel'.asks = "",
           UNCHANGED <<files, meta, author, console, mixed, lost>>
    PROVE  ImportInv'
<1> DEFINE j == [src |-> s, coll |-> c]
<1>1. s \in Sources /\ Source[s].kind = "gltf" /\ "import" \in Writers
  BY DEF Of, Writers
<1>2. CASE writer' = writer
  <2>1. panel'.asks # "" => Source[panel'.asks].kind = "gltf"
    BY DEF ImportInv, JobsInv
  <2> QED BY <1>2, <2>1, WritersStay
<1>3. CASE writer' = [writer EXCEPT !["import"] = Asked(j)]
  <2>1. /\ Taken("import", j) /\ Asked(j) \in WriterStates /\ Asked(j).st = "open" /\ ~Asked(j).ok
        /\ Asked(j).pos = 0 /\ Asked(j).job = j
    BY <1>1, NewJob
  <2> HIDE DEF j
  <2> QED BY <1>1, <1>3, <2>1, Reassigned
<1> QED BY <1>2, <1>3 DEF BeginImport

LEMMA MainSteps ==
    ASSUME ImportInv,
           \/ RefreshPanel \/ ModalCancel \/ CookerEnds
           \/ \E s \in Of("gltf") : DoubleClick(s) \/ AskSettings(s)
           \/ \E c \in Collisions : ModalImport(c)
           \/ \E s \in Of("image") : ImportTexture(s)
           \/ \E s \in Of("gltf") \union Of("hdr") : Cook(s)
           \/ \E p \in Paths : PreviewAsset(p) \/ DrainMesh(p) \/ DropTexture(p) \/ DrawCollider(p)
    PROVE  ImportInv'
<1> DEFINE Panels == [entries : SUBSET Paths, asks : Sources \union {""}]
<1>1. Types /\ JobsInv /\ panel \in Panels
  BY DEF ImportInv, Types
<1>2. panel.asks # "" => panel.asks \in Sources /\ Source[panel.asks].kind = "gltf"
  BY <1>1 DEF JobsInv
<1>3. "no" \in Collisions /\ "import" \in Writers /\ "texture" \in Writers /\ "cooker" \in Writers
  BY DEF Collisions, Writers
<1>4. ASSUME NEW a \in Sources \union {""}
      PROVE  [panel EXCEPT !.asks = a] \in Panels /\ [panel EXCEPT !.asks = a].asks = a
  BY <1>1
<1>5. CASE RefreshPanel
  <2>1. panel' \in Panels /\ panel'.asks = panel.asks
    BY <1>1, <1>5, RefreshedType DEF RefreshPanel
  <2>2. UNCHANGED <<files, meta, writer, author, console, mixed, lost>>
    BY <1>5 DEF RefreshPanel
  <2> QED BY <1>2, <2>1, <2>2, WritersStay
<1>6. CASE ModalCancel
  <2>1. panel' \in Panels /\ panel'.asks = ""
    BY <1>4, <1>6 DEF ModalCancel
  <2>2. UNCHANGED <<files, meta, writer, author, console, mixed, lost>>
    BY <1>6 DEF ModalCancel
  <2> QED BY <2>1, <2>2, WritersStay
<1>7. CASE CookerEnds
  <2>1. writer' = [writer EXCEPT !["cooker"] = Idle]
    BY <1>7 DEF CookerEnds
  <2>2. UNCHANGED <<files, meta, panel, author, console, mixed, lost>>
    BY <1>7 DEF CookerEnds
  <2>3. panel' \in Panels /\ panel'.asks = panel.asks
    BY <1>1, <2>2
  <2> QED BY <1>3, <2>1, <2>2, <2>3, IdleType, Reassigned
<1>8. CASE \E s \in Of("gltf") : DoubleClick(s)
  <2>1. PICK s \in Of("gltf") : DoubleClick(s)
    BY <1>8
  <2>2. /\ BeginImport([src |-> s, coll |-> "no"])
        /\ UNCHANGED <<files, meta, panel, author, console, mixed, lost>>
    BY <2>1 DEF DoubleClick
  <2>3. panel' \in Panels /\ panel'.asks = panel.asks
    BY <1>1, <2>2
  <2> QED BY <1>3, <2>2, <2>3, Begins
<1>9. CASE \E s \in Of("gltf") : AskSettings(s)
  <2>1. PICK s \in Of("gltf") : AskSettings(s)
    BY <1>9
  <2>2. s \in Sources /\ Source[s].kind = "gltf"
    BY DEF Of
  <2>3. panel' \in Panels /\ panel'.asks = s
    BY <1>4, <2>1, <2>2 DEF AskSettings
  <2>4. UNCHANGED <<files, meta, writer, author, console, mixed, lost>>
    BY <2>1 DEF AskSettings
  <2> QED BY <2>2, <2>3, <2>4, WritersStay
<1>10. CASE \E c \in Collisions : ModalImport(c)
  <2>1. PICK c \in Collisions : ModalImport(c)
    BY <1>10
  <2>2. /\ BeginImport([src |-> panel.asks, coll |-> c]) /\ panel.asks # ""
        /\ panel' = [panel EXCEPT !.asks = ""]
        /\ UNCHANGED <<files, meta, author, console, mixed, lost>>
    BY <2>1 DEF ModalImport
  <2>3. panel.asks \in Of("gltf")
    BY <1>2, <2>2 DEF Of
  <2>4. panel' \in Panels /\ panel'.asks = ""
    BY <1>4, <2>2
  <2> QED BY <2>2, <2>3, <2>4, Begins
<1>11. CASE \E s \in Of("image") : ImportTexture(s)
  <2>1. PICK s \in Of("image") : ImportTexture(s)
    BY <1>11
  <2> DEFINE j == [src |-> s, coll |-> "no"]
  <2>2. s \in Sources /\ Source[s].kind = "image"
    BY DEF Of
  <2>3. UNCHANGED <<files, meta, panel, author, console, mixed, lost>>
    BY <2>1 DEF ImportTexture
  <2>4. panel' \in Panels /\ panel'.asks = panel.asks
    BY <1>1, <2>3
  <2>5. CASE ExtractTextures(s) = << >>
    <3>1. writer' = writer
      BY <2>1, <2>5 DEF ImportTexture
    <3> QED BY <1>2, <2>3, <2>4, <3>1, WritersStay
  <2>6. CASE ExtractTextures(s) # << >>
    <3>1. writer' = [writer EXCEPT !["texture"] = Asked(j)]
      BY <2>1, <2>6 DEF ImportTexture
    <3>2. /\ Taken("texture", j) /\ Asked(j) \in WriterStates /\ Asked(j).st = "open" /\ ~Asked(j).ok
          /\ Asked(j).pos = 0 /\ Asked(j).job = j
      BY <1>3, <2>2, <2>6, NewJob
    <3> HIDE DEF j
    <3> QED BY <1>3, <2>3, <2>4, <3>1, <3>2, Reassigned
  <2> QED BY <2>5, <2>6
<1>12. CASE \E s \in Of("gltf") \union Of("hdr") : Cook(s)
  <2>1. PICK s \in Of("gltf") \union Of("hdr") : Cook(s)
    BY <1>12
  <2> DEFINE j == [src |-> s, coll |-> "no"]
  <2>2. s \in Sources /\ Source[s].kind # "image"
    BY DEF Of
  <2>3. UNCHANGED <<files, meta, panel, author, console, mixed, lost>>
    BY <2>1 DEF Cook
  <2>4. panel' \in Panels /\ panel'.asks = panel.asks
    BY <1>1, <2>3
  <2>5. writer' = [writer EXCEPT !["cooker"] = Asked(j)]
    BY <2>1 DEF Cook
  <2>6. /\ Taken("cooker", j) /\ Asked(j) \in WriterStates /\ Asked(j).st = "open" /\ ~Asked(j).ok
        /\ Asked(j).pos = 0 /\ Asked(j).job = j
    BY <1>3, <2>2, NewJob
  <2> HIDE DEF j
  <2> QED BY <1>3, <2>3, <2>4, <2>5, <2>6, Reassigned
<1>13. CASE \E p \in Paths : PreviewAsset(p) \/ DrainMesh(p) \/ DropTexture(p) \/ DrawCollider(p)
  <2>1. UNCHANGED <<files, meta, writer, panel, author, console, mixed, lost>>
    BY <1>13 DEF PreviewAsset, DrainMesh, DropTexture, DrawCollider, Loads
  <2> QED BY <1>1, <1>2, <2>1, WritersStay
<1> QED BY <1>5, <1>6, <1>7, <1>8, <1>9, <1>10, <1>11, <1>12, <1>13

(* The user is told of a job whose file is whole, unless its last buffer   *)
(* was lost at the close.                                                  *)
LEMMA TellsUser ==
    ASSUME ImportInv, NEW w \in {"import", "texture"}, writer[w].st \in {"done", "ready"},
           console' = Told(w), writer' = [writer EXCEPT ![w] = Idle],
           panel' = IF writer[w].ok THEN Refreshed ELSE panel,
           UNCHANGED <<files, meta, author, mixed, lost>>
    PROVE  ImportInv'
<1>1. Types /\ JobsInv /\ w \in Writers /\ w # "cooker" /\ w # ""
  BY DEF ImportInv, Writers
<1>2. /\ writer[w].job \in Jobs /\ Askable(writer[w].job) /\ Out(w) \in Paths
      /\ Source[writer[w].job.src].kind # "hdr"
  BY <1>1, AtWork
<1>3. panel' \in [entries : SUBSET Paths, asks : Sources \union {""}] /\ panel'.asks = panel.asks
  BY <1>1, RefreshedType DEF Types
<1>4. /\ writer' \in [Writers -> WriterStates] /\ JobsInv'
      /\ writer'[w] = Idle /\ \A v \in Writers \ {w} : writer'[v] = writer[v]
  BY <1>1, <1>3, IdleType, WriterTakes
<1>5. console' \in [Paths -> Jobs \union {NoJob}]
  BY <1>1, ToldType
<1>6. Types'
  BY <1>1, <1>3, <1>4, <1>5 DEF Types
<1>7. ASSUME NEW p \in Paths \ mixed PROVE FileInv(p)'
  <2>1. FileInv(p)
    BY DEF ImportInv
  <2>2. CASE console'[p] = console[p]
    <3>1. \A v \in Writers : Quiet(v, p)
      BY <1>4, IdleType DEF Quiet
    <3>2. /\ files'[p] = files[p] /\ author'[p] = author[p] /\ (p \in lost' <=> p \in lost)
          /\ console'[p] \in {console[p], NoJob}
      BY <2>2
    <3> QED BY <2>1, <3>1, <3>2, Elsewhere
  <2>3. CASE console'[p] # console[p]
    <3>1. p = Out(w) /\ writer[w].ok /\ author[p].w = w /\ console'[p] = writer[w].job
      BY <1>1, <2>3 DEF Told, Types
    <3>2. p \notin lost => files[p] = Words(writer[w].job)
      BY <1>1, <2>1, <3>1 DEF FileInv, Ended
    <3>3. Reported(p)'
      BY <1>2, <3>1, <3>2 DEF Reported
    <3>4. HoldsCut(p)'
      BY <2>1 DEF FileInv, HoldsCut
    <3>5. ASSUME NEW v \in Writers PROVE Under(v, p)' /\ Ended(v, p)'
      <4>1. CASE v = w
        BY <1>4, <4>1, IdleType DEF Under, Ended, Writing
      <4>2. CASE v # w
        <5>1. Under(v, p) /\ (Writing(v, p) => author[p].w = v)
          BY <2>1 DEF FileInv, Under
        <5>2. ~Writing(v, p)'
          BY <1>4, <3>1, <4>2, <5>1 DEF Writing, Out
        <5>3. author'[p].w # v
          BY <3>1, <4>2
        <5> QED BY <5>2, <5>3 DEF Under, Ended
      <4> QED BY <4>1, <4>2
    <3> QED BY <3>3, <3>4, <3>5 DEF FileInv
  <2> QED BY <2>2, <2>3
<1> QED BY <1>4, <1>6, <1>7 DEF ImportInv

(* A crash of the editor leaves the files as they were.                    *)
LEMMA Crashes ==
    ASSUME ImportInv, Crash
    PROVE  ImportInv'
<1>1. Types /\ JobsInv
  BY DEF ImportInv
<1>2. /\ writer' = [writer EXCEPT !["import"] = Idle, !["texture"] = Idle]
      /\ panel' = [entries |-> Listed, asks |-> ""]
      /\ console' = [p \in Paths |-> NoJob]
      /\ UNCHANGED <<files, meta, author, mixed, lost>>
  BY DEF Crash
<1>3. /\ writer' \in [Writers -> WriterStates]
      /\ \A v \in Writers : writer'[v] = writer[v] \/ writer'[v] = Idle
  BY <1>1, <1>2, IdleType DEF Types
<1>4. JobsInv'
  <2>1. ASSUME NEW v \in Writers
        PROVE  /\ writer'[v].st # "idle" => Taken(v, writer'[v].job)
               /\ writer'[v].st \in {"open", "write"} => ~writer'[v].ok
               /\ writer'[v].st = "open" => writer'[v].pos = 0
    BY <1>1, <1>3, IdleType DEF JobsInv
  <2> QED BY <1>2, <2>1 DEF JobsInv, Taken
<1>5. \A p \in Paths, v \in Writers : Quiet(v, p)
  BY <1>3, IdleType DEF Quiet
<1>6. Listed \subseteq Paths
  BY DEF Listed
<1> QED BY <1>1, <1>2, <1>3, <1>4, <1>5, <1>6, NoFileTouched DEF Types
------------------------------------------------------------------------------
(* The theorems.                                                           *)

LEMMA InitInv == Init => ImportInv
<1> SUFFICES ASSUME Init PROVE ImportInv
  OBVIOUS
<1>1. Absent \in Seq(Int)
  BY DEF Absent
<1>2. Types
  BY <1>1, IdleType DEF Init, Types, Authors
<1>3. \A w \in Writers : writer[w].st = "idle" /\ ~writer[w].ok
  BY IdleType DEF Init
<1>4. JobsInv
  BY <1>3 DEF Init, JobsInv
<1>5. ASSUME NEW p \in Paths PROVE FileInv(p)
  <2>1. HoldsCut(p) /\ Reported(p)
    BY DEF Init, HoldsCut, Reported
  <2>2. \A w \in Writers : Under(w, p) /\ Ended(w, p)
    BY <1>3 DEF Under, Ended, Writing
  <2> QED BY <2>1, <2>2 DEF FileInv
<1> QED BY <1>2, <1>4, <1>5 DEF ImportInv

LEMMA NextInv == ImportInv /\ [Next]_vars => ImportInv'
<1> SUFFICES ASSUME ImportInv, [Next]_vars PROVE ImportInv'
  OBVIOUS
<1>1. CASE \E w \in Writers : \/ OpenFile(w) \/ OpenFails(w) \/ Flush(w) \/ FlushFails(w)
                              \/ Good(w) \/ CloseFile(w) \/ CloseFails(w)
  BY <1>1, Opens, Fails, Flushes, AsksTheStream, Closes, CloseLoses
<1>2. CASE FinishImport
  BY <1>2, Finishes
<1>3. CASE TickImporter
  <2>1. /\ writer["import"].st = "ready" /\ console' = Told("import")
        /\ panel' = IF writer["import"].ok THEN Refreshed ELSE panel
        /\ writer' = [writer EXCEPT !["import"] = Idle]
        /\ UNCHANGED <<files, meta, author, mixed, lost>>
    BY <1>3 DEF TickImporter
  <2> QED BY <2>1, TellsUser
<1>4. CASE TextureImported
  <2>1. /\ writer["texture"].st = "done" /\ console' = Told("texture")
        /\ panel' = IF writer["texture"].ok THEN Refreshed ELSE panel
        /\ writer' = [writer EXCEPT !["texture"] = Idle]
        /\ UNCHANGED <<files, meta, author, mixed, lost>>
    BY <1>4 DEF TextureImported
  <2> QED BY <2>1, TellsUser
<1>5. CASE \/ RefreshPanel \/ ModalCancel \/ CookerEnds
           \/ \E s \in Of("gltf") : DoubleClick(s) \/ AskSettings(s)
           \/ \E c \in Collisions : ModalImport(c)
           \/ \E s \in Of("image") : ImportTexture(s)
           \/ \E s \in Of("gltf") \union Of("hdr") : Cook(s)
           \/ \E p \in Paths : PreviewAsset(p) \/ DrainMesh(p) \/ DropTexture(p) \/ DrawCollider(p)
  BY <1>5, MainSteps
<1>6. CASE Crash
  BY <1>6, Crashes
<1>7. CASE UNCHANGED vars
  <2>1. UNCHANGED <<files, meta, writer, panel, author, console, mixed, lost>>
    BY <1>7 DEF vars
  <2>2. /\ panel' \in [entries : SUBSET Paths, asks : Sources \union {""}]
        /\ panel'.asks # "" => Source[panel'.asks].kind = "gltf"
    BY <2>1 DEF ImportInv, Types, JobsInv
  <2> QED BY <2>1, <2>2, WritersStay
<1> QED BY <1>1, <1>2, <1>3, <1>4, <1>5, <1>6, <1>7 DEF Next

(* The inductive invariant: types, the jobs of the writers, and for every  *)
(* file that two writers are not mixing, that it holds the beginning of    *)
(* what its author was asked for, all of it once the author is done        *)
(* (EditorImporter, writeEasset, cookIblAsset).                            *)
THEOREM Inductive == Spec => []ImportInv
<1>1. Init => ImportInv
  BY InitInv
<1>2. ImportInv /\ [Next]_vars => ImportInv'
  BY NextInv
<1> QED BY <1>1, <1>2, PTL DEF Spec

(* A file loaded at any moment, in the middle of an import, after a failed *)
(* one or after a crash, gives nothing or what its last writer was asked   *)
(* for (writeEasset, loadEasset, loadIblEasset).                           *)
THEOREM LoadsAreWhole == Spec => []FilesReadWhole
<1>1. ASSUME ImportInv PROVE FilesReadWhole
  <2>1. Types
    BY <1>1 DEF ImportInv
  <2>2. TypeOK
    <3>1. ASSUME NEW p \in Paths, NEW i \in DOMAIN files[p] PROVE files[p][i] \in Int
      <4>1. files[p] \in Seq(Int)
        BY <2>1 DEF Types
      <4>2. i \in 1 .. Len(files[p])
        BY <4>1, LenProperties
      <4> QED BY <4>1, <4>2, ElementOfSeq
    <3>2. \A w \in Writers : /\ writer[w].st \in {"idle", "open", "write", "close", "done", "ready"}
                             /\ writer[w].job \in Jobs \union {NoJob} /\ writer[w].pos \in Nat
      BY <2>1 DEF Types, WriterStates, Stages
    <3> QED BY <2>1, <3>1, <3>2 DEF TypeOK, Types
  <2>3. ASSUME NEW p \in Paths \ mixed PROVE GivesOnly(author[p].job, files[p])
    <3>1. HoldsCut(p)
      BY <1>1 DEF ImportInv, FileInv
    <3>2. CASE files[p] = Absent
      BY <3>2, AbsentGivesOnly
    <3>3. CASE files[p] # Absent
      <4>1. author[p].job \in Jobs /\ Askable(author[p].job)
        BY <3>1, <3>3 DEF HoldsCut
      <4>2. PICK n \in 0 .. Len(Words(author[p].job)) : files[p] = Cut(author[p].job, n)
        BY <3>1, <3>3 DEF HoldsCut
      <4> QED BY <4>1, <4>2, CutGivesOnly
    <3> QED BY <3>2, <3>3
  <2> QED BY <2>2, <2>3 DEF FilesReadWhole
<1> QED BY <1>1, Inductive, PTL

(* An import reported as done has left a file that can be read and holds   *)
(* its source, until the next writer opens it (EditorApp::frame's status   *)
(* line, writeEasset's return value).                                      *)
THEOREM ReportedIsReadable == Spec => []SuccessIsReadable
<1>1. ASSUME ImportInv PROVE SuccessIsReadable
  <2>1. ASSUME NEW p \in Paths \ (mixed \union lost), console[p] # NoJob
        PROVE  LoadEasset(files[p]).ok /\ Reads(console[p], LoadEasset(files[p]))
    <3>1. Reported(p)
      BY <1>1 DEF ImportInv, FileInv
    <3>2. /\ console[p] \in Jobs /\ Askable(console[p]) /\ Source[console[p].src].kind # "hdr"
          /\ files[p] = Words(console[p])
      BY <2>1, <3>1 DEF Reported
    <3>3. GivesOnly(console[p], files[p]) /\ LoadEasset(files[p]).ok
      BY <3>2, WholeFile
    <3> QED BY <3>3 DEF GivesOnly
  <2> QED BY <2>1 DEF SuccessIsReadable
<1> QED BY <1>1, Inductive, PTL
==============================================================================
