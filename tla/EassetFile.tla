----------------------------- MODULE EassetFile -----------------------------
(***************************************************************************)
(* The .easset container: what the writers of AssetImporter.cpp and        *)
(* IblCooker.cpp put into a file and what the loaders of EassetLoader.cpp  *)
(* make of one, intact or not.  A file is a sequence of 32-bit words       *)
(* (every size and offset of the format is a multiple of four bytes; sizes *)
(* and offsets here count words).  A four-character id is a number no      *)
(* payload word has.                                                       *)
(***************************************************************************)
EXTENDS Integers, Sequences, SequencesExt

Magic == 9001
Mesh  == 9002
Coll  == 9003
Tex   == 9004
Cmap  == 9005
Brdf  == 9006

HeaderSize == 5
EntrySize == 4
MeshHeader == 9
VertexSize == 7
CollHeader == 3
TexHeader == 4
MipHeader == 3
Static == 1                     \* the vertex layout

Up(n) == 1 .. n
Concat(s) == FoldLeft(LAMBDA acc, t : acc \o t, <<>>, s)
Each(s, Op(_)) == Concat([i \in DOMAIN s |-> Op(s[i])])
SumOf(s, Op(_)) == FoldLeft(LAMBDA acc, t : acc + Op(t), 0, s)
------------------------------------------------------------------------------
(* Writing.  A section carries the size announced in its table entry,      *)
(* which the code computes apart from the words it then streams.           *)

\* A vertex: position, normal, tangent, texture coordinate.
VertexWords(v) == <<v.p, v.p, v.p, v.n, 0, v.u, v.u>>

MeshSection(m) ==
    [id |-> Mesh, size |-> MeshHeader + VertexSize * Len(m.verts) + Len(m.idx),
     words |-> <<Len(m.verts), Len(m.idx), Static, 0, 0, 0, 0, 0, 0>>
               \o Each(m.verts, VertexWords) \o m.idx]

CollSection(c) ==
    [id |-> Coll, size |-> CollHeader + 3 * Len(c.verts) + Len(c.idx),
     words |-> <<c.type, Len(c.verts), Len(c.idx)>>
               \o Each(c.verts, LAMBDA p : <<p, p, p>>) \o c.idx]

ComputeTexSectionSize(t) == TexHeader + SumOf(t, LAMBDA mip : MipHeader + Len(mip.px))
TexSection(t) ==
    [id |-> Tex, size |-> ComputeTexSectionSize(t),
     words |-> <<28, t[1].w, t[1].h, Len(t)>>
               \o Each(t, LAMBDA mip : <<mip.w, mip.h, Len(mip.px)>> \o mip.px)]

CmapSection(c) ==
    [id |-> Cmap, size |-> 3 + SumOf(c.mips, LAMBDA mip : MipHeader + Len(mip.px)),
     words |-> <<c.faces, c.levels, c.base>>
               \o Each(c.mips, LAMBDA mip : <<mip.face, mip.level, Len(mip.px)>> \o mip.px)]

BrdfSection(b) == [id |-> Brdf, size |-> 2 + Len(b.px), words |-> <<b.w, b.h>> \o b.px]

Aligned(n) == ((n + 15) \div 16) * 16

\* Where each section starts and where the file ends.
Layout(secs) ==
    FoldLeft(LAMBDA acc, s : [at |-> Append(acc.at, Aligned(acc.end)), end |-> Aligned(acc.end) + s.size],
             [at |-> <<>>, end |-> HeaderSize + EntrySize * Len(secs)], secs)

PadTo64(words) == words \o [i \in Up(Aligned(Len(words)) - Len(words)) |-> 0]

\* The words a writer streams: header, table, and each section after padding.
Stream(version, type, secs) ==
    LET lay == Layout(secs)
        table == [i \in DOMAIN secs |-> <<secs[i].id, lay.at[i], secs[i].size, 0>>]
        head == <<Magic, version + 65536 * type, lay.end, HeaderSize, Len(secs)>> \o Concat(table)
    IN  FoldLeft(LAMBDA acc, s : PadTo64(acc) \o s.words, head, secs)

\* writeEasset
WriteEasset(m) ==
    Stream(IF m.texs # <<>> THEN 3 ELSE IF m.coll # <<>> THEN 2 ELSE 1, 0,
           <<MeshSection(m)>> \o [i \in DOMAIN m.coll |-> CollSection(m.coll[i])]
                              \o [i \in DOMAIN m.texs |-> TexSection(m.texs[i])])

\* writeTextureOnlyEasset
WriteTextureOnly(texs) == Stream(3, 0, [i \in DOMAIN texs |-> TexSection(texs[i])])

\* cookIblAsset, from its fourth step on
WriteIbl(d) == Stream(4, 1, <<CmapSection(d.env), BrdfSection(d.brdf)>>)
------------------------------------------------------------------------------
(* Reading. *)
Word(f, at) == f[at + 1]
Slice(f, at, n) == SubSeq(f, at + 1, at + n)

Entries(f) == [i \in Up(Word(f, 4)) |-> LET w == Slice(f, Word(f, 3) + EntrySize * (i - 1), EntrySize)
                                        IN  [id |-> w[1], at |-> w[2], size |-> w[3]]]
EntriesOf(f, id) == SelectSeq(Entries(f), LAMBDA e : e.id = id)
In(f, e, header) == e.at + header <= Len(f) /\ e.at + e.size <= Len(f)

\* Steps 1 to 4 of both loaders.
HeaderOk(f, versions, type) ==
    /\ Len(f) >= HeaderSize
    /\ Word(f, 0) = Magic
    /\ \E v \in versions : Word(f, 1) = v + 65536 * type
    /\ Word(f, 2) <= Len(f)
    /\ Word(f, 3) + EntrySize * Word(f, 4) <= Len(f)

NoMesh == [ok |-> FALSE, verts |-> <<>>, idx |-> <<>>, coll |-> <<>>, texs |-> <<>>]

MeshOk(f, e) == /\ In(f, e, MeshHeader)
                /\ Word(f, e.at + 2) = Static
                /\ MeshHeader + VertexSize * Word(f, e.at) + Word(f, e.at + 1) <= e.size
Vertices(f, e) == [i \in Up(Word(f, e.at)) |->
                     LET w == Slice(f, e.at + MeshHeader + VertexSize * (i - 1), VertexSize)
                     IN  [p |-> w[1], n |-> w[4], u |-> w[6]]]
Indices(f, e) == Slice(f, e.at + MeshHeader + VertexSize * Word(f, e.at), Word(f, e.at + 1))

\* Step 10: a collision section that does not fit is left out.
Collision(f, e) ==
    IF In(f, e, CollHeader) /\ CollHeader + 3 * Word(f, e.at + 1) + Word(f, e.at + 2) <= e.size
    THEN <<[type |-> Word(f, e.at),
            verts |-> [i \in Up(Word(f, e.at + 1)) |-> Word(f, e.at + CollHeader + 3 * (i - 1))],
            idx |-> Slice(f, e.at + CollHeader + 3 * Word(f, e.at + 1), Word(f, e.at + 2))]>>
    ELSE <<>>

\* The mip chains of step 11 and of loadIblEasset: n headers, each with its pixels.
Mips(f, from, n) ==
    FoldLeft(LAMBDA acc, k :
               IF ~acc.ok \/ acc.at + MipHeader > Len(f)
                          \/ acc.at + MipHeader + Word(f, acc.at + 2) > Len(f)
               THEN [acc EXCEPT !.ok = FALSE]
               ELSE [ok |-> TRUE, at |-> acc.at + MipHeader + Word(f, acc.at + 2),
                     mips |-> Append(acc.mips, [a |-> Word(f, acc.at), b |-> Word(f, acc.at + 1),
                                                px |-> Slice(f, acc.at + MipHeader, Word(f, acc.at + 2))])],
             [ok |-> TRUE, at |-> from, mips |-> <<>>], [k \in Up(n) |-> k])

\* One TEX section: none if it does not fit or is not valid.
Texture(f, e) ==
    IF ~In(f, e, TexHeader) THEN <<>>
    ELSE LET chain == Mips(f, e.at + TexHeader, Word(f, e.at + 3))
         IN  IF chain.ok /\ chain.mips # <<>> /\ Word(f, e.at + 1) > 0
             THEN <<[i \in DOMAIN chain.mips |->
                       [w |-> chain.mips[i].a, h |-> chain.mips[i].b, px |-> chain.mips[i].px]]>>
             ELSE <<>>

\* loadEasset.  The last MESH and COLL entries count.
LoadEasset(f) ==
    IF ~HeaderOk(f, {1, 2, 3}, 0) THEN NoMesh
    ELSE LET version == Word(f, 1)
             meshes == EntriesOf(f, Mesh)
             colls == EntriesOf(f, Coll)
             texs == IF version = 3 THEN Each(EntriesOf(f, Tex), LAMBDA e : Texture(f, e)) ELSE <<>>
             e == meshes[Len(meshes)]
             coll == IF colls # <<>> /\ version \in {2, 3} THEN Collision(f, colls[Len(colls)]) ELSE <<>>
         IN  CASE meshes = <<>> /\ texs = <<>> -> NoMesh
               [] meshes = <<>> -> [NoMesh EXCEPT !.ok = TRUE, !.coll = coll, !.texs = texs]
               [] OTHER -> IF ~MeshOk(f, e) THEN NoMesh
                           ELSE [ok |-> TRUE, verts |-> Vertices(f, e), idx |-> Indices(f, e),
                                 coll |-> coll, texs |-> texs]

NoEnv == [faces |-> 0, levels |-> 0, base |-> 0, mips |-> <<>>]
NoLut == [w |-> 0, h |-> 0, px |-> <<>>]

EnvMap(f, e) ==
    IF ~In(f, e, 3) THEN NoEnv
    ELSE LET chain == Mips(f, e.at + 3, Word(f, e.at) * Word(f, e.at + 1))
         IN  IF chain.ok /\ chain.mips # <<>> /\ Word(f, e.at + 1) > 0
             THEN [faces |-> Word(f, e.at), levels |-> Word(f, e.at + 1), base |-> Word(f, e.at + 2),
                   mips |-> [i \in DOMAIN chain.mips |-> [face |-> chain.mips[i].a,
                             level |-> chain.mips[i].b, px |-> chain.mips[i].px]]]
             ELSE NoEnv

BrdfLut(f, e) ==
    IF In(f, e, 2) /\ e.at + 2 + Word(f, e.at) * Word(f, e.at + 1) <= Len(f)
    THEN [w |-> Word(f, e.at), h |-> Word(f, e.at + 1),
          px |-> Slice(f, e.at + 2, Word(f, e.at) * Word(f, e.at + 1))]
    ELSE NoLut

\* loadIblEasset: nothing, or what parses of the two sections.
LoadIblEasset(f) ==
    IF ~HeaderOk(f, {4}, 1) THEN [ok |-> FALSE, env |-> NoEnv, brdf |-> NoLut]
    ELSE LET c == EntriesOf(f, Cmap)
             b == EntriesOf(f, Brdf)
             env == IF c = <<>> THEN NoEnv ELSE EnvMap(f, c[Len(c)])
             lut == IF b = <<>> THEN NoLut ELSE BrdfLut(f, b[Len(b)])
         IN  [ok |-> env # NoEnv \/ lut.px # <<>>, env |-> env, brdf |-> lut]
=============================================================================
