----------------------------- MODULE AssetImport -----------------------------
(***************************************************************************)
(* Importing assets: the editor's background glTF import (EditorImporter), *)
(* its texture import on the main thread, the asset_cooker program beside  *)
(* it, and everything in the editor that loads the files they write.  All  *)
(* three overwrite the output in place, as streams whose buffer reaches    *)
(* the file when it is full and once more at the close, so a load may meet *)
(* any prefix, and a crash may leave one.                                  *)
(***************************************************************************)
EXTENDS EassetFile, FiniteSets

CONSTANTS Source,      \* source files: name -> what parsing it yields and the path it is written to
          Buffer,      \* words a stream's buffer holds
          MaxRequests, MaxLoads, MaxFaults  \* bounds: imports asked for, loads, failed writes and crashes

ASSUME BufferAssumption == Buffer \in Nat \ {0}

VARIABLES
    files,     \* the .easset files
    meta,      \* what each .meta sidecar says the file was made from
    writer,    \* the three writers: the import thread, the texture import, the cooker
    panel,     \* AssetBrowserPanel: entries listed, source its modal asks about
    shown,     \* what each part of the editor holds of each file
    author,    \* who last opened each file, and for which job
    console,   \* the job the user was told is done, until its file is opened again
    mixed,     \* files opened by a writer while another was writing them
    lost,      \* files whose last buffer failed at the close
    left       \* what is left of the bounds

vars == <<files, meta, writer, panel, shown, author, console, mixed, lost, left>>

Sources == DOMAIN Source
Path(s) == Source[s].out
Paths == {Path(s) : s \in Sources}
Of(kind) == {s \in Sources : Source[s].kind = kind}
Collisions == {"no", "triangles", "hull"}
Jobs == [src : Sources, coll : Collisions]
NoJob == [src |-> "", coll |-> "no"]
Absent == <<-1>>
------------------------------------------------------------------------------
(* The conversion of a glTF file.  A primitive is the streams cgltf reads; *)
(* a stream shorter than the positions counts as missing.                  *)
NoRaw == [p |-> <<>>, n |-> <<>>, u |-> <<>>, idx |-> <<>>]
Usable(prim) == prim.triangles /\ prim.indexed /\ prim.pos # <<>>
Zup == 1
Yup == 2
Fill(n, v) == [i \in Up(n) |-> v]
Full(s, prim) == Len(s) = Len(prim.pos)

\* One attribute stream of appendPrimitive, with the default for vertices without it.
Merged(old, new, prim, base, default) ==
    IF Full(new, prim) THEN old \o Fill(base - Len(old), default) \o new
    ELSE IF old = <<>> THEN <<>> ELSE old \o Fill(Len(prim.pos), default)

AppendPrimitive(raw, prim) ==
    IF ~Usable(prim) THEN raw
    ELSE LET base == Len(raw.p)
         IN  [p |-> raw.p \o prim.pos,
              n |-> Merged(raw.n, prim.norm, prim, base, Yup),
              u |-> Merged(raw.u, prim.uv, prim, base, 0),
              idx |-> raw.idx \o [i \in DOMAIN prim.idx |-> base + prim.idx[i]]]

UnitCubeRaw ==
    [p |-> [i \in Up(8) |-> 100 + i], n |-> [i \in Up(8) |-> 100 + i], u |-> [i \in Up(8) |-> 100 + i],
     idx |-> <<0,2,1, 0,3,2, 4,5,6, 4,6,7, 0,4,7, 0,7,3, 1,2,6, 1,6,5, 0,1,5, 0,5,4, 3,7,6, 3,6,2>>]

\* tryParseGltf: failing when no primitive was usable; importGltf falls back to a cube.
Parsed(s) == \E i \in DOMAIN Source[s].prims : Usable(Source[s].prims[i])
Raw(s) == IF Parsed(s) THEN FoldLeft(AppendPrimitive, NoRaw, Source[s].prims) ELSE UnitCubeRaw

\* runMeshoptimizer: equal vertices become one, in the order the indices first use them.
SrcVertex(raw, i) == [p |-> raw.p[i], n |-> IF Len(raw.n) = Len(raw.p) THEN raw.n[i] ELSE Zup,
                      u |-> IF Len(raw.u) = Len(raw.p) THEN raw.u[i] ELSE 0]
RunMeshoptimizer(raw) ==
    LET corners == [i \in DOMAIN raw.idx |-> SrcVertex(raw, raw.idx[i] + 1)]
        verts == FoldLeft(LAMBDA acc, v : IF Contains(acc, v) THEN acc ELSE Append(acc, v), <<>>, corners)
    IN  [verts |-> verts, idx |-> [i \in DOMAIN corners |-> SelectInSeq(verts, LAMBDA v : v = corners[i]) - 1]]

Positions(mesh) == [i \in DOMAIN mesh.verts |-> mesh.verts[i].p]
BuildTriangleMeshCollision(mesh) == [type |-> 0, verts |-> Positions(mesh), idx |-> mesh.idx]
BuildConvexHullCollision(mesh) ==
    [type |-> 1, idx |-> <<>>,
     verts |-> FoldLeft(LAMBDA acc, p : IF Contains(acc, p) THEN acc ELSE Append(acc, p), <<>>, Positions(mesh))]

\* downsampleMip and the chain down to 1 x 1.
Half(n) == IF n > 1 THEN n \div 2 ELSE 1
AtMost(a, b) == IF a < b THEN a ELSE b
DownsampleMip(m) ==
    LET w == Half(m.w)
        Px(x, y) == m.px[AtMost(y, m.h - 1) * m.w + AtMost(x, m.w - 1) + 1]
    IN  [w |-> w, h |-> Half(m.h),
         px |-> [k \in Up(w * Half(m.h)) |->
                   LET x == 2 * ((k - 1) % w)
                       y == 2 * ((k - 1) \div w)
                   IN  (Px(x, y) + Px(x + 1, y) + Px(x, y + 1) + Px(x + 1, y + 1) + 2) \div 4]]
MipChain(img) ==
    FoldLeft(LAMBDA t, k : IF Last(t).w = 1 /\ Last(t).h = 1 THEN t ELSE Append(t, DownsampleMip(Last(t))),
             <<[w |-> img.w, h |-> img.h, px |-> img.px]>>, [k \in Up(img.w + img.h) |-> k])

\* extractTextures: images outside the file and images stb cannot read are skipped.
Decodable(img) == img.embedded /\ img.readable
ExtractTextures(s) == LET imgs == SelectSeq(Source[s].images, Decodable)
                      IN  [i \in DOMAIN imgs |-> MipChain(imgs[i])]

Converted(j) ==
    LET mesh == RunMeshoptimizer(Raw(j.src))
    IN  [verts |-> mesh.verts, idx |-> mesh.idx,
         coll |-> CASE j.coll = "no" -> <<>>
                    [] j.coll = "triangles" -> <<BuildTriangleMeshCollision(mesh)>>
                    [] j.coll = "hull" -> <<BuildConvexHullCollision(mesh)>>,
         texs |-> IF Parsed(j.src) THEN ExtractTextures(j.src) ELSE <<>>]

\* cookIblAsset's bake: every face of every level, level by level.
Baked(s) ==
    LET d == Source[s]
        Side(l) == IF d.base \div (2 ^ l) > 1 THEN d.base \div (2 ^ l) ELSE 1
        Level(l) == [f \in Up(d.faces) |-> [face |-> f - 1, level |-> l, px |-> Fill(2 * Side(l) * Side(l), 10 * l + f)]]
    IN  [env |-> [faces |-> d.faces, levels |-> d.levels, base |-> d.base,
                  mips |-> Concat([l \in Up(d.levels) |-> Level(l - 1)])],
         brdf |-> [w |-> d.lut, h |-> d.lut, px |-> Fill(d.lut * d.lut, 7)]]

\* The words a job streams.
Words(j) == CASE Source[j.src].kind = "gltf" -> WriteEasset(Converted(j))
              [] Source[j.src].kind = "image" -> WriteTextureOnly(ExtractTextures(j.src))
              [] Source[j.src].kind = "hdr" -> WriteIbl(Baked(j.src))
------------------------------------------------------------------------------
(* The writers.  idle, open, write, close, then done: the result is known. *)
Idle == [st |-> "idle", job |-> NoJob, pos |-> 0, rest |-> <<>>, ok |-> FALSE]
Writers == {"import", "texture", "cooker"}
Out(w) == Path(writer[w].job.src)
Writing(w, p) == writer[w].st \in {"write", "close"} /\ Out(w) = p
Asked(j) == [st |-> "open", job |-> j, pos |-> 0, rest |-> <<>>, ok |-> FALSE]
MainFree == writer["texture"].st = "idle"

\* Writing past the end of a file another stream has truncated leaves zeros.
Put(f, pos, ws) == LET base == f \o Fill(pos - Len(f), 0)
                   IN  SubSeq(base, 1, pos) \o ws \o SubSeq(base, pos + Len(ws) + 1, Len(base))

\* A bug: the stream is opened for update, which keeps what the file held.
OpenFile_Untruncated(w) ==
    /\ writer[w].st = "open"
    /\ writer' = [writer EXCEPT ![w].st = "write", ![w].rest = Words(writer[w].job)]
    /\ mixed' = IF \E v \in Writers \ {w} : Writing(v, Out(w)) THEN mixed \union {Out(w)} ELSE mixed \ {Out(w)}
    /\ lost' = lost \ {Out(w)}
    /\ author' = [author EXCEPT ![Out(w)] = [w |-> w, job |-> writer[w].job]]
    /\ console' = [console EXCEPT ![Out(w)] = NoJob]
    /\ UNCHANGED <<files, meta, panel, shown, left>>
OpenFile(w) ==
    /\ writer[w].st = "open"
    /\ writer' = [writer EXCEPT ![w].st = "write", ![w].rest = Words(writer[w].job)]
    /\ files' = [files EXCEPT ![Out(w)] = <<>>]
    /\ mixed' = IF \E v \in Writers \ {w} : Writing(v, Out(w)) THEN mixed \union {Out(w)} ELSE mixed \ {Out(w)}
    /\ lost' = lost \ {Out(w)}
    /\ author' = [author EXCEPT ![Out(w)] = [w |-> w, job |-> writer[w].job]]
    /\ console' = [console EXCEPT ![Out(w)] = NoJob]
    /\ UNCHANGED <<meta, panel, shown, left>>

Fault == left.faults > 0 /\ left' = [left EXCEPT !.faults = @ - 1]

OpenFails(w) == /\ writer[w].st = "open" /\ Fault
                /\ writer' = [writer EXCEPT ![w].st = "done", ![w].rest = <<>>]
                /\ UNCHANGED <<files, meta, panel, shown, author, console, mixed, lost>>

Flush(w) == /\ writer[w].st = "write" /\ Len(writer[w].rest) > Buffer
            /\ files' = [files EXCEPT ![Out(w)] = Put(@, writer[w].pos, SubSeq(writer[w].rest, 1, Buffer))]
            /\ writer' = [writer EXCEPT ![w].pos = @ + Buffer,
                                        ![w].rest = SubSeq(@, Buffer + 1, Len(@))]
            /\ UNCHANGED <<meta, panel, shown, author, console, mixed, lost, left>>

\* A bug: the stream's state is not asked for.
FlushFails_Unasked(w) == /\ writer[w].st = "write" /\ Len(writer[w].rest) > Buffer /\ Fault
                         /\ writer' = [writer EXCEPT ![w].st = "done", ![w].rest = <<>>, ![w].ok = TRUE]
                         /\ UNCHANGED <<files, meta, panel, shown, author, console, mixed, lost>>
\* After a failed write the stream drops the rest and good() is false.
FlushFails(w) == /\ writer[w].st = "write" /\ Len(writer[w].rest) > Buffer /\ Fault
                 /\ writer' = [writer EXCEPT ![w].st = "done", ![w].rest = <<>>]
                 /\ UNCHANGED <<files, meta, panel, shown, author, console, mixed, lost>>

\* fs.good(), asked while the last buffer is still in memory.
Good(w) == /\ writer[w].st = "write" /\ Len(writer[w].rest) <= Buffer
           /\ writer' = [writer EXCEPT ![w].st = "close", ![w].ok = TRUE]
           /\ UNCHANGED <<files, meta, panel, shown, author, console, mixed, lost, left>>

CloseFile(w) == /\ writer[w].st = "close"
                /\ files' = [files EXCEPT ![Out(w)] = Put(@, writer[w].pos, writer[w].rest)]
                /\ writer' = [writer EXCEPT ![w].st = "done", ![w].rest = <<>>]
                /\ UNCHANGED <<meta, panel, shown, author, console, mixed, lost, left>>

CloseFails(w) == /\ writer[w].st = "close" /\ Fault
                 /\ writer' = [writer EXCEPT ![w].st = "done", ![w].rest = <<>>]
                 /\ lost' = lost \union {Out(w)}
                 /\ UNCHANGED <<files, meta, panel, shown, author, console, mixed>>

\* doImport's end on the import thread: the sidecar, and the future is ready.
\* Writing the sidecar may fail and is not asked about.
FinishImport == /\ writer["import"].st = "done"
                /\ writer' = [writer EXCEPT !["import"].st = "ready"]
                /\ \/ /\ meta' = IF writer["import"].ok
                                 THEN [meta EXCEPT ![Out("import")] = writer["import"].job] ELSE meta
                      /\ UNCHANGED left
                   \/ writer["import"].ok /\ Fault /\ UNCHANGED meta
                /\ UNCHANGED <<files, panel, shown, author, console, mixed, lost>>

CookerEnds == /\ writer["cooker"].st = "done"
              /\ writer' = [writer EXCEPT !["cooker"] = Idle]
              /\ UNCHANGED <<files, meta, panel, shown, author, console, mixed, lost, left>>
------------------------------------------------------------------------------
(* The editor's main thread. *)
Spend(what) == left[what] > 0 /\ left' = [left EXCEPT ![what] = @ - 1]
Listed == {p \in Paths : files[p] # Absent}
Told(w) == IF writer[w].ok /\ author[Out(w)].w = w
           THEN [console EXCEPT ![Out(w)] = writer[w].job] ELSE console
Refreshed == [panel EXCEPT !.entries = Listed]

IsImporting == writer["import"].st \in {"open", "write", "close", "done"}

\* beginImport: a result nobody ticked for is dropped with its future.
BeginImport(j) == writer' = IF IsImporting THEN writer ELSE [writer EXCEPT !["import"] = Asked(j)]

\* Double click on a glTF file: default settings.
DoubleClick(s) == /\ MainFree /\ panel.asks = "" /\ Spend("requests")
                  /\ BeginImport([src |-> s, coll |-> "no"])
                  /\ UNCHANGED <<files, meta, panel, shown, author, console, mixed, lost>>

\* Import... or a drop opens the modal, which imports with its settings or not.
AskSettings(s) == /\ MainFree /\ panel.asks = "" /\ Spend("requests")
                  /\ panel' = [panel EXCEPT !.asks = s]
                  /\ UNCHANGED <<files, meta, writer, shown, author, console, mixed, lost>>
ModalImport(c) == /\ MainFree /\ panel.asks # ""
                  /\ BeginImport([src |-> panel.asks, coll |-> c])
                  /\ panel' = [panel EXCEPT !.asks = ""]
                  /\ UNCHANGED <<files, meta, shown, author, console, mixed, lost, left>>
ModalCancel == /\ MainFree /\ panel.asks # ""
               /\ panel' = [panel EXCEPT !.asks = ""]
               /\ UNCHANGED <<files, meta, writer, shown, author, console, mixed, lost, left>>

\* importer_.tick
TickImporter == /\ MainFree /\ writer["import"].st = "ready"
                /\ console' = Told("import")
                /\ panel' = IF writer["import"].ok THEN Refreshed ELSE panel
                /\ writer' = [writer EXCEPT !["import"] = Idle]
                /\ UNCHANGED <<files, meta, shown, author, mixed, lost, left>>

\* importPng runs inside the menu's callback; an image stb cannot read writes nothing.
ImportTexture(s) == /\ MainFree /\ panel.asks = "" /\ Spend("requests")
                    /\ writer' = IF ExtractTextures(s) = <<>> THEN writer
                                 ELSE [writer EXCEPT !["texture"] = Asked([src |-> s, coll |-> "no"])]
                    /\ UNCHANGED <<files, meta, panel, shown, author, console, mixed, lost>>
TextureImported == /\ writer["texture"].st = "done"
                   /\ console' = Told("texture")
                   /\ panel' = IF writer["texture"].ok THEN Refreshed ELSE panel
                   /\ writer' = [writer EXCEPT !["texture"] = Idle]
                   /\ UNCHANGED <<files, meta, shown, author, mixed, lost, left>>

RefreshPanel == /\ MainFree /\ panel.asks = "" /\ panel' = Refreshed
                /\ UNCHANGED <<files, meta, writer, shown, author, console, mixed, lost, left>>

Cook(s) == /\ writer["cooker"].st = "idle" /\ Spend("requests")
           /\ writer' = [writer EXCEPT !["cooker"] = Asked([src |-> s, coll |-> "no"])]
           /\ UNCHANGED <<files, meta, panel, shown, author, console, mixed, lost>>
------------------------------------------------------------------------------
(* What loads the files. *)
Consumers == {"preview", "scene", "texture", "collider"}
NothingShown == [c \in Consumers |-> [p \in Paths |-> "unseen"]]
Loaded(p) == IF LoadEasset(files[p]).ok THEN "loaded" ELSE "failed"
Loads(c, p, seen) == /\ MainFree /\ panel.asks = "" /\ Spend("loads")
                     /\ shown' = [shown EXCEPT ![c][p] = seen]
                     /\ UNCHANGED <<files, meta, writer, panel, author, console, mixed, lost>>

\* A click on an entry; the path just shown is not loaded again, even if that failed.
PreviewAsset(p) == /\ p \in panel.entries /\ shown["preview"][p] = "unseen"
                   /\ MainFree /\ panel.asks = "" /\ Spend("loads")
                   /\ shown' = [shown EXCEPT !["preview"] = [q \in Paths |-> IF q = p THEN Loaded(p) ELSE "unseen"]]
                   /\ UNCHANGED <<files, meta, writer, panel, author, console, mixed, lost>>

\* An entity is given the path: the frame's drain loads it, failing without a trace.
DrainMesh(p) == Loads("scene", p, Loaded(p))

\* A drop on a texture slot: cached once it has given a texture.
DropTexture(p) == /\ p \in panel.entries /\ shown["texture"][p] = "unseen"
                  /\ Loads("texture", p, IF LoadEasset(files[p]).texs # <<>> THEN "loaded" ELSE "unseen")

\* drawColliderWireframes: cached at the first try, whatever it gave.
DrawCollider(p) == shown["collider"][p] = "unseen" /\ Loads("collider", p, Loaded(p))

\* The editor's process ends at any point; the files stay as they are.
Crash == /\ Fault
         /\ writer' = [writer EXCEPT !["import"] = Idle, !["texture"] = Idle]
         /\ panel' = [entries |-> Listed, asks |-> ""]
         /\ shown' = NothingShown
         /\ console' = [p \in Paths |-> NoJob]
         /\ UNCHANGED <<files, meta, author, mixed, lost>>

Init == /\ files = [p \in Paths |-> Absent]
        /\ meta = [p \in Paths |-> NoJob]
        /\ writer = [w \in Writers |-> Idle]
        /\ panel = [entries |-> {}, asks |-> ""]
        /\ shown = NothingShown
        /\ author = [p \in Paths |-> [w |-> "", job |-> NoJob]]
        /\ console = [p \in Paths |-> NoJob]
        /\ mixed = {} /\ lost = {}
        /\ left = [requests |-> MaxRequests, loads |-> MaxLoads, faults |-> MaxFaults]

Next == \/ \E w \in Writers : \/ OpenFile(w) \/ OpenFails(w) \/ Flush(w) \/ FlushFails(w)
                              \/ Good(w) \/ CloseFile(w) \/ CloseFails(w)
        \/ FinishImport \/ CookerEnds \/ TickImporter \/ TextureImported \/ RefreshPanel \/ ModalCancel
        \/ \E s \in Of("gltf") : DoubleClick(s) \/ AskSettings(s)
        \/ \E c \in Collisions : ModalImport(c)
        \/ \E s \in Of("image") : ImportTexture(s)
        \/ \E s \in Of("gltf") \union Of("hdr") : Cook(s)
        \/ \E p \in Paths : PreviewAsset(p) \/ DrainMesh(p) \/ DropTexture(p) \/ DrawCollider(p)
        \/ Crash

Spec == Init /\ [][Next]_vars
------------------------------------------------------------------------------
(* What a file made from a job must read as, stated from the source alone. *)
SourceCorners(s) ==
    LET prims == SelectSeq(Source[s].prims, Usable)
        some == \E i \in DOMAIN prims : Full(prims[i].norm, prims[i])
        Corner(prim, i) == [p |-> prim.pos[i], n |-> IF Full(prim.norm, prim) THEN prim.norm[i]
                                                     ELSE IF some THEN Yup ELSE Zup,
                            u |-> IF Full(prim.uv, prim) THEN prim.uv[i] ELSE 0]
    IN  Each(prims, LAMBDA prim : [k \in DOMAIN prim.idx |-> Corner(prim, prim.idx[k] + 1)])
CubeCorners == [k \in DOMAIN UnitCubeRaw.idx |-> LET v == 101 + UnitCubeRaw.idx[k] IN [p |-> v, n |-> v, u |-> v]]

Corners(m) == [k \in DOMAIN m.idx |-> m.verts[m.idx[k] + 1]]
\* A chain from the image to one texel, no brighter or darker than it.
Pyramid(img, t) == /\ t[1].px = img.px
                   /\ Last(t).w = 1 /\ Last(t).h = 1
                   /\ \A i \in DOMAIN t : /\ Len(t[i].px) = t[i].w * t[i].h
                                          /\ i > 1 => t[i].w = Half(t[i - 1].w) /\ t[i].h = Half(t[i - 1].h)
                                          /\ \A k \in DOMAIN t[i].px :
                                                \E a, b \in DOMAIN img.px : img.px[a] <= t[i].px[k] /\ t[i].px[k] <= img.px[b]

Wanted == [s \in Of("gltf") |-> IF Parsed(s) THEN SourceCorners(s) ELSE CubeCorners]
MeshReads(j, m) ==
    LET want == Wanted[j.src]
    IN  /\ Corners(m) = want
        /\ IsInjective(m.verts)
        /\ Len(m.coll) = (IF j.coll = "no" THEN 0 ELSE 1)
        /\ CASE j.coll = "no" -> TRUE
             [] j.coll = "triangles" -> [k \in DOMAIN m.coll[1].idx |-> m.coll[1].verts[m.coll[1].idx[k] + 1]]
                                          = [k \in DOMAIN want |-> want[k].p]
             [] j.coll = "hull" -> ToSet(m.coll[1].verts) = {want[k].p : k \in DOMAIN want}
TexturesRead(j, m) ==
    LET imgs == SelectSeq(Source[j.src].images, Decodable)
    IN  Len(m.texs) = (IF Source[j.src].kind = "gltf" /\ ~Parsed(j.src) THEN 0 ELSE Len(imgs))
        /\ \A i \in DOMAIN m.texs : Pyramid(imgs[i], m.texs[i])

\* The loaded mesh is what the job's source holds.
Reads(j, m) == CASE Source[j.src].kind = "gltf" -> MeshReads(j, m) /\ TexturesRead(j, m)
                 [] Source[j.src].kind = "image" -> m.verts = <<>> /\ TexturesRead(j, m)
                 [] Source[j.src].kind = "hdr" -> FALSE

\* Each of the loaders gives nothing of f, or what was asked for with j.
GivesOnly(j, f) ==
    LET m == LoadEasset(f)
        d == LoadIblEasset(f)
        src == j.src
    IN  /\ m.ok => Reads(j, m)
        /\ d.ok => Source[src].kind = "hdr" /\ d.env = Baked(src).env /\ d.brdf = Baked(src).brdf

\* The jobs some writer takes: the settings are those of a glTF import.
Askable(j) == /\ Source[j.src].kind = "gltf" \/ j.coll = "no"
              /\ Source[j.src].kind = "image" => ExtractTextures(j.src) # <<>>

\* The format, for the sources at hand: the file of a job, when it is whole, has its
\* length in its third word and loads as its source says.
ASSUME FormatAssumption ==
    \A j \in Jobs : Askable(j) =>
        LET f == Words(j)
        IN  /\ f \in Seq(Int) /\ Len(f) >= HeaderSize /\ Word(f, 2) = Len(f)
            /\ GivesOnly(j, f)
            /\ Source[j.src].kind # "hdr" => LoadEasset(f).ok
------------------------------------------------------------------------------
(* Properties. *)

TypeOK == /\ \A p \in Paths : \A i \in DOMAIN files[p] : files[p][i] \in Int
          /\ \A w \in Writers : /\ writer[w].st \in {"idle", "open", "write", "close", "done", "ready"}
                                /\ writer[w].job \in Jobs \union {NoJob} /\ writer[w].pos \in Nat
          /\ panel.entries \subseteq Paths /\ panel.asks \in Sources \union {""}
          /\ \A p \in Paths : console[p] \in Jobs \union {NoJob} /\ meta[p] \in Jobs \union {NoJob}
          /\ mixed \subseteq Paths /\ lost \subseteq Paths

\* Whenever a file is loaded - by the preview, the scene, a texture slot, in the
\* middle of an import, after a failed one or a crash - it gives nothing or exactly
\* what its last writer was asked for: every vertex with its own attributes, every
\* texture a whole pyramid.  Each loader takes files of its own kind only.  Two
\* writers in one file at once are the exception (writeEasset, loadEasset).
FilesReadWhole ==
    /\ TypeOK
    /\ \A p \in Paths \ mixed : GivesOnly(author[p].job, files[p])

\* An import reported as done has left a file that reads as its source, until the
\* next writer opens it.  Not so when the last buffer fails at the close, after the
\* stream was asked (writeEasset's last line).
SuccessIsReadable ==
    \A p \in Paths \ (mixed \union lost) :
       console[p] # NoJob => LET m == LoadEasset(files[p]) IN m.ok /\ Reads(console[p], m)
=============================================================================
