---------------------------- MODULE EditorFrames ----------------------------
(***************************************************************************)
(* EditorApp::frame beside the loops of GameFrames: the offscreen viewport, *)
(* the play-in-editor window with its own swap chain, the mesh preview,    *)
(* and the registry that follows the mesh paths of the scene's entities.   *)
(* The user is the environment; one gesture is taken per frame, where      *)
(* ImGui hands it to the panels, after the frame's passes are recorded.    *)
(* The unsaved-changes dialog and undo are EditorApp's.                    *)
(***************************************************************************)
EXTENDS GameFrames

CONSTANTS Paths      \* asset paths

\* What a frame graph held in the frame before last is released when the list is
\* recorded, without a wait: kMaxFramesInFlight = 2 makes that late enough.
ASSUME TwoInFlight == Frames <= 2

None == "none"       \* no entity, or one without a mesh
Back == BackBuffers
Preview == <<"preview", 0, 0, "target">>
View(k) == <<"view", k, 0, "target">>
Pie(k, i) == <<"pie", k, i, "present">>
DepthOf(r) == [r EXCEPT ![3] = 0, ![4] = "depth"]

NewPie == [open |-> FALSE, wantsClose |-> FALSE, back |-> 0, n |-> 0, snap |-> <<>>]
NoMeshes == [i \in Ents |-> None]

InitEditor ==
  /\ host = "editor" /\ pc = "poll" /\ scenes = <<>> /\ loads = <<>>
  /\ gpu = Given(Created(1), Offscreen("view", 0) \union Offscreen("preview", 0))
  /\ ed = [ents |-> NoMeshes, registered |-> NoMeshes, held |-> {},
           view |-> 0, viewSize |-> 1, panel |-> 1, pie |-> NewPie,
           shown |-> None, preview |-> 0]
------------------------------------------------------------------------------
EdFrame == UNCHANGED <<host, win, os, input, clock, scenes, frameWorld, lines>>

\* pie_.stop() puts the scene back as it was when play began; destroyPieWindow drains.
StopPie(d) == [d EXCEPT !.ents = d.pie.snap, !.pie.snap = <<>>]
Playing == ed.pie.open /\ ed.pie.snap # <<>>

\* The game window was closed: the frame starts with a stop.
PieClosed == /\ pc = "pre"
             /\ IF Playing /\ ed.pie.wantsClose
                THEN gpu' = Signal(gpu) /\ ed' = StopPie(ed) /\ Goes("piegone")
                ELSE UNCHANGED <<gpu, ed>> /\ Goes("pietick")
             /\ UNCHANGED <<mm, handles, loads, left>> /\ EdFrame

\* Stopped from a panel or with Esc, the list of this frame is open meanwhile.
\* Then pieFrameGraph_ still refers to the buffers it imported, which keeps them.
DestroyPie == /\ pc \in {"piegone", "uigone"} /\ Idle(gpu)
              /\ gpu' = Released(gpu, SwapChain("pie", ed.pie.n) \ ed.held)
              /\ ed' = [ed EXCEPT !.pie = [NewPie EXCEPT !.n = ed.pie.n]]
              /\ Goes(IF pc = "piegone" THEN "pietick" ELSE "render")
              /\ UNCHANGED <<mm, handles, loads, left>> /\ EdFrame

\* pie_.tick: the game may spawn, change or destroy entities.
PieTick == /\ pc = "pietick" /\ Goes("view")
           /\ IF Playing /\ left.ops > 0
              THEN \E i \in Ents, p \in Paths \union {None} : ed' = [ed EXCEPT !.ents[i] = p]
              ELSE UNCHANGED ed
           /\ left' = IF ed' # ed THEN [left EXCEPT !.ops = @ - 1] ELSE left
           /\ UNCHANGED <<gpu, mm, handles, loads>> /\ EdFrame

\* The panel's size is followed: drained, then made anew.
ResizeView == /\ pc = "view"
              /\ IF ed.panel # ed.viewSize THEN gpu' = Signal(gpu) /\ Goes("viewdrain")
                                           ELSE UNCHANGED gpu /\ Goes("begin")
              /\ UNCHANGED <<ed, mm, handles, loads, left>> /\ EdFrame

CreateViewportRt == /\ pc = "viewdrain" /\ Idle(gpu) /\ Goes("begin")
                    /\ gpu' = Given(Released(gpu, Offscreen("view", ed.view)), Offscreen("view", ed.view + 1))
                    /\ ed' = [ed EXCEPT !.view = @ + 1, !.viewSize = ed.panel]
                    /\ UNCHANGED <<mm, handles, loads, left>> /\ EdFrame
------------------------------------------------------------------------------
(* The scan: whatever mesh an entity shows must be the one its path names. *)
Stale(i) == ed.registered[i] # ed.ents[i]
Queued(i) == \E k \in DOMAIN loads : loads[k].i = i
Asking(paths, is) == [k \in 1 .. Len(is) |-> [i |-> is[k], path |-> paths[is[k]]]]

\* A plausible bug: only a removed mesh evicts its handle.
Evicted_Removed(i) == ed.ents[i] = None
Evicted(i) == ed.ents[i] = None \/ Stale(i)

\* A dead entity is not visited: its entry stays behind.  Here a dead entity and
\* one without a mesh are the same, and the entry is dropped when the scan sees it.
Scanned ==
  [handles    |-> [i \in Ents |-> IF Evicted(i) THEN 0 ELSE handles[i]],
   registered |-> [i \in Ents |-> IF Evicted(i) /\ handles[i] # 0 THEN None ELSE ed.registered[i]],
   loads      |-> loads \o Asking(ed.ents, Those({i \in Ents : ed.ents[i] # None /\ Stale(i) /\ ~Queued(i)}))]

\* The drain: a load that fails registers nothing, and is queued by every scan.
\* The mesh's copy and its textures' are both on the list of the frame.
Drain(sc, list, good) ==
  Along(LAMBDA acc, l : IF l.path \notin good THEN acc ELSE
             [gpu |-> UploadTexture(UploadStatic(acc.gpu, acc.mm), Len(acc.mm.paths) + 1),
              mm |-> WithMesh(acc.mm, l.path),
              handles |-> [acc.handles EXCEPT ![l.i] = Len(acc.mm.paths) + 1],
              registered |-> [acc.registered EXCEPT ![l.i] = l.path]],
           [gpu |-> gpu, mm |-> list, handles |-> sc.handles, registered |-> sc.registered], sc.loads)

EdDrawn(g, h, r) ==
  LET shown == Those({i \in Ents : ed.ents[i] # None /\ h[i] # 0})
  IN  [k \in 1 .. Len(shown) |-> DrawScene(g, r, h[shown[k]])]
Onto(color, state) == ImportDepthBuffer(ImportBackBuffer(EmptyGraph, color, state), DepthOf(color))
Imported(color) == {color, DepthOf(color)}
Cleared(graph, color) ==
  AddPass(graph, <<[h |-> 1, to |-> "target"], [h |-> 2, to |-> "depth"]>>, <<Draw(color, 0)>>)

RenderView(g, h) ==
  LET v == View(ed.view)
  IN  Record(Execute(g, WithMeshes(Cleared(Onto(v, "target"), v), EdDrawn(g, h, v))),
             g.slot, <<Barrier(v, "target", "sampled")>>)

\* The graph's reset lets go of what it imported for the frame, or the window, before.
RenderPie(g, h) ==
  LET b == Pie(ed.pie.n, ed.pie.back)
  IN  Record(Execute(Released(g, ed.held \ SwapChain("pie", ed.pie.n)),
                     WithMeshes(Cleared(Onto(b, "present"), b), EdDrawn(g, h, b))),
             g.slot, <<Barrier(b, "target", "present")>>)

RenderPreview(g) ==
  Record(Execute(g, AddPass(Onto(Preview, "target"),
                            <<[h |-> 1, to |-> "target"], [h |-> 2, to |-> "depth"]>>,
                            <<Draw(Preview, ed.preview)>>)),
         g.slot, <<Barrier(Preview, "target", "sampled")>>)

\* From beginFrame to the panels: MeshManager, scan, drain, and the three renders,
\* play's only when the scene has a camera.
EditorUpdate(good, cam) ==
  /\ pc = "update" /\ host = "editor" /\ Goes("ui")
  /\ cam => Playing /\ ~ed.pie.wantsClose
  /\ LET list == SyncCommandList(gpu, mm)
         d    == Drain(Scanned, list, good)
         v    == RenderView(d.gpu, d.handles)
     IN  /\ mm' = d.mm /\ handles' = d.handles /\ loads' = <<>>
         /\ ed' = [ed EXCEPT !.registered = d.registered,
                              !.held = IF cam THEN Imported(Pie(ed.pie.n, ed.pie.back)) ELSE @]
         /\ gpu' = RenderPreview(IF cam THEN RenderPie(v, d.handles) ELSE v)
  /\ UNCHANGED left /\ EdFrame
------------------------------------------------------------------------------
(* One gesture. *)
Gesture == pc = "ui" /\ left.ops > 0 /\ left' = [left EXCEPT !.ops = @ - 1] /\ EdFrame

SetPath(i, p) == /\ Gesture /\ ed.ents[i] # p /\ ed' = [ed EXCEPT !.ents[i] = p] /\ Goes("render")
                 /\ UNCHANGED <<gpu, mm, handles, loads>>

DragPanel == /\ Gesture /\ ed' = [ed EXCEPT !.panel = 3 - @] /\ Goes("render")
             /\ UNCHANGED <<gpu, mm, handles, loads>>

\* New and Open unload the scene, which clears the registry and drops the textures
\* the list of this frame draws with; activation asks for the meshes of the file.  Not during play: the controller would keep the old scene.
OpenScene(w) == /\ Gesture /\ ~Playing /\ Goes("render")
                /\ ed' = [ed EXCEPT !.ents = w, !.registered = NoMeshes]
                /\ handles' = NoHandles
                /\ gpu' = ClearTextures(gpu)
                /\ loads' = Asking(w, Those({i \in Ents : w[i] # None}))
                /\ UNCHANGED mm

PlayMenu == /\ Gesture /\ ~ed.pie.open /\ Goes("render")
            /\ ed' = [ed EXCEPT !.pie = [NewPie EXCEPT !.open = TRUE, !.n = ed.pie.n + 1, !.snap = ed.ents]]
            /\ gpu' = Given(gpu, SwapChain("pie", ed.pie.n + 1))
            /\ UNCHANGED <<mm, handles, loads>>

StopMenu == /\ Gesture /\ Playing /\ ed' = StopPie(ed) /\ gpu' = Signal(gpu) /\ Goes("uigone")
            /\ UNCHANGED <<mm, handles, loads>>

ClosePieWindow == /\ pc # "stopped" /\ host = "editor" /\ ed.pie.open /\ ~ed.pie.wantsClose
                  /\ pc \notin {"piegone", "uigone"}
                  /\ ed' = [ed EXCEPT !.pie.wantsClose = TRUE]
                  /\ UNCHANGED <<pc, gpu, mm, handles, loads, left>> /\ EdFrame

\* MeshPreviewPanel::loadAsset: the same path again is ignored, a file that does
\* not load leaves no mesh.
LoadAsset(p, ok) == /\ Gesture /\ p # ed.shown /\ Goes("render")
                    /\ ed' = [ed EXCEPT !.shown = p, !.preview = IF ok THEN Len(mm.paths) + 1 ELSE 0]
                    /\ mm' = IF ok THEN WithMesh(mm, p) ELSE mm
                    /\ gpu' = IF ok THEN UploadStatic(gpu, mm) ELSE gpu
                    /\ UNCHANGED <<handles, loads>>

NoGesture == /\ pc = "ui" /\ Goes("render") /\ UNCHANGED <<gpu, mm, handles, loads, ed, left>> /\ EdFrame

\* ImGui's draw data samples the viewport and the preview, which then go back to
\* being targets; the frame ends and the game window flips.
Render ==
  /\ pc = "render" /\ Goes("poll")
  /\ gpu' = EndFrame(Record(gpu, gpu.slot,
              <<Draw(BackBuffer(gpu.back), 0), SampleOf(View(ed.view), 0), SampleOf(Preview, 0),
                Barrier(View(ed.view), "sampled", "target"), Barrier(Preview, "sampled", "target")>>))
  /\ ed' = IF Playing THEN [ed EXCEPT !.pie.back = (@ + 1) % Back] ELSE ed
  /\ UNCHANGED <<mm, handles, loads, left>> /\ EdFrame

\* EditorApp::shutdown after run's flush: it drains again and drops the game window.
Editor == \/ PieClosed \/ DestroyPie \/ PieTick \/ ResizeView \/ CreateViewportRt
          \/ \E good \in SUBSET Paths, cam \in BOOLEAN : EditorUpdate(good, cam)
          \/ \E i \in Ents, p \in Paths \union {None} : SetPath(i, p)
          \/ DragPanel \/ PlayMenu \/ StopMenu \/ ClosePieWindow \/ NoGesture \/ Render
          \/ \E w \in [Ents -> Paths \union {None}] : OpenScene(w)
          \/ \E p \in Paths, ok \in BOOLEAN : LoadAsset(p, ok)
------------------------------------------------------------------------------
Init == InitCommon /\ (InitGame \/ InitDemo \/ InitEditor)
Next == Loop \/ Game \/ Demo \/ Editor \/ Environment \/ Stopped
Spec == Init /\ [][Next]_vars
------------------------------------------------------------------------------
TypeOK == /\ host \in {"game", "demo", "editor"} /\ lines \in 0 .. MaxLines
          /\ gpu.slot \in Slots /\ gpu.back \in 0 .. Back - 1 /\ gpu.done <= gpu.counter
          /\ \A i \in Ents : handles[i] \in 0 .. Len(mm.paths)

\* Executed in the order submitted, every command finds its target or depth buffer
\* alive and in the state its barrier or draw names (device, frame graphs and the
\* editor's own barriers each track a part of it), and no mesh is drawn before the
\* copy that fills it, where the host keeps to MeshManager.h: the editor and the
\* demo.  Not so textures: unloading a scene drops those a command list still uses.
NoFaults ==
  TypeOK /\ gpu.faults \subseteq {"texture gone"} \union IF host = "game" THEN {"not uploaded"} ELSE {}

\* A command list is not recorded over while the GPU may still read it.
ListsOutliveGpu == \A k \in DOMAIN gpu.queue : gpu.queue[k].slot \in Slots => ~gpu.lists[gpu.queue[k].slot].open

\* In the editor, what is drawn of an entity is the mesh its component names: the
\* registry keyed by entity index survives edits, play, recycling and reloads.
DrawsOwnMeshes ==
  host = "editor" /\ pc = "ui" =>
    \A i \in Ents : ed.ents[i] # None /\ handles[i] # 0 => mm.paths[handles[i]] = ed.ents[i]
=============================================================================
