----------------------------- MODULE GpuFrames -----------------------------
(***************************************************************************)
(* The GPU side of the engine: rendering/GpuDevice.cpp (swap chain, frames *)
(* in flight, fence), FrameGraph.cpp (imports, passes, barriers),          *)
(* MeshManager.cpp with internal/UploadHelper.cpp, and the D3D12 queue     *)
(* that executes what they submit.  Everything is an operator on a device  *)
(* record g; GameFrames and EditorFrames are the programs that call it.    *)
(* Command lists are sequences of commands, and a command says which state *)
(* it needs its resource in, which state it leaves it in, and which mesh   *)
(* it copies or draws.  A resource is named by its owner, two numbers and  *)
(* the state it is in between command lists.  The textures of a mesh, with *)
(* their upload buffers, have the number of the mesh: see UploadTexture.   *)
(***************************************************************************)
EXTENDS Naturals, Sequences, SequencesExt

CONSTANTS BackBuffers,  \* kBackBufferCount
          Frames        \* kMaxFramesInFlight

ASSUME DeviceAssumption == BackBuffers \in Nat \ {0} /\ Frames \in Nat \ {0}

Slots == 0 .. Frames - 1

\* The buffers of a swap chain with their depth buffer, and an offscreen target with its own.
SwapChain(owner, n) == {<<owner, n, i, "present">> : i \in 0 .. BackBuffers - 1} \union {<<owner, n, 0, "depth">>}
Offscreen(owner, n) == {<<owner, n, 0, "target">>, <<owner, n, 0, "depth">>}
BackBuffer(i) == <<"window", 0, i, "present">>
Depth == <<"window", 0, 0, "depth">>

AtRest(rs) == [r \in rs |-> r[4]]
Given(g, new)     == [g EXCEPT !.states = [r \in DOMAIN @ \union new |-> IF r \in new THEN r[4] ELSE @[r]]]
Released(g, gone) == [g EXCEPT !.states = [r \in DOMAIN @ \ gone |-> @[r]]]

\* FoldLeft, as a function of how much of s has been taken.
Along(Op(_, _), base, s) ==
  LET acc[k \in 0 .. Len(s)] == IF k = 0 THEN base ELSE Op(acc[k - 1], s[k])
  IN  acc[Len(s)]

Barrier(r, from, to) == [res |-> r, from |-> from, to |-> to, mesh |-> 0, copy |-> FALSE, tex |-> 0]
Draw(r, m)           == [res |-> r, from |-> "target", to |-> "target", mesh |-> m, copy |-> FALSE, tex |-> 0]
SampleOf(r, m)       == [res |-> r, from |-> "sampled", to |-> "sampled", mesh |-> m, copy |-> FALSE, tex |-> 0]
Copy(m)              == [res |-> Depth, from |-> "depth", to |-> "depth", mesh |-> m, copy |-> TRUE, tex |-> 0]
TextureCopy(m)       == [res |-> Depth, from |-> "depth", to |-> "depth", mesh |-> 0, copy |-> FALSE, tex |-> m]

\* GpuDevice::create: closed lists, an idle queue, back buffers to present.
Created(size) ==
  [size |-> size, back |-> 0, slot |-> 0, counter |-> 0, done |-> 0, queue |-> <<>>,
   fences |-> [s \in Slots |-> 0], lists |-> [s \in Slots |-> [open |-> FALSE, cmds |-> <<>>]],
   states |-> AtRest(SwapChain("window", 0)),
   uploaded |-> {}, textures |-> {}, held |-> FALSE, faults |-> {}]

\* A call on a list that is closed records nothing (the runtime refuses it).
Record(g, s, cmds) == IF g.lists[s].open THEN [g EXCEPT !.lists[s].cmds = @ \o cmds] ELSE g

Signal(g) == [g EXCEPT !.counter = @ + 1,
                       !.queue = Append(@, [slot |-> Frames, cmds |-> <<>>, signal |-> g.counter + 1])]
Idle(g) == g.done = g.counter

\* beginFrame: the window's size is followed unless it is minimised ...
NeedsResize(g, size) == size # 0 /\ size # g.size

\* ... with the queue drained, the buffers of the swap chain made anew.
\* A frame graph that still holds a back buffer makes ResizeBuffers fail: the old
\* buffers stay, under the new size.
Resized(g, size) ==
  [g EXCEPT !.size = size, !.back = IF g.held THEN @ ELSE 0,
            !.states = [r \in DOMAIN @ |-> IF r \in SwapChain("window", 0) THEN r[4] ELSE @[r]]]

NextSlot(g) == (g.slot + 1) % Frames
FrameIsFree(g) == g.done >= g.fences[NextSlot(g)]

BeginFrame(g) ==
  [g EXCEPT !.slot = NextSlot(g),
            !.lists[NextSlot(g)] = [open |-> TRUE, cmds |-> <<Barrier(BackBuffer(g.back), "present", "target")>>]]

Submitted(g, fence) ==
  [g EXCEPT !.lists[g.slot] = [open |-> FALSE, cmds |-> <<>>], !.back = (@ + 1) % BackBuffers,
            !.counter = @ + 1, !.fences[g.slot] = fence,
            !.queue = Append(@, [slot |-> g.slot, signal |-> g.counter + 1,
                                 cmds |-> Append(g.lists[g.slot].cmds, Barrier(BackBuffer(g.back), "target", "present"))])]

\* A plausible bug: the slot's fence value is taken before the counter moves.
EndFrame_EarlyFence(g) == Submitted(g, g.counter)
EndFrame(g) == Submitted(g, g.counter + 1)

\* What one command does; what it finds wrong is kept, as a debug layer would.
Faults(c, g) ==
  (IF c.res \notin DOMAIN g.states THEN {"gone"}
   ELSE IF g.states[c.res] # c.from THEN {"state"} ELSE {})
  \union (IF ~c.copy /\ c.mesh # 0 /\ c.mesh \notin g.uploaded THEN {"not uploaded"} ELSE {})
  \union IF c.tex # 0 /\ c.tex \notin g.textures THEN {"texture gone"} ELSE {}

Effect(c, g) ==
  [g EXCEPT !.states = IF c.res \in DOMAIN @ THEN [@ EXCEPT ![c.res] = c.to] ELSE @,
            !.uploaded = IF c.copy THEN @ \union {c.mesh} ELSE @,
            !.faults = @ \union Faults(c, g)]

Performed(g, cmds) == Along(LAMBDA acc, c : Effect(c, acc), g, cmds)

\* The queue executes its oldest entry and passes its fence value.
Executed(g) == [Performed(g, Head(g.queue).cmds) EXCEPT !.queue = Tail(@), !.done = Head(g.queue).signal]

(***************************************************************************)
(* FrameGraph: a graph holds imported resources with the state they are    *)
(* thought to be in, and passes with the states they need.                 *)
(***************************************************************************)
Import(graph, r, state, isBack) ==
  [graph EXCEPT !.res = Append(@, [res |-> r, state |-> state, back |-> isBack])]
ImportBackBuffer(graph, r, state) == Import(graph, r, state, TRUE)
ImportDepthBuffer(graph, r) == Import(graph, r, "depth", FALSE)
AddPass(graph, needs, cmds) == [graph EXCEPT !.passes = Append(@, [needs |-> needs, cmds |-> cmds])]
EmptyGraph == [res |-> <<>>, passes |-> <<>>]

Wanted(run, h, to) ==
  LET vr == run.res[h]
  IN  IF vr.state = to THEN run
      ELSE [res |-> [run.res EXCEPT ![h].state = to],
            cmds |-> Append(run.cmds, Barrier(vr.res, vr.state, to))]

Ready(run, needs) == Along(LAMBDA acc, n : Wanted(acc, n.h, n.to), run, needs)
RunPass(run, pass) == [Ready(run, pass.needs) EXCEPT !.cmds = @ \o pass.cmds]
RunAll(run, passes) == Along(LAMBDA acc, p : RunPass(acc, p), run, passes)

\* A plausible bug: back buffers are put back too.
Restored_All(run, h) == Wanted(run, h, "depth")

\* Imported resources go back to DEPTH_WRITE; a back buffer is its owner's affair.
Restored(run, h) == IF run.res[h].back THEN run ELSE Wanted(run, h, "depth")

AllRestored(run) == Along(LAMBDA acc, h : Restored(acc, h), run, [h \in 1 .. Len(run.res) |-> h])

Execute(g, graph) ==
  Record(g, g.slot, AllRestored(RunAll([res |-> graph.res, cmds |-> <<>>], graph.passes)).cmds)

(***************************************************************************)
(* MeshManager: it records copies on the list it was last given.           *)
(***************************************************************************)
NoMeshManager == [list |-> Frames, paths |-> <<>>]
MeshManager(g) == [NoMeshManager EXCEPT !.list = g.slot]

SyncCommandList(g, mm) == [mm EXCEPT !.list = g.slot]
UploadStatic(g, mm) == Record(g, mm.list, <<Copy(Len(mm.paths) + 1)>>)
WithMesh(mm, path) == [mm EXCEPT !.paths = Append(@, path)]

(***************************************************************************)
(* MeshRenderSystem's textures: uploadTexture copies on the list of the    *)
(* frame; a mesh of the scene is drawn with its own.  clear() drops all of *)
(* them at once, whatever the open list and the GPU still do with them.    *)
(***************************************************************************)
UploadTexture(g, m) == [Record(g, g.slot, <<TextureCopy(m)>>) EXCEPT !.textures = @ \union {m}]
ClearTextures(g) == [g EXCEPT !.textures = {}]
TextureOf(g, m) == IF m \in g.textures THEN m ELSE 0
DrawScene(g, r, m) ==
  [res |-> r, from |-> "target", to |-> "target", mesh |-> m, copy |-> FALSE, tex |-> TextureOf(g, m)]

=============================================================================
