------------------------------ MODULE EditorApp ------------------------------
(***************************************************************************)
(* A session of the editor: one scene, its undo history, the dirty flag    *)
(* and the unsaved-changes dialog, the files scenes are saved to, and      *)
(* play-in-editor, which runs the scene being edited in place.  The user   *)
(* is the environment: in a frame she may do anything the windows allow.   *)
(* While the dialog is open it has the focus: panels and menus are out of  *)
(* reach, the keyboard shortcuts of frame() are not.  Handlers call each   *)
(* other, so those that replace or save the scene are operators from an    *)
(* editor to the set of editors they may leave behind.                     *)
(***************************************************************************)
EXTENDS EditorWorld

CONSTANTS Files,
          Cap,                     \* kMaxCommands
          MaxEdits, MaxScenes      \* bounds: user gestures and game steps, scenes made

ASSUME EditorAssumption == /\ {Cap, MaxScenes} \subseteq Nat \ {0} /\ MaxEdits \in Nat
                           /\ "" \notin Files

VARIABLES
    ed,          \* the editor: see Fresh
    drag,        \* colliderDragging_ with colliderDragStart_, or -1
    wantsClose,  \* of the OS window; never cleared
    pie,         \* PIEController
    edits        \* bound: gestures and game steps so far

vars == <<ed, drag, wantsClose, pie, edits>>

NoFile == [is |-> "none", ents |-> << >>]
BadFile == [is |-> "bad", ents |-> << >>]
PrefabFile(ents) == [is |-> "prefab", ents |-> ents]
SceneFile(w) == [is |-> "scene", ents |-> Saved(w)]

(* The prefab file that was there at the start: a root with one child.     *)
OldPrefab == << Onto(Just("tr", 0), Just("kid", 0 - 2)), Just("body", 0) >>

(* drift is a history: the world was changed by something that does not    *)
(* set the flag, or a load did not give back what the file holds.          *)
Blank == [world |-> EmptyWorld, id |-> 1, undo |-> << >>, redo |-> << >>,
          dirty |-> FALSE, path |-> "", disk |-> [f \in Files |-> NoFile],
          prefab |-> PrefabFile(OldPrefab), sel |-> NoEntity, open |-> FALSE, pending |-> "none", target |-> "",
          shown |-> FALSE, running |-> TRUE, crashed |-> FALSE, drift |-> FALSE]

Stopped == [state |-> "stopped", scene |-> 0, snap |-> << >>, saved |-> FALSE]

TypeOK == /\ Living(ed.world) \subseteq Handles
          /\ ToSet(ed.world.free) \union DOMAIN ed.world.ent = 1..Slots
          /\ Len(ed.world.free) + Cardinality(DOMAIN ed.world.ent) = Slots
          /\ ed.id \in 1..MaxScenes /\ edits \in 0..MaxEdits
          /\ Len(ed.undo) <= Cap
          /\ ed.path \in Files \union {""} /\ drag \in Sizes \union {-1}
          /\ ed.open <=> ed.pending \in {"new", "open", "close"}
          /\ pie.state = "stopped" => pie = Stopped

Init == ed = Blank /\ drag = -1 /\ wantsClose = FALSE /\ pie = Stopped /\ edits = 0
------------------------------------------------------------------------------
Playing == pie.state = "playing"
Shortcuts == ed.running
Panels == ed.running /\ ~ed.open

Budget == edits < MaxEdits /\ edits' = edits + 1

(* UndoStack::push: execute, forget the redo stack, keep the latest Cap.   *)
Kept(s, c) == IF Len(s) = Cap THEN Append(Tail(s), c) ELSE Append(s, c)

Push_Unmarked(d, c) ==      \* mutant: no onModified_
    [d EXCEPT !.world = Execute(d.world, c).w,
              !.undo  = Kept(@, Execute(d.world, c).c),
              !.redo  = << >>]
Push(d, c) == [d EXCEPT !.world = Execute(d.world, c).w,
                        !.undo  = Kept(@, Execute(d.world, c).c),
                        !.redo  = << >>,
                        !.dirty = TRUE]

Dies(d) == [d EXCEPT !.running = FALSE, !.crashed = TRUE]
Does(d) == ed' = d /\ UNCHANGED <<wantsClose, pie>>

AddEntity == /\ Panels /\ Budget /\ Room(ed.world, 1)
             /\ Does([Push(ed, CreateCommand) EXCEPT !.sel = NextHandle(ed.world)])
             /\ UNCHANGED drag

(* The "- Entity" button, and "Delete" of an entity's context menu, which  *)
(* selects the entity first.                                               *)
DeleteEntity(h) == /\ Panels /\ Budget /\ IsAlive(ed.world, h)
                   /\ Does([Push(ed, DestroyCommand(ed.world, h)) EXCEPT !.sel = NoEntity])
                   /\ UNCHANGED drag

(* Ctrl+D, one command per entity of the selection.                        *)
Duplicated(d, hs) ==
    LET after[n \in 0..Len(hs)] == IF n = 0 THEN d ELSE Push(after[n - 1], DuplicateCommand(hs[n]))
    IN  after[Len(hs)]
DuplicateSelection(hs) ==
    /\ Panels /\ Budget /\ hs # << >> /\ Room(ed.world, Len(hs))
    /\ LET d == Duplicated(ed, hs) IN Does([d EXCEPT !.sel = Last(d.undo).e])
    /\ UNCHANGED drag

(* The MeshHandle widget: the field is written, then the command pushed.   *)
ChangeMaterial(v) ==
    /\ Panels /\ Budget
    /\ Has(ed.world, ed.sel, "body") /\ Of(ed.world, ed.sel)["body"] # v
    /\ Does(Push(ed, BodyCommand(ed.sel, Of(ed.world, ed.sel)["body"], v)))
    /\ UNCHANGED drag

(* Save as prefab: captured, written, and a command pushed when that went  *)
(* well.  The old file is gone with the first byte, not with a header that *)
(* is too long or a file that does not open.                               *)
SaveAsPrefab(h) ==
    /\ Panels /\ Budget /\ IsAlive(ed.world, h)
    /\ IF ~Capturable(ed.world, h) THEN Does(Dies(ed))
       ELSE LET d == [ed EXCEPT !.sel = h]
            IN  \/ Does([Push(d, PrefabCommand) EXCEPT !.prefab = PrefabFile(Captured(ed.world, h))])
                \/ Does([d EXCEPT !.prefab = BadFile]) \/ Does(d)
    /\ UNCHANGED drag

Undo == /\ Shortcuts /\ Budget /\ ed.undo # << >>
        /\ NeedsRoom(Last(ed.undo), TRUE) => Room(ed.world, 1)
        /\ LET r == Revert(ed.world, Last(ed.undo))
           IN  Does([ed EXCEPT !.world = r.w, !.undo = Front(@),
                               !.prefab = IF r.c.k = "prefab" THEN NoFile ELSE @,
                               !.redo = Append(@, r.c), !.dirty = TRUE])
        /\ UNCHANGED drag

Redo == /\ Shortcuts /\ Budget /\ ed.redo # << >>
        /\ NeedsRoom(Last(ed.redo), FALSE) => Room(ed.world, 1)
        /\ LET r == Execute(ed.world, Last(ed.redo))
           IN  Does([ed EXCEPT !.world = r.w, !.redo = Front(@),
                               !.undo = Append(@, r.c), !.dirty = TRUE])
        /\ UNCHANGED drag

(* Gestures that are no commands but set the flag.                         *)
Gesture(w) == /\ Panels /\ Budget
              /\ Does([ed EXCEPT !.world = w, !.sel = NextHandle(ed.world), !.dirty = TRUE])
              /\ UNCHANGED drag

(* An archetype is spawned: its function instantiates the prefab, if its   *)
(* file still loads, beside the entity it was given, which stays bare.     *)
Spawn == /\ Room(ed.world, 1 + Len(ed.prefab.ents))
         /\ Gesture(Instantiated(Created(ed.world, << >>), ed.prefab.ents, << >>))

(* A prefab captured from an instance already has the PrefabInstance that  *)
(* is added to the new root: adding it again corrupts the world.           *)
DropPrefab == /\ ed.prefab.ents # << >>
              /\ IF "pre" \in DOMAIN ed.prefab.ents[1]
                 THEN Panels /\ Budget /\ Does(Dies(ed)) /\ UNCHANGED drag
                 ELSE /\ Room(ed.world, Len(ed.prefab.ents))
                      /\ Gesture(Instantiated(ed.world, ed.prefab.ents, Just("pre", 1)))
DropMesh == Room(ed.world, 1) /\ Gesture(Created(ed.world, [k \in {"tr", "body"} |-> 0]))

EditGlobals == /\ Panels /\ Budget /\ ~ed.dirty /\ Does([ed EXCEPT !.dirty = TRUE])
               /\ UNCHANGED drag

Select(h) == /\ Panels /\ Budget /\ h \in Living(ed.world) \ {ed.sel}
             /\ Does([ed EXCEPT !.sel = h])
             /\ UNCHANGED drag

(* Edits that neither set the flag nor leave a command: the gizmo and the  *)
(* widgets write the component, the inspector adds and removes components. *)
Unmarked(w) == /\ Panels /\ Budget /\ w # ed.world
               /\ Does([ed EXCEPT !.world = w, !.drift = TRUE])
               /\ UNCHANGED drag

MoveGizmo(v) == Has(ed.world, ed.sel, "tr") /\ Unmarked(Written(ed.world, ed.sel, "tr", v))
EditWidget(v) == Has(ed.world, ed.sel, "body") /\ Unmarked(Written(ed.world, ed.sel, "body", v))
AddComponent == /\ IsAlive(ed.world, ed.sel) /\ ~Has(ed.world, ed.sel, "body")
                /\ Unmarked(Written(ed.world, ed.sel, "body", 0))
RemoveComponent == /\ Has(ed.world, ed.sel, "body")
                   /\ LET c == Of(ed.world, ed.sel)
                      IN  Unmarked(Placed(ed.world, ed.sel, [k \in DOMAIN c \ {"body"} |-> c[k]]))

(* The handles are drawn for the selected entity only: a drag begun on one *)
(* entity goes on with the next one selected, and the release is missed    *)
(* while none is.                                                          *)
DragStart == /\ Panels /\ Budget /\ drag = -1 /\ Has(ed.world, ed.sel, "body")
             /\ drag' = Of(ed.world, ed.sel)["body"]
             /\ UNCHANGED <<ed, wantsClose, pie>>

DragMove(v) == /\ drag # -1 /\ EditWidget(v)

DragEnd == /\ Panels /\ Budget /\ drag # -1 /\ Has(ed.world, ed.sel, "body")
           /\ drag' = -1
           /\ Does(Push(ed, BodyCommand(ed.sel, drag, Of(ed.world, ed.sel)["body"])))
------------------------------------------------------------------------------
(* The scene is replaced by one with world w, saved at p.                  *)
Fresh(d, w, p, drift) ==
    [d EXCEPT !.world = w, !.id = @ + 1, !.path = p, !.sel = NoEntity,
              !.undo = << >>, !.redo = << >>, !.dirty = FALSE, !.drift = drift]

Ask(d, act, target) == [d EXCEPT !.open = TRUE, !.pending = act, !.target = target]

NewScene_Unasked(d) == {Fresh(d, EmptyWorld, "", FALSE)}      \* mutant
NewScene(d) == IF d.dirty THEN {Ask(d, "new", d.target)}
               ELSE {Fresh(d, EmptyWorld, "", FALSE)}

(* A file that does not validate leaves the scene alone; one that does and *)
(* still cannot be loaded leaves an empty scene.  The paths of its prefab  *)
(* instances resolve, or not.                                              *)
OpenScene(d, f) ==
    IF d.dirty THEN {Ask(d, "open", f)}
    ELSE IF d.disk[f] \in {NoFile, BadFile} THEN {d}
    ELSE LET ents == d.disk[f].ents
         IN  NewScene(d) \union
             {Fresh(d, w, f, Saved(w) # ents) : w \in
                 {Loaded(ents, p) : p \in {q \in {<< >>, d.prefab.ents} : LoadSize(ents, q) <= Slots}}}

(* The file is rewritten in place: a save that fails once it is open       *)
(* leaves a file that does not validate.                                   *)
SaveScene(d, f) ==
    {[d EXCEPT !.disk[f] = SceneFile(d.world), !.path = f, !.dirty = FALSE, !.drift = FALSE],
     d, [d EXCEPT !.disk[f] = BadFile]}

(* Ctrl+S.  Without a path a dialog asks for one and may be cancelled.     *)
SaveCurrent(d) == IF d.path # "" THEN SaveScene(d, d.path)
                  ELSE {d} \union UNION {SaveScene(d, f) : f \in Files}

ExecutePending(d) ==
    LET e == [d EXCEPT !.open = FALSE, !.pending = "none", !.target = ""]
    IN  CASE d.pending = "new"   -> NewScene(e)
          [] d.pending = "open"  -> OpenScene(e, d.target)
          [] d.pending = "close" -> {[e EXCEPT !.running = FALSE]}

Becomes(ds) == /\ ed' \in {d \in ds : d.id <= MaxScenes}
               /\ pie' = [pie EXCEPT !.saved = @ \/ (Playing /\ ~ed'.dirty)]
               /\ UNCHANGED <<drag, wantsClose>>

DoNew == Shortcuts /\ Budget /\ Becomes(NewScene(ed))
DoOpen(f) == Shortcuts /\ Budget /\ Becomes(OpenScene(ed, f))
DoSave == Shortcuts /\ Budget /\ Becomes(SaveCurrent(ed))
DoSaveAs(f) == Shortcuts /\ Budget /\ Becomes(SaveScene(ed, f))

(* The dialog.  "Discard" clears the flag even if the file then cannot be  *)
(* opened and the scene stays; "Save" goes on even if nothing was saved.   *)
Discard == /\ ed.running /\ ed.open
           /\ Becomes({[d EXCEPT !.drift = @ \/ d.id = ed.id] :
                          d \in ExecutePending([ed EXCEPT !.dirty = FALSE])})
           /\ UNCHANGED edits
SaveAndGoOn == /\ ed.running /\ ed.open
               /\ Becomes(UNION {ExecutePending(d) : d \in SaveCurrent(ed)})
               /\ UNCHANGED edits
Cancel == /\ ed.running /\ ed.open
          /\ Becomes({[ed EXCEPT !.open = FALSE, !.pending = "none", !.target = ""]})
          /\ UNCHANGED edits

ExitMenu == /\ Panels
            /\ Becomes({IF ~ed.dirty THEN [ed EXCEPT !.running = FALSE]
                        ELSE [Ask(ed, "close", ed.target) EXCEPT !.shown = TRUE]})
            /\ UNCHANGED edits

CloseBox == /\ ed.running /\ ~wantsClose /\ wantsClose' = TRUE
            /\ UNCHANGED <<ed, drag, pie, edits>>

(* The head of run()'s loop.                                               *)
CloseCheck_OnlyOnce ==      \* mutant: a close box once answered is never heard again
    /\ ed.running /\ wantsClose /\ ~ed.open /\ ~ed.shown
    /\ Becomes({IF ~ed.dirty THEN [ed EXCEPT !.running = FALSE]
                ELSE [Ask(ed, "close", ed.target) EXCEPT !.shown = TRUE]})
    /\ UNCHANGED edits
CloseCheck ==
    /\ ed.running /\ wantsClose /\ ~ed.open
    /\ \/ ~ed.dirty /\ Becomes({[ed EXCEPT !.running = FALSE]})
       \/ ed.dirty /\ ~ed.shown /\ Becomes({[Ask(ed, "close", ed.target) EXCEPT !.shown = TRUE]})
    /\ UNCHANGED edits
------------------------------------------------------------------------------
(* Play-in-editor.                                                         *)
Snapshot(w) == [h \in Living(w) |-> Of(w, h)]

(* restoreSnapshot: what was spawned is destroyed; what is left of the     *)
(* snapshot is overwritten and gets back the components it lost.           *)
Restored_BySlot(w, snap) ==      \* mutant: generations not compared
    LET kept == {h \in Living(w) : h[1] \in {g[1] : g \in DOMAIN snap}}
        left == KillAll(w, Living(w) \ kept)
    IN  [left EXCEPT !.ent = [i \in DOMAIN @ |->
            IF <<i, left.gen[i]>> \in DOMAIN snap THEN Onto(snap[<<i, left.gen[i]>>], @[i]) ELSE @[i]]]
Restored(w, snap) ==
    LET left == KillAll(w, Living(w) \ DOMAIN snap)
    IN  [gen  |-> left.gen,
         ent  |-> [i \in DOMAIN left.ent |-> Onto(snap[<<i, left.gen[i]>>], left.ent[i])],
         free |-> left.free]

Moves(w) == {Written(w, h, "tr", v) : v \in Poses, h \in {g \in Living(w) : Has(w, g, "tr")}}

(* The player, if there is one, is put at the spawn point after the        *)
(* snapshot was taken.                                                     *)
Play == /\ Panels /\ Budget /\ ~Playing
        /\ pie' = [state |-> "playing", scene |-> ed.id, snap |-> Snapshot(ed.world),
                   saved |-> FALSE]
        /\ \E w \in {ed.world} \union Moves(ed.world) : ed' = [ed EXCEPT !.world = w]
        /\ UNCHANGED <<drag, wantsClose>>

(* One step of the game moves an entity or ends a lifetime.                *)
GameStep(w) == Moves(w) \union {Kill(w, h) : h \in Living(w)}

PieTick == /\ ed.running /\ Playing /\ Budget
           /\ \E w \in GameStep(ed.world) \ {ed.world} : ed' = [ed EXCEPT !.world = w]
           /\ UNCHANGED <<drag, wantsClose, pie>>

Stop == /\ ed.running /\ Playing
        /\ pie' = Stopped
        /\ LET w == Restored(ed.world, pie.snap)
           IN  ed' = [ed EXCEPT !.world = w,
                                !.drift = \/ @ \/ pie.saved \/ pie.scene # ed.id
                                          \/ Snapshot(w) # pie.snap]
        /\ UNCHANGED <<drag, wantsClose, edits>>

(* New and Open while playing destroy the scene PIEController points to.   *)
(* What follows reads freed memory: the process dies, or the new scene has *)
(* taken the old one's place, and PieTick and Stop act on it.              *)
StaleScene == /\ ed.running /\ Playing /\ pie.scene # ed.id
              /\ ed' = Dies(ed)
              /\ UNCHANGED <<drag, wantsClose, pie, edits>>
------------------------------------------------------------------------------
EditStep ==
    \/ AddEntity \/ Spawn \/ DropPrefab \/ DropMesh \/ EditGlobals
    \/ AddComponent \/ RemoveComponent
    \/ \E h \in Living(ed.world) : DeleteEntity(h) \/ Select(h) \/ SaveAsPrefab(h)
    \/ \E hs \in SetToSeqs(Living(ed.world)) \union {<<h>> : h \in Living(ed.world)} :
          DuplicateSelection(hs)
    \/ \E v \in Sizes : ChangeMaterial(v) \/ EditWidget(v) \/ DragMove(v)
    \/ \E v \in Poses : MoveGizmo(v)
    \/ DragStart \/ DragEnd

HistoryStep == Undo \/ Redo

SceneStep == \/ DoNew \/ DoSave \/ Discard \/ SaveAndGoOn \/ Cancel \/ ExitMenu
             \/ \E f \in Files : DoOpen(f) \/ DoSaveAs(f)

Next == \/ EditStep \/ HistoryStep \/ SceneStep \/ CloseBox \/ CloseCheck
        \/ Play \/ PieTick \/ Stop \/ StaleScene

(* run() checks the close box at the head of every frame.                  *)
Spec == Init /\ [][Next]_vars /\ WF_vars(CloseCheck)
------------------------------------------------------------------------------
(* An unmarked title bar means the scene is on disk as it is in memory, up *)
(* to the changes that nothing marks; or a save of the clean scene failed  *)
(* after it had truncated the only copy.                                   *)
CleanIsSaved ==
    /\ TypeOK
    /\ (ed.running /\ ~ed.dirty /\ ~ed.drift /\ ~Playing) =>
          IF ed.path = "" THEN DOMAIN ed.world.ent = {}
          ELSE ed.disk[ed.path] \in {SceneFile(ed.world), BadFile}

(* A scene with marked changes is replaced, or the editor left, only after *)
(* they were saved or the user chose to discard them; or she chose "Save"  *)
(* on the way out and the save failed.                                     *)
NothingLostUnasked ==
    [][(ed.dirty /\ (ed'.id # ed.id \/ (ed.running /\ ~ed'.running)) /\ ~ed'.crashed) =>
           \/ Discard
           \/ \E f \in Files : ed'.disk[f] = SceneFile(ed.world)
           \/ SaveAndGoOn /\ ed.pending = "close"]_vars

(* Undo and redo leave every entity alone but the one the command made or  *)
(* names, however the slots were reused since.  A prefab that was captured *)
(* among other entities leads, when instantiated, only to its own.         *)
NamedEntityOnly ==
    HistoryStep =>
        LET c == IF Len(ed'.undo) < Len(ed.undo) THEN Last(ed.undo) ELSE Last(ed.redo)
        IN  \A h \in Living(ed.world) \ {c.e} :
               IsAlive(ed'.world, h) /\ Of(ed'.world, h) = Of(ed.world, h)
LinkedInside ==
    Spawn \/ DropPrefab =>
        LET new == Living(ed'.world) \ Living(ed.world)
        IN  \A h \in new : Has(ed'.world, h, "kid") => Linked(Of(ed'.world, h)["kid"]) \in new
OwnEntityOnly == [][NamedEntityOnly /\ LinkedInside]_vars

(* Stopping play leaves no entity the play session spawned, and every      *)
(* entity that lived through it has its components back.                   *)
StopRestores ==
    [][(Stop /\ pie.scene = ed.id) =>
          /\ Living(ed'.world) = Living(ed.world) \intersect DOMAIN pie.snap
          /\ \A h \in Living(ed'.world) : \A k \in DOMAIN pie.snap[h] :
                Has(ed'.world, h, k) /\ Of(ed'.world, h)[k] = pie.snap[h][k]]_vars

(* A clean editor whose close box was clicked ends, unless the user makes  *)
(* new changes or opens the dialog.                                        *)
CloseHeard == (wantsClose /\ ~ed.dirty /\ ~ed.open) ~> (~ed.running \/ ed.dirty \/ ed.open)
==============================================================================
