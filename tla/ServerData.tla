------------------------------ MODULE ServerData ------------------------------
(***************************************************************************)
(* The files of SaveSystem together with what is in them: every write puts *)
(* a profile, a match record or a checkpoint into its file, and anyone may *)
(* load any file at any moment of the writes and crashes of SaveSystem.    *)
(***************************************************************************)
EXTENDS SaveSystem, SaveFiles

CONSTANTS SomeProfiles, SomeMatches, SomeCheckpoints      \* what is saved

(* Texts, the data of a component and the lists with a uint16 count fit    *)
(* it: the code writes what is left of a longer one's length, and all its  *)
(* bytes.                                                                  *)
Short(S) == {s \in Seq(S) : Len(s) < W16}
Components == Int \X Short(Int)
Entities == Int \X Short(Components)
Players == Int \X Short(Int) \X Int

ASSUME DataAssumption ==
    /\ SomeProfiles \subseteq Int \X Short(Int) \X Int \X Int \X Seq(Int) \X Seq(Int)
    /\ SomeMatches \subseteq Int \X Short(Int) \X Short(Int) \X Int \X Seq(Players) \X Seq(Int)
    /\ SomeCheckpoints \subseteq Int \X Short(Int) \X Short(Int) \X Seq(Entities) \X Seq(Int)
                                 \X Short([1..1 -> Int]) \X Seq(Int)

VARIABLE saved      \* what each write saves

ToSave(p) == CASE p \in Profiles    -> SomeProfiles
              [] p \in Matches     -> SomeMatches
              [] p \in Checkpoints -> SomeCheckpoints

DataInit == Init /\ saved = << >>

(* saveProfile, writeMatchRecord, createCheckpoint serialise their         *)
(* argument before the first call to the file system.                      *)
DataNext == /\ Next
            /\ saved' \in IF writes' > writes
                          THEN {Append(saved, v) : v \in ToSave(path')} ELSE {saved}

DataSpec == DataInit /\ [][DataNext]_<<vars, saved>>

Packed(p, v) == CASE p \in Profiles    -> PackContainer(1, SerializeProfile(v))
                  [] p \in Matches     -> PackContainer(2, SerializeMatch(v))
                  [] p \in Checkpoints -> PackContainer(3, SerializeCheckpoint(v))

Read(p, f) == CASE p \in Profiles    -> LoadProfile(f, 0)
                [] p \in Matches     -> LoadMatchRecord(f)
                [] p \in Checkpoints -> LoadCheckpoint(f)

Unreadable(p) == IF p \in Profiles THEN DefaultProfile(0) ELSE Nothing

(* The files that a copy broken off anywhere may leave: less than all that *)
(* the write packed.                                                       *)
CutShort(cells) == {SubSeq(cells, 1, n) : n \in 0..Len(cells) - 1}

(* From every step that changes a file on, a load of it gives exactly what *)
(* the write that made it saved, field by field, or says that there is     *)
(* nothing (for a profile: gives the default one).  latest.checkpoint,     *)
(* however far it is copied, gives no mixture: what it names, or nothing.  *)
LoadsWhatWasSaved ==
    [][/\ \A p \in Paths : file'[p] # file[p] =>
              IF file'[p] = Absent THEN Read(p, << >>) = Unreadable(p)
              ELSE Read(p, Packed(p, saved[file'[p]])) = saved[file'[p]]
       /\ latest' # latest =>
              LET cells == Packed(path, saved[file[path]])
              IN  IF latest' = Torn
                  THEN \A cut \in CutShort(cells) : LoadCheckpoint(cut) = Nothing
                  ELSE LoadCheckpoint(cells) = saved[latest']]_<<vars, saved>>
==============================================================================
