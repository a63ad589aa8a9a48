------------------------------ MODULE SaveSystem ------------------------------
(***************************************************************************)
(* tools/SaveSystem: profiles, match records and checkpoints, each staged  *)
(* to <path>.tmp and renamed over its target, and latest.checkpoint, a copy*)
(* of the newest checkpoint.  The steps of one write are the file-system   *)
(* calls it makes; the process may crash between any two of them and a new *)
(* SaveSystem then deletes the orphaned .tmp files.  A file's content is   *)
(* the number of the write that produced it.                               *)
(***************************************************************************)
EXTENDS Integers, FiniteSets

CONSTANTS Profiles,        \* <accountId>.profile paths
          Matches,         \* <matchId>.matchrecord paths
          Checkpoints,     \* checkpoint_tick_<tick>.checkpoint paths
          MaxWrites        \* bound: writes begun

ASSUME SaveAssumption == /\ Checkpoints \cap (Profiles \union Matches) = {}
                         /\ Profiles \cap Matches = {}
                         /\ MaxWrites \in Nat

Paths  == Profiles \union Matches \union Checkpoints
Absent == 0
Torn   == 0 - 1     \* some bytes of the content: unpackContainer rejects it

VARIABLES
    file,        \* the target paths
    tmp,         \* <path>.tmp
    latest,      \* latest.checkpoint
    pc,          \* the next file-system call of the process
    path,        \* the path being written
    writes,      \* number of the current write
    committed,   \* history: the last write of each path reported as done
    disturbed    \* history: the paths a rename of which was refused, or the
                 \* .tmp of which another SaveSystem removed

vars == <<file, tmp, latest, pc, path, writes, committed, disturbed>>

Steps == {"idle", "open", "fill", "rename", "remove", "renameAgain", "discard",
          "copy", "copying", "crashed"}

Contents == Torn..MaxWrites

TypeOK == /\ file \in [Paths -> Contents]
          /\ tmp \in [Paths -> Contents]
          /\ latest \in Contents
          /\ pc \in Steps
          /\ path \in Paths
          /\ pc \in {"copy", "copying"} => path \in Checkpoints
          /\ writes \in 0..MaxWrites
          /\ committed \in [Paths -> 0..MaxWrites]
          /\ disturbed \subseteq Paths

Init == /\ file = [p \in Paths |-> Absent]
        /\ tmp = [p \in Paths |-> Absent]
        /\ latest = Absent
        /\ pc = "idle"
        /\ path \in Paths
        /\ writes = 0
        /\ committed = [p \in Paths |-> 0]
        /\ disturbed = {}
------------------------------------------------------------------------------
(* saveProfile, writeMatchRecord, createCheckpoint: pack, then atomicWrite.*)
Save(p) ==
    /\ pc = "idle" /\ writes < MaxWrites
    /\ path' = p
    /\ writes' = writes + 1
    /\ pc' = "open"
    /\ UNCHANGED <<file, tmp, latest, committed, disturbed>>

(* deleteProfile.                                                          *)
Delete(p) ==
    /\ pc = "idle" /\ p \in Profiles
    /\ file' = [file EXCEPT ![p] = Absent]
    /\ committed' = [committed EXCEPT ![p] = 0]
    /\ UNCHANGED <<tmp, latest, pc, path, writes, disturbed>>

(* ofstream(tmp, trunc): empties or creates the file, or fails.            *)
OpenTmp ==
    /\ pc = "open"
    /\ \/ tmp' = [tmp EXCEPT ![path] = Torn] /\ pc' = "fill"
       \/ pc' = "idle" /\ UNCHANGED tmp
    /\ UNCHANGED <<file, latest, path, writes, committed, disturbed>>

(* write and flush; a failed one leaves the partial file behind.           *)
AfterFill_Unchecked(ok) == "rename"     \* mutant: if (!out) return false dropped
AfterFill(ok) == IF ok THEN "rename" ELSE "idle"

FillTmp ==
    /\ pc = "fill"
    /\ \E ok \in BOOLEAN :
          /\ tmp' = [tmp EXCEPT ![path] = IF ok /\ @ # Absent THEN writes ELSE @]
          /\ pc' = AfterFill(ok)
    /\ UNCHANGED <<file, latest, path, writes, committed, disturbed>>

(* The write is done: a checkpoint goes on to refresh latest.checkpoint.   *)
Finish_Always ==     \* mutant: every kind of write refreshes latest.checkpoint
    committed' = [committed EXCEPT ![path] = writes] /\ pc' = "copy"
Finish == /\ committed' = [committed EXCEPT ![path] = writes]
          /\ pc' = IF path \in Checkpoints THEN "copy" ELSE "idle"

Renamed == /\ file' = [file EXCEPT ![path] = tmp[path]]
           /\ tmp' = [tmp EXCEPT ![path] = Absent]

(* rename(tmp, path): a rename that ends as the file system wants it, or   *)
(* one it refuses, because the target exists or .tmp has gone.             *)
Refused(next) == /\ pc' = next
                 /\ disturbed' = disturbed \union {path}
                 /\ UNCHANGED <<file, tmp, committed>>

RenameTmp ==
    /\ pc = "rename"
    /\ \/ tmp[path] # Absent /\ Renamed /\ Finish /\ UNCHANGED disturbed
       \/ Refused("remove")
    /\ UNCHANGED <<latest, path, writes>>

(* "rename can fail across some filesystems if the target exists; retry":  *)
(* the target is removed first.                                            *)
RemoveTarget ==
    /\ pc = "remove"
    /\ file' \in {file, [file EXCEPT ![path] = Absent]}
    /\ pc' = "renameAgain"
    /\ UNCHANGED <<tmp, latest, path, writes, committed, disturbed>>

RenameAgain ==
    /\ pc = "renameAgain"
    /\ \/ tmp[path] # Absent /\ Renamed /\ Finish /\ UNCHANGED disturbed
       \/ Refused("discard")
    /\ UNCHANGED <<latest, path, writes>>

(* Both renames failed: the staged file is removed, the caller told so.    *)
DiscardTmp ==
    /\ pc = "discard"
    /\ tmp' = [tmp EXCEPT ![path] = Absent]
    /\ pc' = "idle"
    /\ UNCHANGED <<file, latest, path, writes, committed, disturbed>>

(* copy_file(path, latest, overwrite_existing): truncates latest, then     *)
(* fills it; an error is ignored.                                          *)
CopyBegin ==
    /\ pc = "copy"
    /\ \/ latest' = Torn /\ pc' = "copying"
       \/ pc' = "idle" /\ UNCHANGED latest
    /\ UNCHANGED <<file, tmp, path, writes, committed, disturbed>>

CopyEnd ==
    /\ pc = "copying"
    /\ latest' \in {file[path], Torn}
    /\ pc' = "idle"
    /\ UNCHANGED <<file, tmp, path, writes, committed, disturbed>>

(* cleanupOrphanedTempFiles().                                             *)
AllTmpRemoved == tmp' = [p \in Paths |-> Absent]

(* The process dies between two calls; a new one cleans up first.          *)
Crash == /\ pc # "crashed"
         /\ pc' = "crashed"
         /\ UNCHANGED <<file, tmp, latest, path, writes, committed, disturbed>>

Restart == /\ pc = "crashed"
           /\ AllTmpRemoved
           /\ pc' = "idle"
           /\ UNCHANGED <<file, latest, path, writes, committed, disturbed>>

(* Another SaveSystem on the same root is constructed, or calls            *)
(* setRootPath, while this one is at work: its cleanup removes the .tmp    *)
(* files one by one (a removal that the platform refuses is no step).      *)
OtherCleanup(p) == /\ tmp[p] # Absent
                   /\ tmp' = [tmp EXCEPT ![p] = Absent]
                   /\ disturbed' = disturbed \union {p}
                   /\ UNCHANGED <<file, latest, pc, path, writes, committed>>

Next == \/ \E p \in Paths : Save(p) \/ Delete(p) \/ OtherCleanup(p)
        \/ OpenTmp \/ FillTmp \/ RenameTmp \/ RemoveTarget \/ RenameAgain
        \/ DiscardTmp \/ CopyBegin \/ CopyEnd
        \/ Crash \/ Restart

Spec == Init /\ [][Next]_vars
------------------------------------------------------------------------------
(* A target holds the last write reported done, or a later one, complete.  *)
Kept(p) == file[p] # Torn /\ file[p] >= committed[p]

(* "All writes are atomic (write to <path>.tmp, then rename over the       *)
(* target)" (SaveSystem.h): a target never holds less, through every crash *)
(* and failed write, on a path whose renames were never refused - a        *)
(* refused one removes the target before it is tried again - and whose     *)
(* .tmp no other SaveSystem removed.                                       *)
Durable == \A p \in Paths \ disturbed : Kept(p)

(* A target only changes to the complete content of the write under way on *)
(* it, or to nothing (deleteProfile, the removal before the second         *)
(* rename): no torn or orphaned .tmp is ever promoted, whatever crashes,   *)
(* whichever renames fail and whoever else cleans up.                      *)
OnlyCurrentWrite ==
    [][\A p \in Paths : file'[p] # file[p] =>
           \/ p = path /\ pc \in {"rename", "renameAgain"} /\ file'[p] = writes
           \/ (p = path \/ pc = "idle") /\ file'[p] = Absent]_vars

(* latest.checkpoint never gets ahead of the checkpoints: what it holds    *)
(* complete was first reported done under a checkpoint's own name, so a    *)
(* crash cannot leave it naming a state the server never saved.            *)
LatestTrails == latest > 0 => \E p \in Checkpoints : committed[p] >= latest
==============================================================================
