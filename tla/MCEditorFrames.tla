--------------------------- MODULE MCEditorFrames ---------------------------
(* EditorFrames for TLC: the asset paths are interchangeable. *)
EXTENDS EditorFrames

CONSTANTS p, q
MCPaths == {p, q}
Swap == Permutations(MCPaths)
=============================================================================
