----------------------------- MODULE Workspaces -----------------------------
(***************************************************************************)
(* The agents of a tagma and the directories they may be given.            *)
(***************************************************************************)
CONSTANTS
    Agents,   \* agent ids
    Root,     \* the tagma's root agent
    Dirs,     \* canonical workspace directories
    RootDir,  \* the root's workspace
    Beneath,  \* pairs <<d, e>> with d strictly inside e
    Nobody    \* no holder, no stead

ASSUME WorkspacesAssumption ==
    /\ Root \in Agents /\ RootDir \in Dirs /\ Nobody \notin Agents
    /\ Beneath \subseteq Dirs \X Dirs
    /\ \A d \in Dirs : <<d, d>> \notin Beneath
=============================================================================
