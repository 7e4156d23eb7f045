-------------------------- MODULE SourceProperties --------------------------
(***************************************************************************)
(* What a snapshot of a source promises that was edited while it was made. *)
(***************************************************************************)
EXTENDS SourceTree

(* Part d of a tree is what the source showed there at one moment, under    *)
(* the rules of the ignore file in the same tree.                           *)
PartHeld(tree, d) ==
    \E s \in held : \A f \in FilesIn(d) :
        tree[f] = IF f \in Hidden(tree[Ignore]) THEN NoContent ELSE s[f]

(* All files of a tree were in the source with those bytes at one moment.   *)
FilesHeld(tree) == \E s \in held : \A f \in Files : tree[f] # NoContent => s[f] = tree[f]

(* However people edit the source while it is walked, and although each     *)
(* walk alone may mix moments, a cache entry is what its key says, all its  *)
(* files existed together, and every directory of it is complete.           *)
SnapshotsHeld ==
    \A e \in cache : /\ e.key = e.tree /\ FilesHeld(e.tree)
                     /\ \A d \in Dirs \cup {Root} : PartHeld(e.tree, d)
=============================================================================
