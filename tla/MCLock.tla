------------------------------- MODULE MCLock -------------------------------
(***************************************************************************)
(* Instances of LockPipeline: one git source and one directory.            *)
(***************************************************************************)
EXTENDS LockProperties, TLC

CONSTANTS c1, c2, git, dir, r1, r2, r3

MCSourceRank == [s \in Sources |-> IF s = git THEN 1 ELSE 2]

(* The third tree of the directory lacks a skill; the second ones of both   *)
(* sources have skills of the same name.                                    *)
MCHolds == [s \in Sources |-> IF s = git THEN {r1, r2} ELSE Revisions]
MCComplete == (Sources \X Revisions) \ {<<dir, r3>>}
MCAllComplete == Sources \X Revisions
MCClashes == {{<<git, r2>>, <<dir, r2>>}}

MCOldLock == [by |-> NoCommand, rev |-> [s \in Sources |-> IF s = git THEN r2 ELSE r1]]
MCFirstLocks == {NoLock, MCOldLock}
MCOldLockOnly == {MCOldLock}

(* No cache; one with the first trees; one with a damaged entry.            *)
EmptyCache == [s \in Sources |-> [r \in Revisions |-> "none"]]
FilledCache == [s \in Sources |-> [r \in Revisions |-> IF r = r1 THEN r1 ELSE "none"]]
DamagedCache == [EmptyCache EXCEPT ![git][r2] = "corrupt"]
MCFirstCaches == {EmptyCache, FilledCache, DamagedCache}
MCNoCaches == {EmptyCache}

Symmetry == Permutations(Commands)
=============================================================================
