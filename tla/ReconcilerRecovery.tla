-------------------------- MODULE ReconcilerRecovery --------------------------
(***************************************************************************)
(* The inductive invariants about what a run leaves behind.  GInv says     *)
(* that a tree is a tree, NInv that without errors and kills a root nobody *)
(* has locked can be scanned (NeverWedged), and SInv follows a rollback:   *)
(* what is already back, what is still the run's own, and what is in its   *)
(* backup (RollbackRestores).  Like TInv they are about states in which no *)
(* user interfered.                                                        *)
(***************************************************************************)
EXTENDS ReconcilerTrees

(* Entries lie below directories and only links lead somewhere; a rollback  *)
(* looks at the way to an entry before it puts the entry back.              *)
Rooted == \A i \in Inodes : \A x \in Paths :
    tree[i][x].kind # "absent" => \A y \in Above[x] : IsDir(i, y)
Clean == \A i \in Inodes : \A x \in Paths :
    tree[i][x].kind = "absent" => tree[i][x].to = NoSource
WayBack(p) == pc[p] = "putback" => \A o \in journal[p] : LastOp(p, o) =>
    \A y \in Above[o[2]] : IsDir(fd[p][o[1]], y)
GInv == envs = 0 => Rooted /\ Clean /\ \A p \in Applies : WayBack(p)

------------------------------------------------------------------------------
(* What a target holds when nobody has it locked can be scanned, at the     *)
(* start and, while there are no errors, users and kills, ever after.       *)
SoundPriors == \A w \in Priors : w.present => Scannable(w.ns, w.nodes)
Undisturbed == faults = 0 /\ envs = 0 /\ crashes = 0

Recorded(i) == IF ns[i].managed = NoFile THEN NoLinks ELSE ns[i].managed.entries
Intact(i) == LinksSound(Recorded(i), tree[i])
Sound(i) == RecordReadable(ns[i]) /\ Intact(i)

(* A run that is past validation may have changed links; one that is not    *)
(* has none to undo, and the records of its targets are those it remembers, *)
(* or its own empty ones.                                                   *)
NothingToUndo(p) == /\ pc[p] \in Promoting \cup {"drop", "settle"} => Past(p)
                    /\ ~Past(p) => journal[p] = {} /\ parents[p] = {}
Harmless(p) == pc[p] \in Early \/ (outcome[p] = "failed" /\ ~Past(p))
Reported(p, t) == pc[p] = "release" \/ (pc[p] = "report" /\ t \notin left[p])
HoldsSound(p) ==
    Harmless(p) => \A t \in locked[p] :
        /\ Intact(fd[p][t])
        /\ pc[p] \notin {"report", "release"} /\ prev[p][t] # NoFile => Rec(p, t) = prev[p][t]
        /\ Reported(p, t) => RecordReadable(ns[fd[p][t]])
InUse(i) == \E p \in Applies : \E t \in locked[p] : fd[p][t] = i
NInv == Undisturbed =>
    /\ litter = {}
    /\ \A i \in Inodes : InUse(i) \/ Sound(i)
    /\ \A p \in Applies : NothingToUndo(p) /\ HoldsSound(p)

------------------------------------------------------------------------------
(* No error gets between a directory that is made on the way to a link and  *)
(* the note of it, nor between a backup and its journal entry.              *)
AllNoted == NoGaps /\ "openparent" \notin FaultPoints

(* Rollback.  An operation that asks for the place of another one's parent  *)
(* directory moves a link below itself; such a rollback fails.              *)
Moves(p) == \E o, q \in Ops(p) : o[1] = q[1] /\ o[2] \in Above[q[2]]

(* Where links are asked for or recorded, and no one of them above another, *)
(* no operation moves one.                                                  *)
Used == {x \in Artifacts : \/ \E c \in Configs : \E t \in Targets : c[t][x] # NoSource
                           \/ \E w \in Priors : /\ w.ns.managed # NoFile
                                                /\ w.ns.managed.entries[x] # NoSource}
NothingNested == \A x, y \in Used : x \notin Above[y]
UsesOnly(links) == Managed(links) \subseteq Used
UInv == /\ \A i \in Inodes : UsesOnly(Recorded(i))
        /\ \A p \in Applies : \A t \in Targets :
              /\ UsesOnly(want[p][t]) /\ UsesOnly(seen[p][t].entries)
              /\ prev[p][t] # NoFile => UsesOnly(prev[p][t].entries)

(* A view with no entries outside of directories, and no root without them. *)
Late(p) == Past(p) /\ phase[p] # "committed"
SeenWhole(p, t) ==
    LET view == seen[p][t] IN
    /\ ~Blocked(view, want[p][t], CacheRoot[p])
    /\ view.cache = NoCache => view.entries = NoLinks
    /\ \A x \in Managed(view.entries) : view.entries[x] \notin Unsafe /\ view.unmanaged[x] = Nothing
    /\ \A x \in Paths : view.unmanaged[x].kind = "absent" => view.unmanaged[x] = Nothing
    /\ \A x \in Paths : \A y \in Above[x] :
          view.unmanaged[x].kind # "absent" \/ x \in Managed(view.entries)
              => view.unmanaged[y].kind = "dir"
SeenAbsent(p) ==
    /\ \A t \in Targets : ~seen[p][t].exists => seen[p][t] = AbsentView
    /\ pc[p] = "walk" => \A t \in Targets : First(p, t) => seen[p][t].exists

(* What is at the place of an operation, and in the backup for it: while    *)
(* the operation is undone or not done, between its two halves, and done.   *)
OldLink(p, o) == LET node == tree[fd[p][o[1]]][o[2]] IN
    node.kind = "link" /\ node.to = seen[p][o[1]].entries[o[2]]
IsNew(p, o) == seen[p][o[1]].entries[o[2]] = NoSource
Saved(p, o) == LET node == bak[p][o[1]][o[2]] IN
    IF IsNew(p, o) THEN node.kind = "absent"
    ELSE node.kind = "link" /\ node.to = seen[p][o[1]].entries[o[2]]
WayThere(p, o) == \A y \in Above[o[2]] : IsDir(fd[p][o[1]], y)
Half(p, o) == (pc[p] = "install" /\ NextOp(p, o)) \/ (pc[p] = "putback" /\ LastOp(p, o))
HalfDone(p, o) ==
    Half(p, o) /\ Absent(fd[p][o[1]], o[2]) /\ Saved(p, o) /\ WayThere(p, o)
Done(p, o) ==
    /\ o \in journal[p] /\ ~Half(p, o) /\ Saved(p, o) /\ WayThere(p, o)
    /\ IF want[p][o[1]][o[2]] = NoSource THEN Absent(fd[p][o[1]], o[2])
       ELSE tree[fd[p][o[1]]][o[2]] = StagedLink(p, o)
NotDone(p, o) ==
    /\ o \notin journal[p] /\ ~Half(p, o) /\ bak[p][o[1]][o[2]].kind = "absent"
    /\ IF IsNew(p, o) THEN Absent(fd[p][o[1]], o[2]) ELSE OldLink(p, o)
InOrder(p, o) == HalfDone(p, o) \/ Done(p, o) \/ NotDone(p, o)

(* Everything else is as it was seen, but for directories made on the way.  *)
Beside(p, o) ==
    LET node == tree[fd[p][o[1]]][o[2]]
        view == seen[p][o[1]]
    IN
    IF o[2] \in Managed(view.entries) THEN OldLink(p, o)
    ELSE IF o \in parents[p] /\ pc[p] \notin {"report", "release"}
    THEN node.kind = "dir" /\ view.unmanaged[o[2]] = Nothing
    ELSE [kind |-> node.kind, to |-> node.to] = view.unmanaged[o[2]]
Laid(p, t) == \A x \in Paths : IF <<t, x>> \in Ops(p) THEN InOrder(p, <<t, x>>) ELSE Beside(p, <<t, x>>)

(* A root that the run made is gone in the end, the others have their       *)
(* record back, or a receipt where there was none.                          *)
Gone(p, t) == Reported(p, t) /\ made[p][t] # NoInode
Standing(p, t) ==
    /\ t \in sel[p] /\ at[t] = fd[p][t] /\ ns[fd[p][t]].exists
    /\ IF made[p][t] = NoInode THEN seen[p][t].exists ELSE seen[p][t] = AbsentView
    /\ Laid(p, t)
    /\ t \in PutBackOnes(p) => Rec(p, t) = prev[p][t]
    /\ Reported(p, t) => RecordReadable(ns[fd[p][t]]) /\ journal[p] = {}
Whole(p, t) ==
    /\ SeenWhole(p, t) /\ prev[p][t] = SeenRecord(p, t)
    /\ IF Gone(p, t) THEN at[t] # fd[p][t] /\ seen[p][t] = AbsentView ELSE Standing(p, t)
Reverts(p) ==
    /\ NothingToUndo(p)
    /\ Late(p) /\ ~errs[p] /\ ~Moves(p) =>
          journal[p] \subseteq Ops(p) /\ \A t \in locked[p] : Whole(p, t)

(* A run remembers what it has found, and errors of the rollback of a run   *)
(* that was past validation come on top of the one that stopped it, or of   *)
(* what is left in a root it made.                                          *)
RemembersFound(p) ==
    pc[p] \in Early => \A t \in Taken(p) :
        IF fresh[p][t] THEN prev[p][t] = NoFile ELSE prev[p][t] = Rec(p, t)
ErrorsCounted(p) ==
    /\ errs[p] => outcome[p] = "failed"
    /\ errs[p] /\ Late(p) /\ ~Moves(p) /\ sel[p] \subseteq locked[p]
          => faults >= 2 \/ Littered(p)
SInv == \A p \in Applies : SeenAbsent(p) /\ RemembersFound(p) /\ ErrorsCounted(p) /\ Reverts(p)
===============================================================================
