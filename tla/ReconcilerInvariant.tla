------------------------- MODULE ReconcilerInvariant -------------------------
(***************************************************************************)
(* The inductive invariant behind TypeOK, MutualExclusion and              *)
(* OnlyHolderWrites.  Mutual exclusion alone is not inductive: that a run  *)
(* holds the flock of each of its locked targets depends on where it is in *)
(* _prepare_lock, on the targets its loops still have to visit, and on no  *)
(* directory being open as two different targets.  OInv, for NoDeadlock,   *)
(* is inductive beside it.                                                 *)
(***************************************************************************)
EXTENDS ReconcilerProperties

(* A directory is the root of one target only, under its path and under     *)
(* every descriptor of a run; a path names linked directories only.         *)
InodesApart ==
    /\ \A t \in Targets : at[t] # NoInode => at[t] \in alive
    /\ \A t, u \in Targets : at[t] # NoInode /\ at[t] = at[u] => t = u
    /\ \A p \in Applies : \A t, u \in Targets :
          fd[p][t] # NoInode => /\ fd[p][t] = at[u] => t = u
                                /\ fd[p][t] = fd[p][u] => t = u

(* A run holds the flock of its locked targets, and of the one whose        *)
(* namespace it opens.                                                      *)
Holds(p, t) == fd[p][t] \in Inodes /\ flock[fd[p][t]] = p
LocksHeldBy(p) ==
    /\ \A t \in locked[p] : Holds(p, t)
    /\ pc[p] = "flock" => \A t \in Targets : First(p, t) => fd[p][t] \in Inodes
    /\ pc[p] = "ns" => \A t \in Targets : First(p, t) => Holds(p, t)
LocksHeld == \A p \in Applies : LocksHeldBy(p)

(* Where a run is determines which targets it has locked and which ones its *)
(* current loop still visits.                                               *)
Unlocked == {"idle", "scan", "walk", "plan", "done"}
Preparing == {"root", "mkdir", "open", "flock", "ns", "abandon", "unchain"}
Working == {"validate", "stage", "promote", "move", "install", "clean", "publish", "drop"}
Looping == {"validate", "publish", "drop", "settle", "restore", "discard", "report"}
Turning == {"undo", "putback", "prune", "release"}
Tracked(p) ==
    /\ pc[p] \in Unlocked => locked[p] = {}
    /\ pc[p] = "plan" => left[p] = sel[p]
    /\ pc[p] \in Preparing => sel[p] \subseteq locked[p] \cup left[p]
                              /\ locked[p] \cap left[p] = {}
    /\ pc[p] = "init" =>
          /\ sel[p] \subseteq locked[p] \cup left[p]
          /\ \A t \in Targets : First(p, t) => left[p] \cap locked[p] = {t}
    /\ pc[p] \in Working => sel[p] \subseteq locked[p]
    /\ pc[p] \in Looping => left[p] \subseteq locked[p]
    /\ pc[p] \in Turning => left[p] = locked[p]
    /\ pc[p] # "release" => \A o \in journal[p] : o[1] \in locked[p]
TargetsTracked == \A p \in Applies : Tracked(p)

IInv == TypeOK /\ InodesApart /\ LocksHeld /\ TargetsTracked

(* Behind NoDeadlock.  A directory is one target to all runs, what a run    *)
(* has locked comes before what it has still to lock, and a flock is held   *)
(* for a locked target or for the one that is being prepared.               *)
OneTarget == \A p, q \in Applies : \A t, u \in Targets :
    fd[p][t] # NoInode /\ fd[p][t] = fd[q][u] => t = u
Ascending(p) == pc[p] \in Preparing \cup {"init"} =>
    \A t \in locked[p] : \A u \in left[p] : TargetRank[t] <= TargetRank[u]
HeldFor(p, t) == t \in locked[p] \/ (pc[p] \in {"ns", "abandon"} /\ First(p, t))
HeldByOwn(p) == \A i \in Inodes : flock[i] = p =>
    \E t \in Targets : fd[p][t] = i /\ HeldFor(p, t)
OInv == OneTarget /\ \A p \in Applies : Ascending(p) /\ HeldByOwn(p)
=============================================================================
