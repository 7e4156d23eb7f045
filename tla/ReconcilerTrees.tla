--------------------------- MODULE ReconcilerTrees ---------------------------
(***************************************************************************)
(* The inductive invariant beside IInv and RInv about what is below the    *)
(* roots that a run has validated, from the first change to the release of *)
(* the locks.  CommitConverges and ValidatedCommits follow.  Users change  *)
(* what they like, so it is about states in which none did (envs = 0);     *)
(* errors and kills are included.                                          *)
(***************************************************************************)
EXTENDS ReconcilerRecords

(* A directory is open before it is locked only while it is being locked,   *)
(* and a root that a run made stays under its path until that run, which    *)
(* alone remembers it, takes it away.                                       *)
Opened(p) ==
    \A t \in Targets \ locked[p] : fd[p][t] # NoInode
        => pc[p] \in {"flock", "ns", "abandon"} /\ First(p, t)
MadeRoots(p) ==
    \A t \in Targets : made[p][t] # NoInode =>
        /\ fd[p][t] \in {NoInode, made[p][t]}
        /\ t \notin locked[p] => at[t] = made[p][t]
        /\ \A q \in Applies \ {p} : made[q][t] # made[p][t]

(* Nothing is journaled before the first link is promoted.                  *)
NothingDone(p) ==
    /\ pc[p] \in Early \cup {"idle", "scan", "walk", "plan", "stage"} => journal[p] = {}
    /\ pc[p] \in Early => phase[p] \in {"locking", "validation"}

(* The link that a run, as far as it got, wants or leaves at each artifact; *)
(* none at the one whose old link is moved aside.                           *)
Now(p, t) ==
    [x \in Artifacts |->
        IF <<t, x>> \in journal[p] THEN want[p][t][x]
        ELSE IF pc[p] = "install" /\ NextOp(p, <<t, x>>) THEN NoSource
        ELSE seen[p][t].entries[x]]

InPlace(p, t) ==
    \A x \in Managed(Now(p, t)) :
        /\ tree[fd[p][t]][x].kind = "link" /\ tree[fd[p][t]][x].to = Now(p, t)[x]
        /\ \A y \in Above[x] : IsDir(fd[p][t], y)

(* A wanted link has room: its name is free, and so is its way, but for     *)
(* links that are still to be removed.                                      *)
Room(p, t) ==
    \A x \in Managed(want[p][t]) :
        /\ x \notin Managed(Now(p, t)) => Absent(fd[p][t], x)
        /\ \A y \in Above[x] : \/ tree[fd[p][t]][y].kind \in {"dir", "absent"}
                               \/ y \in Managed(Now(p, t))

(* The transaction, from validation to the release of the locks if it       *)
(* commits.                                                                 *)
Active(p) ==
    \/ pc[p] \in Promoting \cup {"drop", "settle"}
    \/ pc[p] = "release" /\ outcome[p] \in {"ok", "committed"}
Planned(p) == locked[p] \subseteq sel[p] /\ ~PlanBlocked(p)
RootsHeld(p) == \A t \in locked[p] : at[t] = fd[p][t] /\ ns[fd[p][t]].exists
TreesFollow(p) == \A t \in locked[p] : InPlace(p, t) /\ Room(p, t)
StepsFollow(p) ==
    /\ pc[p] = "move" => \A o \in Ops(p) : NextOp(p, o) => Kind(p, o) \in {"REPLACE", "REMOVE"}
    /\ pc[p] = "install" => \A o \in Ops(p) : NextOp(p, o) =>
          /\ want[p][o[1]][o[2]] # NoSource
          /\ \A y \in Above[o[2]] : IsDir(fd[p][o[1]], y)
    /\ pc[p] \notin {"stage", "promote", "move", "install"} => Ops(p) \subseteq journal[p]
RecordsFollow(p) ==
    \A t \in locked[p] :
        pc[p] \in {"drop", "settle", "release"} \/ (pc[p] = "publish" /\ t \notin left[p])
            => Rec(p, t) = Published(p, t)
Transaction(p) ==
    Active(p) => Planned(p) /\ RootsHeld(p) /\ TreesFollow(p) /\ StepsFollow(p) /\ RecordsFollow(p)

Roots(p) == Opened(p) /\ MadeRoots(p)
Trees(p) == Course(p) /\ NothingDone(p) /\ Transaction(p)
TInv == envs = 0 => \A p \in Applies : Roots(p) /\ Trees(p)

------------------------------------------------------------------------------
(* Whatever users do: at the place of a link about to be installed there is *)
(* nothing, or what somebody raced to put there, and the directories that a *)
(* run made, from its first link on, stay its own until it prunes them,     *)
(* because no operation on one of them follows.  NothingDestroyed follows.  *)
OnlyRacersInTheWay(p) ==
    pc[p] = "install" => \A o \in Ops(p) : NextOp(p, o) =>
        LET node == tree[fd[p][o[1]]][o[2]] IN node.kind = "absent" \/ node.by = "racer"
NothingMade(p) == pc[p] \in Early \cup {"idle", "scan", "walk", "plan", "stage"} => parents[p] = {}
OwnParents(p) ==
    pc[p] \notin {"report", "release"} => \A t \in Targets : \A x \in Paths :
        <<t, x>> \in parents[p] =>
            /\ t \in locked[p]
            /\ tree[fd[p][t]][x].kind = "dir" /\ tree[fd[p][t]][x].by = p
            /\ pc[p] \in {"promote", "move", "install"} => <<t, x>> \notin Todo(p)
Owned(p) == Course(p) /\ NothingMade(p) /\ OnlyRacersInTheWay(p) /\ OwnParents(p)
DInv == \A p \in Applies : Owned(p)

------------------------------------------------------------------------------
(* Where every root exists and every record can be read, a run that         *)
(* remembers no record of a locked target has found none, so the one there  *)
(* is its own.  RecordsKept follows, users and kills included.              *)
RootsExist == "initread" \notin FaultPoints /\ \A w \in Priors : w.present
OwnRecord(p, t) == Rec(p, t) \in {NoFile, EmptyRecord(p), Published(p, t)}
WInv == /\ \A t \in Targets : at[t] # NoInode
        /\ \A p \in Applies : /\ \A t \in Targets : made[p][t] = NoInode
                              /\ \A t \in Taken(p) : prev[p][t] = NoFile => OwnRecord(p, t)

------------------------------------------------------------------------------
(* Where no users interfere and no error gets between a backup and its      *)
(* journal entry, an entry is in the backup of a run because of a journaled *)
(* operation or the next one, because it could not be put back, or because  *)
(* the run committed; and a root that a run made has no backups: the plan   *)
(* saw nothing there to replace.  BackupsKept follows.                      *)
NoGaps == MaxEnv = 0 /\ FaultPoints \cap {"readlink", "stat"} = {}
BackedUp(p) ==
    \A t \in Targets : \A x \in Paths : bak[p][t][x].kind # "absent" =>
        \/ <<t, x>> \in journal[p]
        \/ pc[p] = "install" /\ <<t, x>> \in Ops(p) /\ NextOp(p, <<t, x>>)
        \/ errs[p] /\ RolledBack(p)
        \/ phase[p] = "committed"
        \/ pc[p] = "done"
JournalDone(p) == pc[p] \in {"restore", "discard", "prune", "report"} => journal[p] = {}
NewRootsPlain(p) ==
    /\ \A t \in Targets : ~seen[p][t].exists => seen[p][t].entries = NoLinks
    /\ \A t \in Checked(p) : made[p][t] # NoInode => ~seen[p][t].exists
    /\ \A t \in Targets : made[p][t] # NoInode => \A x \in Paths : bak[p][t][x].kind = "absent"
BInv == envs = 0 /\ \A p \in Applies : BackedUp(p) /\ JournalDone(p) /\ NewRootsPlain(p)
=============================================================================
