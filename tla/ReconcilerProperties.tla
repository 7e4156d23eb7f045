------------------------ MODULE ReconcilerProperties ------------------------
(***************************************************************************)
(* What apply_plan promises: to other runs, to users of the targets, and   *)
(* to whoever reads its result.  The type invariant is Reconciler!TypeOK.  *)
(***************************************************************************)
EXTENDS Reconciler, TargetVerifier

(* Two runs never both count the same directory among their locked targets, *)
(* however roots come and go under their paths (_prepare_lock).             *)
MutualExclusion ==
    \A p, q \in Applies : \A t \in locked[p] : \A u \in locked[q] :
        p # q => fd[p][t] # fd[q][u]

(* However many runs wait for target locks at once, one of them waits for a *)
(* run that waits for none of them: no circle of runs, and no run alone,    *)
(* has to be freed by the deadline of _acquire_fd.                          *)
WaitsFor(p, q) == pc[p] = "flock" /\ \E t \in Targets : First(p, t) /\ flock[fd[p][t]] = q
NoDeadlock ==
    \A S \in SUBSET Applies : S # {} => \E p \in S : \A q \in S : ~WaitsFor(p, q)

(* A step is the step of one run: the others stay where they are.           *)
OthersRest(p) ==
    \A q \in Applies \ {p} : UNCHANGED <<pc[q], left[q], locked[q], journal[q], parents[q]>>

(* Users aside, the entries and the record of a root change only in a step  *)
(* of the run that holds the flock on that very directory.                  *)
OnlyHolderWrites ==
    [][envs' = envs => \A i \in Inodes :
          tree'[i] # tree[i] \/ ns'[i].managed # ns[i].managed
              => \E p \in Applies : flock[i] = p /\ OthersRest(p)]_vars

(* From validation until the first change of a target, the state the plan   *)
(* was built from is the state of every locked target: nobody can slip in   *)
(* behind _fresh_fingerprint.                                               *)
AsPlannedFor(p, t) ==
    LET i == fd[p][t] IN
    /\ Scannable(ns[i], tree[i])
    /\ seen[p][t] = AsReviewed(Current(i), made[p][t] # NoInode, fresh[p][t])
Unchanged(p) == journal[p] = {} /\ parents[p] = {}
PlanIsCurrent ==
    \A p \in Applies : pc[p] \in {"stage", "promote"} /\ Unchanged(p)
        => \A t \in sel[p] : t \in locked[p] /\ AsPlannedFor(p, t)

(* A run that committed leaves every target converged: it scans cleanly, in *)
(* the name of this authority, and planning again from what is there now    *)
(* neither blocks nor finds a mutation.                                     *)
Finishing(p) == pc[p] = "release" /\ left[p] # {}
Converged(p, t) ==
    LET view == Current(at[t]) IN
    /\ Scannable(ns[at[t]], tree[at[t]])
    /\ view.cache = CacheRoot[p]
    /\ ~Blocked(view, want[p][t], CacheRoot[p])
    /\ Mutations(view, want[p][t]) = {}
CommitConverges ==
    \A p \in Applies : Finishing(p) /\ outcome[p] \in {"ok", "committed"}
        => \A t \in locked[p] : Converged(p, t)

(* `verify' and `apply' never disagree on a target that can be scanned,     *)
(* whatever runs, kills and users left there: it is reported converged      *)
(* exactly when apply would find nothing to do or to refuse and every       *)
(* desired skill and its snapshot read as they were locked, which apply     *)
(* looks at only while it stages; an invalid one cannot be applied to,      *)
(* because the plan is blocked or because a skill or snapshot is damaged;   *)
(* and a converged one counts all of its links as verified, without which   *)
(* its receipt would be refused.                                            *)
Fresh(t) == IF at[t] = NoInode THEN AbsentView ELSE Current(at[t])
VerdictAgrees ==
    \A t \in Targets : (at[t] # NoInode => Scannable(ns[at[t]], tree[at[t]]))
        => \A p \in Applies : \A c \in Configs :
              \A skill, snapshot \in [Wanted(c[t]) -> Conditions] :
                  Agree(Fresh(t), c[t], CacheRoot[p], skill, snapshot)

(* Without errors and users a run that passed validation commits: a plan    *)
(* that is still current can always be carried out.                         *)
ValidatedCommits ==
    faults = 0 /\ envs = 0 => \A p \in Applies :
        outcome[p] = "failed" /\ pc[p] # "done" => phase[p] \in {"locking", "validation"}

(* While no errors, users and kills interfere, a run that ends, whether it  *)
(* commits or gives up, leaves no target that later scans refuse: a root    *)
(* that nobody has locked can be scanned.                                   *)
NeverWedged ==
    \A t \in Targets : at[t] # NoInode /\ flock[at[t]] = NoApply
        => Scannable(ns[at[t]], tree[at[t]])

(* A run that fails after validation has, when it is about to release its   *)
(* locks, put every target back as it was scanned: the same links, record   *)
(* and other entries.  A single error leads there, unless a root that the   *)
(* run made holds leftovers of a transaction, and after further errors the  *)
(* run may say that it did not get there (rollback_errors); otherwise it    *)
(* did.  A target that was not there is back when the directory that the    *)
(* run locked is gone from its path, whatever others put there since.       *)
(* An error right behind the mkdir of a parent directory ("openparent"), or *)
(* between a backup and its journal entry, is lost to rollback: the found_  *)
(* runs show both, the other runs leave these two errors out.               *)
AsBefore(p, t) ==
    IF at[t] # fd[p][t] THEN seen[p][t] = AbsentView
    ELSE Scannable(ns[at[t]], tree[at[t]]) /\ Current(at[t]) = seen[p][t]
Littered(p) == \E t \in sel[p] : made[p][t] # NoInode /\ fd[p][t] \in litter
RollbackRestores ==
    \A p \in Applies :
        /\ pc[p] = "release" /\ locked[p] = sel[p]
        /\ outcome[p] = "failed" /\ Past(p)
        /\ (faults <= 1 /\ ~Littered(p)) \/ ~errs[p]
        => \A t \in locked[p] : AsBefore(p, t)

(* A manager record disappears only at the hands of the run that wrote it,  *)
(* and that had found none when it locked the target.                       *)
Wrote(p, t, record) == record \in {EmptyRecord(p), Published(p, t)} /\ prev[p][t] = NoFile
RecordsKept ==
    [][\A i \in Inodes : ns[i].managed # NoFile /\ ns'[i].managed = NoFile
          => \E p \in Applies : \E t \in locked[p] :
                fd[p][t] = i /\ Wrote(p, t, ns[i].managed)]_vars

(* A backup is given up only when its entry is back in the tree or when the *)
(* records of all targets are published.                                    *)
BackupsKept ==
    [][\A p \in Applies : \A t \in Targets : \A x \in Paths :
          bak'[p][t][x] # bak[p][t][x] /\ bak[p][t][x].kind # "absent"
              => \/ phase[p] = "committed"
                 \/ tree'[fd[p][t]][x] = bak[p][t][x]]_vars

(* No step of the manager destroys an entry of somebody else: what leaves   *)
(* the tree goes into the backup of the run that moves it, or is a link or  *)
(* directory that the run that takes it away, uncommitted, had put there.   *)
(* Users who write between a check and the rename behind it are exempt.     *)
Kept(p, i, x) ==
    \/ tree[i][x].by = p /\ phase[p] # "committed"
    \/ \E t \in locked[p] : fd[p][t] = i /\ bak'[p][t][x] = tree[i][x]
NothingDestroyed ==
    [][envs' = envs => \A i \in Inodes : \A x \in Paths :
          tree'[i][x] # tree[i][x] /\ tree[i][x].kind # "absent" /\ tree[i][x].by # "racer"
              => \E p \in Applies : OthersRest(p) /\ Kept(p, i, x)]_vars

(* A target that recorded the cache root of one authority is never taken    *)
(* over by a run of another authority.                                      *)
AuthorityKeepsTarget ==
    [][\A i \in Inodes : ns[i].managed # NoFile /\ ns'[i].managed # NoFile
          => ns'[i].managed.cache = ns[i].managed.cache]_vars

(* Every run that began ends: locks are taken in one order and every loop   *)
(* gets closer to its end, so runs that wait for each other do not exist.   *)
Terminates == <>[](\A p \in Applies : pc[p] \in {"idle", "done"})
=============================================================================
