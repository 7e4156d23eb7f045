----------------------------- MODULE Reconciler -----------------------------
(***************************************************************************)
(* reconciler.apply_plan, run by any number of skillctl processes at once. *)
(*                                                                         *)
(* An apply scans its selected targets, plans, prepares and locks every    *)
(* target in root order, scans again under the locks, stages its links,    *)
(* promotes one link at a time through a journal, publishes one manager    *)
(* record per target, and only then drops its backups.  An error before    *)
(* the last record is published rolls everything back.  One element of     *)
(* Applies is one run of `skillctl apply`; runs overlap or follow one      *)
(* another as the interleaving has it.                                     *)
(*                                                                         *)
(* Directories are inodes: descriptors and flocks belong to inodes, and    *)
(* `at' says which inode a target path names now, so a directory removed   *)
(* and made again under one path is a different one, as in the code's      *)
(* identity checks.  The steps of one process between two changes of       *)
(* shared state are one action.  Failures are the injected ones of the     *)
(* tests: FaultPoints names where an OSError or a checkpoint may strike.   *)
(***************************************************************************)
EXTENDS Planner

CONSTANTS
    Applies,     \* runs of skillctl apply
    Targets,     \* configured targets, each with a root of its own
    TargetRank,  \* the order of str(root), in which targets are locked
    IdRank,      \* the order of target ids, in which operations are carried out
    Inodes,      \* directories that can be a target root
    Home,        \* the inode a target has that exists at the start
    CacheRoot,   \* the cache root of the authority each run works for
    Configs,     \* the desired links a run may be asked for, per target
    Priors,      \* what a target may hold before the first run
    FaultPoints, MaxFaults,  \* where errors strike, and how many
    MaxEnv,      \* how many changes users make beside the manager
    MaxCrashes,  \* how many runs are killed
    LockTimeout, \* can waiting for a lock time out?
    NoInode, NoApply

ASSUME ReconcilerAssumption ==
    /\ TargetRank \in [Targets -> Nat] /\ IdRank \in [Targets -> Nat]
    /\ \A t, u \in Targets : TargetRank[t] = TargetRank[u] \/ IdRank[t] = IdRank[u] => t = u
    /\ CacheRoot \in [Applies -> Caches]
    /\ Configs \subseteq [Targets -> Links]
    /\ Priors \subseteq [present : BOOLEAN, ns : Namespace, nodes : [Paths -> Node]]
    /\ NoInode \notin Inodes
    /\ Home \in [Targets -> Inodes]
    /\ \A t, u \in Targets : Home[t] = Home[u] => t = u
    /\ NoApply \notin Applies
    /\ MaxFaults \in Nat /\ MaxEnv \in Nat /\ MaxCrashes \in Nat
    /\ LockTimeout \in BOOLEAN

(* Entries lie below directories, only links lead somewhere, and a          *)
(* namespace that is not there holds nothing.                               *)
ASSUME PriorsAssumption == \A w \in Priors :
    /\ \A x \in Paths : w.nodes[x].kind # "absent" => \A y \in Above[x] : w.nodes[y].kind = "dir"
    /\ \A x \in Paths : w.nodes[x].kind # "link" => w.nodes[x].to = NoSource
    /\ ~w.ns.exists => w.ns = NoNamespace

(* A configuration names finitely many targets: among any of them one is    *)
(* locked last.                                                             *)
ASSUME TargetsAssumption == \A T \in SUBSET Targets :
    T # {} => \E t \in T : \A u \in T : TargetRank[u] <= TargetRank[t]

(* Link identities: the run that staged the link, or someone else.  A racer *)
(* is a user whose write fell between a check of the manager and the rename *)
(* that followed it.                                                        *)
ASSUME MakersAssumption == Makers = Applies \cup {"init", "env", "racer"}

VARIABLES
    at,       \* at[t]: the inode the root path of t names
    alive,    \* inodes that are linked into the file system
    tree,     \* tree[i]: the entries below root i
    ns,       \* ns[i]: the namespace .skill-delegator of root i
    litter,   \* roots whose namespace holds transaction trees that no run removes
    flock,    \* flock[i]: the run that holds the exclusive lock on i
    sel,      \* targets a run was asked to apply
    want,     \* desired links of a run, per target
    seen,     \* the view of each target a run's plan was built from
    pc, phase, left,  \* control: step, the code's phase, targets still to do
    fd,       \* root_fd: the inode a run opened for a target
    locked,   \* targets in locked_targets
    made,     \* created_chain: the root a run created for a target
    fresh,    \* managed_created
    prev,     \* previous_managed
    bak,      \* the entries a run moved to its backup tree
    journal,  \* journals: promoted operations not yet undone
    parents,  \* created_parents
    errs,     \* did rollback_errors become non-empty?
    outcome,  \* how a run ended
    faults, envs, crashes

disk == <<at, alive, tree, ns>>
plan == <<sel, want, seen>>
control == <<pc, phase, left>>
handles == <<fd, locked, made, flock>>
txn == <<fresh, prev, bak, journal, parents, errs>>
budget == <<faults, envs, crashes>>
vars == <<disk, litter, plan, control, handles, txn, outcome, budget>>

Steps == {"idle", "scan", "walk", "plan", "root", "mkdir", "open", "flock", "ns",
          "abandon", "unchain", "init", "validate", "stage", "promote", "move",
          "install", "clean", "publish", "drop", "settle", "undo", "putback",
          "restore", "discard", "prune", "report", "release", "done"}
Phases == {"locking", "validation", "staging", "promotion", "cleanup",
           "publication", "committed"}
Outcomes == {"none", "unscannable", "blocked", "refused", "converged", "ok", "failed",
             "committed", "crashed"}
Operations == Targets \X Artifacts

Hole == [kind |-> "absent", to |-> NoSource, by |-> "init"]
EmptyTree == [x \in Paths |-> Hole]
NoBackup == [t \in Targets |-> EmptyTree]

TypeOfDisk ==
    /\ at \in [Targets -> Inodes \cup {NoInode}]
    /\ alive \in SUBSET Inodes
    /\ tree \in [Inodes -> [Paths -> Node]]
    /\ ns \in [Inodes -> Namespace]
    /\ litter \in SUBSET Inodes

TypeOfPlan ==
    /\ sel \in [Applies -> SUBSET Targets]
    /\ want \in [Applies -> [Targets -> Links]]
    /\ seen \in [Applies -> [Targets -> View]]

TypeOfControl ==
    /\ pc \in [Applies -> Steps]
    /\ phase \in [Applies -> Phases]
    /\ left \in [Applies -> SUBSET Targets]
    /\ outcome \in [Applies -> Outcomes]

TypeOfHandles ==
    /\ fd \in [Applies -> [Targets -> Inodes \cup {NoInode}]]
    /\ locked \in [Applies -> SUBSET Targets]
    /\ made \in [Applies -> [Targets -> Inodes \cup {NoInode}]]
    /\ flock \in [Inodes -> Applies \cup {NoApply}]

TypeOfTxn ==
    /\ fresh \in [Applies -> [Targets -> BOOLEAN]]
    /\ prev \in [Applies -> [Targets -> Record \cup {NoFile}]]
    /\ bak \in [Applies -> [Targets -> [Paths -> Node]]]
    /\ journal \in [Applies -> SUBSET Operations]
    /\ parents \in [Applies -> SUBSET (Targets \X Paths)]
    /\ errs \in [Applies -> BOOLEAN]

TypeOfBudget == faults \in Nat /\ envs \in Nat /\ crashes \in Nat

TypeOK == /\ TypeOfDisk /\ TypeOfPlan /\ TypeOfControl
          /\ TypeOfHandles /\ TypeOfTxn /\ TypeOfBudget

------------------------------------------------------------------------------
(* Every target starts as one of Priors, at an inode of its own.            *)
Init ==
    /\ \E w \in [Targets -> Priors] :
          LET Homed(i) == {t \in Targets : w[t].present /\ Home[t] = i} IN
          /\ at = [t \in Targets |-> IF w[t].present THEN Home[t] ELSE NoInode]
          /\ alive = {i \in Inodes : Homed(i) # {}}
          /\ tree = [i \in Inodes |-> IF Homed(i) = {} THEN EmptyTree
                                      ELSE w[CHOOSE t \in Homed(i) : TRUE].nodes]
          /\ ns = [i \in Inodes |-> IF Homed(i) = {} THEN NoNamespace
                                    ELSE w[CHOOSE t \in Homed(i) : TRUE].ns]
    /\ litter = {}
    /\ flock = [i \in Inodes |-> NoApply]
    /\ sel = [p \in Applies |-> {}]
    /\ want = [p \in Applies |-> [t \in Targets |-> NoLinks]]
    /\ seen = [p \in Applies |-> [t \in Targets |-> AbsentView]]
    /\ pc = [p \in Applies |-> "idle"]
    /\ phase = [p \in Applies |-> "locking"]
    /\ left = [p \in Applies |-> {}]
    /\ fd = [p \in Applies |-> [t \in Targets |-> NoInode]]
    /\ locked = [p \in Applies |-> {}]
    /\ made = [p \in Applies |-> [t \in Targets |-> NoInode]]
    /\ fresh = [p \in Applies |-> [t \in Targets |-> FALSE]]
    /\ prev = [p \in Applies |-> [t \in Targets |-> NoFile]]
    /\ bak = [p \in Applies |-> NoBackup]
    /\ journal = [p \in Applies |-> {}]
    /\ parents = [p \in Applies |-> {}]
    /\ errs = [p \in Applies |-> FALSE]
    /\ outcome = [p \in Applies |-> "none"]
    /\ faults = 0 /\ envs = 0 /\ crashes = 0

------------------------------------------------------------------------------
(* The next target of a loop over sorted targets, and the last one of it.   *)
OwnOrderFirst(p, t) == \* mutant: every run has an order of its own
    t \in left[p] /\ \A u \in left[p] :
        IF p = CHOOSE q \in Applies : TRUE THEN TargetRank[t] <= TargetRank[u]
        ELSE TargetRank[u] <= TargetRank[t]
First(p, t) == t \in left[p] /\ \A u \in left[p] : TargetRank[t] <= TargetRank[u]
Last(p, t) == t \in left[p] /\ \A u \in left[p] : TargetRank[u] <= TargetRank[t]

(* Operations are sorted by target id, then by path.                        *)
DeepestFirst(o, q) == \* mutant: paths in reverse order
    \/ IdRank[o[1]] < IdRank[q[1]]
    \/ o[1] = q[1] /\ PathRank[o[2]] > PathRank[q[2]]
Before(o, q) == \/ IdRank[o[1]] < IdRank[q[1]]
                \/ o[1] = q[1] /\ PathRank[o[2]] < PathRank[q[2]]

Goto(p, step) == pc' = [pc EXCEPT ![p] = step]

(* One pass of a loop over targets: stay at the step while targets remain,  *)
(* go to `after' with the targets `again' behind the last one.              *)
Loop(p, t, step, after, again) ==
    IF left[p] = {t} THEN left' = [left EXCEPT ![p] = again] /\ Goto(p, after)
    ELSE left' = [left EXCEPT ![p] = @ \ {t}] /\ Goto(p, step)

(* The process ends and its plan with it.                                   *)
Forget(p) ==
    /\ sel' = [sel EXCEPT ![p] = {}]
    /\ want' = [want EXCEPT ![p] = [t \in Targets |-> NoLinks]]
    /\ seen' = [seen EXCEPT ![p] = [t \in Targets |-> AbsentView]]
    /\ left' = [left EXCEPT ![p] = {}]

Reset(p) ==
    /\ phase' = [phase EXCEPT ![p] = "locking"]
    /\ fresh' = [fresh EXCEPT ![p] = [t \in Targets |-> FALSE]]
    /\ prev' = [prev EXCEPT ![p] = [t \in Targets |-> NoFile]]
    /\ journal' = [journal EXCEPT ![p] = {}]
    /\ parents' = [parents EXCEPT ![p] = {}]
    /\ errs' = [errs EXCEPT ![p] = FALSE]

(* Leave before anything was locked or written.                             *)
Leave(p, how) ==
    /\ Goto(p, "done")
    /\ outcome' = [outcome EXCEPT ![p] = how]
    /\ Forget(p)

(* The except branch: roll back, or settle what was already committed.      *)
Fail(p) ==
    /\ Goto(p, IF phase[p] = "committed" THEN "settle" ELSE "undo")
    /\ left' = [left EXCEPT ![p] = locked[p]]
    /\ outcome' = [outcome EXCEPT
          ![p] = IF phase[p] = "committed" THEN "committed" ELSE "failed"]

(* An injected error, counted against MaxFaults.                            *)
Fault(point) == point \in FaultPoints /\ faults < MaxFaults /\ faults' = faults + 1

(* _verify_all: the paths still name the directories that are locked.       *)
Verified(p) == \A t \in locked[p] : at[t] = fd[p][t]

Current(i) == Scan(ns[i], tree[i])

(* Directories a run may put a link below: the real ones.                   *)
IsDir(i, x) == tree[i][x].kind = "dir"
Absent(i, x) == tree[i][x].kind = "absent"

(* An inode a new directory can get: neither linked nor open anywhere.      *)
Unused(i) == i \notin alive /\ \A p \in Applies : \A t \in Targets : i # fd[p][t]

Ops(p) == {o \in sel[p] \X Artifacts : o[2] \in Mutations(seen[p][o[1]], want[p][o[1]])}
Todo(p) == Ops(p) \ journal[p]
NextOp(p, o) == o \in Todo(p) /\ \A q \in Todo(p) \ {o} : Before(o, q)
LastOp(p, o) == o \in journal[p] /\ \A q \in journal[p] \ {o} : Before(q, o)
Kind(p, o) == Action(seen[p][o[1]], want[p][o[1]], o[2])

------------------------------------------------------------------------------
(* main, "apply": select the targets, then scan each without any lock.      *)
Begin(p) ==
    /\ pc[p] = "idle"
    /\ \E T \in {Targets} \cup {{t} : t \in Targets} :
          /\ sel' = [sel EXCEPT ![p] = T]
          /\ left' = [left EXCEPT ![p] = T]
    /\ \E c \in Configs : want' = [want EXCEPT ![p] = c]
    /\ Goto(p, "scan")
    /\ UNCHANGED <<disk, litter, seen, phase, handles, txn, outcome, budget>>

(* scan_target reads the namespace first and walks the links afterwards,    *)
(* by path both times; a run that holds the lock may write in between.      *)
ReadRecord(p) ==
    /\ pc[p] = "scan"
    /\ UNCHANGED <<disk, litter, phase, handles, txn, budget>>
    /\ \E t \in Targets :
        /\ First(p, t)
        /\ \/ /\ at[t] = NoInode
              /\ seen' = [seen EXCEPT ![p][t] = AbsentView]
              /\ Loop(p, t, "scan", "plan", sel[p])
              /\ UNCHANGED <<sel, want, outcome>>
           \/ /\ at[t] # NoInode
              /\ RecordReadable(ns[at[t]])
              /\ seen' = [seen EXCEPT ![p][t] =
                    [AbsentView EXCEPT !.exists = TRUE,
                                       !.cache = RecordedCache(ns[at[t]]),
                                       !.entries = RecordedLinks(ns[at[t]])]]
              /\ Goto(p, "walk")
              /\ UNCHANGED <<sel, want, left, outcome>>
           \/ /\ at[t] # NoInode
              /\ ~RecordReadable(ns[at[t]])
              /\ Leave(p, "unscannable")

WalkTree(p) ==
    /\ pc[p] = "walk"
    /\ UNCHANGED <<disk, litter, phase, handles, txn, budget>>
    /\ \E t \in Targets :
        /\ First(p, t)
        /\ \/ /\ at[t] # NoInode
              /\ LinksSound(seen[p][t].entries, tree[at[t]])
              /\ seen' = [seen EXCEPT ![p][t].unmanaged =
                    Unmanaged(seen[p][t].entries, tree[at[t]])]
              /\ Loop(p, t, "scan", "plan", sel[p])
              /\ UNCHANGED <<sel, want, outcome>>
           \/ /\ at[t] # NoInode => ~LinksSound(seen[p][t].entries, tree[at[t]])
              /\ Leave(p, "unscannable")

(* build_plan, and the early returns of main and apply_plan: a blocked plan *)
(* is refused, so is one that removes links without --yes, and a plan       *)
(* without mutations changes nothing.                                       *)
PlanBlocked(p) == \E t \in sel[p] : Blocked(seen[p][t], want[p][t], CacheRoot[p])

BuildPlan(p) ==
    /\ pc[p] = "plan"
    /\ \/ PlanBlocked(p) /\ Leave(p, "blocked")
       \/ /\ ~PlanBlocked(p)
          /\ \E o \in Ops(p) : Kind(p, o) = "REMOVE"
          /\ Leave(p, "refused")
       \/ ~PlanBlocked(p) /\ Ops(p) = {} /\ Leave(p, "converged")
       \/ ~PlanBlocked(p) /\ Ops(p) # {} /\ Goto(p, "root") /\ UNCHANGED <<plan, left, outcome>>
    /\ UNCHANGED <<disk, litter, phase, handles, txn, budget>>

------------------------------------------------------------------------------
(* _prepare_lock.  _ensure_directory_chain looks at the path, makes the     *)
(* root when it is missing, and remembers the identity it made.             *)
LookAtRoot(p) ==
    /\ pc[p] = "root"
    /\ \E t \in Targets : First(p, t) /\ Goto(p, IF at[t] = NoInode THEN "mkdir" ELSE "open")
    /\ UNCHANGED <<disk, litter, plan, phase, left, handles, txn, outcome, budget>>

MakeRoot(p) ==
    /\ pc[p] = "mkdir"
    /\ UNCHANGED <<tree, ns, litter, plan, phase, fd, locked, flock, txn, budget>>
    /\ \E t \in Targets :
        /\ First(p, t)
        /\ \/ /\ at[t] # NoInode   \* FileExistsError: another run was faster
              /\ Fail(p)
              /\ UNCHANGED <<at, alive, made>>
           \/ /\ at[t] = NoInode
              /\ \E i \in Inodes :
                    /\ Unused(i)
                    /\ at' = [at EXCEPT ![t] = i]
                    /\ alive' = alive \cup {i}
                    /\ made' = [made EXCEPT ![p][t] = i]
              /\ Goto(p, "open")
              /\ UNCHANGED <<left, outcome>>

OpenRoot(p) ==
    /\ pc[p] = "open"
    /\ UNCHANGED <<disk, litter, plan, phase, locked, made, flock, txn, budget>>
    /\ \E t \in Targets :
        /\ First(p, t)
        /\ \/ at[t] = NoInode /\ Fail(p) /\ UNCHANGED fd
           \/ /\ at[t] # NoInode
              /\ fd' = [fd EXCEPT ![p][t] = at[t]]
              /\ Goto(p, "flock")
              /\ UNCHANGED <<left, outcome>>

(* _acquire_fd polls LOCK_EX | LOCK_NB until the deadline.                  *)
SharedLock(i) == TRUE  \* mutant: a lock that excludes nobody
Free(i) == flock[i] = NoApply

LockRoot(p) ==
    /\ pc[p] = "flock"
    /\ \E t \in Targets :
        /\ First(p, t)
        /\ Free(fd[p][t])
        /\ flock' = [flock EXCEPT ![fd[p][t]] = p]
    /\ Goto(p, "ns")
    /\ UNCHANGED <<disk, litter, plan, phase, left, fd, locked, made, txn, outcome, budget>>

LockExpires(p) ==
    /\ pc[p] = "flock"
    /\ LockTimeout
    /\ \E t \in Targets : First(p, t) /\ ~Free(fd[p][t])
    /\ Goto(p, "abandon")
    /\ UNCHANGED <<disk, litter, plan, phase, left, handles, txn, outcome, budget>>

(* Make or open the namespace and take operation.lock inside it, which the  *)
(* holder of the root lock always finds free.  A root removed by its maker  *)
(* while this run waited takes no new entry.                                *)
OpenNamespace(p) ==
    /\ pc[p] = "ns"
    /\ UNCHANGED <<at, alive, tree, litter, plan, phase, left, fd, made, flock, txn, outcome>>
    /\ \E t \in Targets :
        LET i == fd[p][t] IN
        /\ First(p, t)
        /\ \/ /\ i \in alive
              /\ ns' = [ns EXCEPT ![i].exists = TRUE]
              /\ locked' = [locked EXCEPT ![p] = @ \cup {t}]
              /\ Goto(p, "init")
              /\ UNCHANGED budget
           \/ /\ i \notin alive
              /\ Goto(p, "abandon")
              /\ UNCHANGED <<ns, locked, budget>>
           \/ /\ Fault("ns")
              /\ Goto(p, "abandon")
              /\ UNCHANGED <<ns, locked, envs, crashes>>

(* The except branch of _prepare_lock: close the root, which unlocks it,    *)
(* and only then remove the root again if this run made it.                 *)
Abandon(p) ==
    /\ pc[p] = "abandon"
    /\ \E t \in Targets :
        /\ First(p, t)
        /\ flock' = [flock EXCEPT ![fd[p][t]] = IF @ = p THEN NoApply ELSE @]
        /\ fd' = [fd EXCEPT ![p][t] = NoInode]
    /\ Goto(p, "unchain")
    /\ UNCHANGED <<disk, litter, plan, phase, left, locked, made, txn, outcome, budget>>

(* _remove_created_chain: rmdir of an unchanged, empty, created root.       *)
Removable(p, t) ==
    /\ made[p][t] # NoInode
    /\ at[t] = made[p][t]
    /\ \A x \in Paths : Absent(made[p][t], x)

Unchain(p) ==
    /\ pc[p] = "unchain"
    /\ \E t \in Targets :
        /\ First(p, t)
        /\ IF Removable(p, t) /\ ~ns[made[p][t]].exists
           THEN at' = [at EXCEPT ![t] = NoInode] /\ alive' = alive \ {made[p][t]}
           ELSE UNCHANGED <<at, alive>>
        /\ made' = [made EXCEPT ![p][t] = NoInode]
    /\ Fail(p)
    /\ UNCHANGED <<tree, ns, litter, plan, phase, fd, locked, flock, txn, budget>>

(* _initialize_metadata: remember the record, or write an empty one.  A     *)
(* failed atomic write may have replaced the file before it failed.         *)
RecordWithoutCache(p) == [cache |-> NoCache, entries |-> NoLinks]  \* mutant
EmptyRecord(p) == [cache |-> CacheRoot[p], entries |-> NoLinks]

InitMetadata(p) ==
    /\ pc[p] = "init"
    /\ UNCHANGED <<at, alive, tree, litter, plan, handles, bak, journal, parents, errs>>
    /\ \E t \in Targets :
        LET i == fd[p][t]
            NextTarget ==
              /\ IF left[p] # {t} \/ Verified(p)
                 THEN Loop(p, t, "root", "validate", locked[p]) /\ UNCHANGED outcome
                 ELSE Fail(p)
              /\ phase' = [phase EXCEPT ![p] =
                    IF left[p] = {t} /\ Verified(p) THEN "validation" ELSE @]
        IN
        /\ First(p, t)
        /\ \/ /\ ns[i].managed # NoFile
              /\ prev' = [prev EXCEPT ![p][t] = ns[i].managed]
              /\ NextTarget
              /\ UNCHANGED <<ns, fresh, budget>>
           \/ /\ ns[i].managed = NoFile
              /\ ns' = [ns EXCEPT ![i].managed = EmptyRecord(p)]
              /\ fresh' = [fresh EXCEPT ![p][t] = TRUE]
              /\ NextTarget
              /\ UNCHANGED <<prev, budget>>
           \/ /\ ns[i].managed # NoFile
              /\ Fault("initread")
              /\ Fail(p)
              /\ UNCHANGED <<ns, fresh, prev, phase, envs, crashes>>
           \/ /\ ns[i].managed = NoFile
              /\ Fault("initwrite")
              /\ \E m \in {NoFile, EmptyRecord(p)} : ns' = [ns EXCEPT ![i].managed = m]
              /\ Fail(p)
              /\ UNCHANGED <<fresh, prev, phase, envs, crashes>>

------------------------------------------------------------------------------
(* _fresh_fingerprint of one target: the plan must still be current.        *)
RescanOnly(p, t) == Scannable(ns[fd[p][t]], tree[fd[p][t]])  \* mutant: no comparison
StillCurrent(p, t) ==
    LET i == fd[p][t] IN
    /\ Scannable(ns[i], tree[i])
    /\ AsReviewed(Current(i), made[p][t] # NoInode, fresh[p][t]) = seen[p][t]

Validate(p) ==
    /\ pc[p] = "validate"
    /\ UNCHANGED <<disk, litter, plan, handles, txn, budget>>
    /\ \E t \in Targets :
        /\ First(p, t)
        /\ \/ /\ Verified(p) /\ StillCurrent(p, t)
              /\ Loop(p, t, "validate", "stage", {})
              /\ phase' = [phase EXCEPT ![p] = IF left[p] = {t} THEN "staging" ELSE @]
              /\ UNCHANGED outcome
           \/ /\ ~(Verified(p) /\ StillCurrent(p, t))
              /\ Fail(p)
              /\ UNCHANGED phase

(* _make_transaction and _stage: check and hash every desired source, build *)
(* the links in private directories of the namespace.  A _make_transaction  *)
(* that fails behind a mkdir in `backup' or of `staging' ("transaction")    *)
(* leaves that directory there without a transaction that knows of it.      *)
Stage(p) ==
    /\ pc[p] = "stage"
    /\ \/ /\ Verified(p)
          /\ Goto(p, "promote")
          /\ phase' = [phase EXCEPT ![p] = "promotion"]
          /\ UNCHANGED <<litter, left, outcome, faults>>
       \/ ~Verified(p) /\ Fail(p) /\ UNCHANGED <<litter, phase, faults>>
       \/ Fault("stage") /\ Fail(p) /\ UNCHANGED <<litter, phase>>
       \/ /\ Fault("transaction")
          /\ \E t \in locked[p] : litter' = litter \cup {fd[p][t]}
          /\ Fail(p)
          /\ UNCHANGED phase
    /\ UNCHANGED <<disk, plan, handles, txn, envs, crashes>>

(* The roots in which a run past validation still has transaction trees:    *)
(* those it has not dropped, settled or discarded, or not after an error of *)
(* its rollback.                                                            *)
Past(p) == phase[p] \notin {"locking", "validation"}
Unswept(p) == {fd[p][t] : t \in {u \in locked[p] :
    /\ Past(p) /\ pc[p] # "release"
    /\ pc[p] \in {"drop", "settle", "report"} => u \in left[p]
    /\ pc[p] \in {"prune", "report"} => errs[p]}}

(* _promote, first part: make missing parents, then check the destination.  *)
(* _open_parent_at notes a directory it made in created_parents when it has *)
(* opened it: a failed mkdir ("mkdir") leaves the ones above it, a failed   *)
(* open ("openparent") also one that is not noted.                          *)
Parents(p, o) == {y \in Above[o[2]] : Absent(fd[p][o[1]], y)}
MakesParents(p, o, dirs, noted) ==
    LET i == fd[p][o[1]] IN
    /\ tree' = [tree EXCEPT ![i] = [x \in Paths |->
          IF x \in dirs THEN [kind |-> "dir", to |-> NoSource, by |-> p] ELSE @[x]]]
    /\ parents' = [parents EXCEPT ![p] = @ \cup {<<o[1], y>> : y \in noted}]
MakesSomeParents(p, o) ==
    \E y \in Above[o[2]] :
        LET above == Parents(p, o) \cap Above[y] IN
        \/ Fault("mkdir") /\ MakesParents(p, o, above, above)
        \/ /\ y \in Parents(p, o)
           /\ Fault("openparent")
           /\ MakesParents(p, o, above \cup {y}, above)
WayFree(p, o) == \A y \in Above[o[2]] : tree[fd[p][o[1]]][y].kind \in {"dir", "absent"}

(* CREATE wants a free name, the others the link the plan was built on.     *)
AsPlanned(p, o) ==
    LET node == tree[fd[p][o[1]]][o[2]] IN
    IF Kind(p, o) = "CREATE" THEN node.kind = "absent"
    ELSE node.kind = "link" /\ node.to = seen[p][o[1]].entries[o[2]]

Promote(p) ==
    /\ pc[p] = "promote"
    /\ UNCHANGED <<at, alive, ns, litter, plan, phase, handles, fresh, prev, bak, journal, errs,
                   envs, crashes>>
    /\ \E o \in Ops(p) :
        /\ NextOp(p, o)
        /\ \/ ~WayFree(p, o) /\ Fail(p) /\ UNCHANGED <<tree, parents, faults>>
           \/ WayFree(p, o) /\ MakesSomeParents(p, o) /\ Fail(p)
           \/ /\ WayFree(p, o)
              /\ MakesParents(p, o, Parents(p, o), Parents(p, o))
              /\ UNCHANGED faults
              /\ \/ ~AsPlanned(p, o) /\ Fail(p)
                 \/ /\ AsPlanned(p, o)
                    /\ Goto(p, IF Kind(p, o) = "CREATE" THEN "install" ELSE "move")
                    /\ UNCHANGED <<left, outcome>>

(* After a journal entry: checkpoint, _verify_all, the next operation.      *)
Journaled(p, o) ==
    /\ journal' = [journal EXCEPT ![p] = @ \cup {o}]
    /\ \/ /\ Verified(p)
          /\ Goto(p, IF Todo(p) = {o} THEN "clean" ELSE "promote")
          /\ phase' = [phase EXCEPT ![p] = IF Todo(p) = {o} THEN "cleanup" ELSE @]
          /\ UNCHANGED <<left, outcome, faults>>
       \/ ~Verified(p) /\ Fail(p) /\ UNCHANGED <<phase, faults>>
       \/ Fault("checkpoint") /\ Fail(p) /\ UNCHANGED phase

(* os.replace moves whatever the name holds now into the backup tree.       *)
PutAside(p, o) ==
    /\ ~Absent(fd[p][o[1]], o[2])
    /\ bak' = [bak EXCEPT ![p][o[1]][o[2]] = tree[fd[p][o[1]]][o[2]]]
    /\ tree' = [tree EXCEPT ![fd[p][o[1]]][o[2]] = Hole]
    /\ \/ Kind(p, o) = "REMOVE" /\ Journaled(p, o)
       \/ /\ Kind(p, o) = "REPLACE"
          /\ Goto(p, "install")
          /\ UNCHANGED <<phase, left, outcome, journal, faults>>

MoveAside(p) ==
    /\ pc[p] = "move"
    /\ \E o \in Ops(p) :
        /\ NextOp(p, o)
        /\ \/ PutAside(p, o)
           \/ /\ IF Absent(fd[p][o[1]], o[2]) THEN UNCHANGED faults ELSE Fault("move")
              /\ Fail(p)
              /\ UNCHANGED <<tree, bak, journal, phase>>
    /\ UNCHANGED <<at, alive, ns, litter, plan, handles, fresh, prev, parents, errs, envs, crashes>>

(* The staged link is renamed over the final name, a directory excepted.    *)
(* Only an entry that _promote returns is journaled: not when os.stat of    *)
(* the installed link fails ("stat").                                       *)
StagedLink(p, o) == [kind |-> "link", to |-> want[p][o[1]][o[2]], by |-> p]

PutLink(p, o) ==
    /\ ~IsDir(fd[p][o[1]], o[2])
    /\ tree' = [tree EXCEPT ![fd[p][o[1]]][o[2]] = StagedLink(p, o)]
    /\ UNCHANGED bak
    /\ \/ Journaled(p, o)
       \/ Fault("stat") /\ Fail(p) /\ UNCHANGED <<journal, phase>>

(* The rename fails ("install"), and the backup goes back if the name is    *)
(* free; or the staged link cannot be read before it ("readlink").          *)
PutBack(p, o) ==
    LET i == fd[p][o[1]] node == bak[p][o[1]][o[2]] IN
    IF node.kind # "absent" /\ Absent(i, o[2])
    THEN /\ tree' = [tree EXCEPT ![i][o[2]] = node]
         /\ bak' = [bak EXCEPT ![p][o[1]][o[2]] = Hole]
    ELSE UNCHANGED <<tree, bak>>

PutNoLink(p, o) ==
    /\ \/ /\ IF IsDir(fd[p][o[1]], o[2]) THEN UNCHANGED faults ELSE Fault("install")
          /\ PutBack(p, o)
       \/ Fault("readlink") /\ UNCHANGED <<tree, bak>>
    /\ Fail(p)
    /\ UNCHANGED <<journal, phase>>

Install(p) ==
    /\ pc[p] = "install"
    /\ \E o \in Ops(p) : NextOp(p, o) /\ (PutLink(p, o) \/ PutNoLink(p, o))
    /\ UNCHANGED <<at, alive, ns, litter, plan, handles, fresh, prev, parents, errs, envs, crashes>>

------------------------------------------------------------------------------
(* Remove the staging trees, then write one record per target; behind the   *)
(* last record the transaction is committed.                                *)
CleanStaging(p) ==
    /\ pc[p] = "clean"
    /\ \/ /\ Verified(p)
          /\ Goto(p, "publish")
          /\ left' = [left EXCEPT ![p] = locked[p]]
          /\ phase' = [phase EXCEPT ![p] = "publication"]
          /\ UNCHANGED <<outcome, faults>>
       \/ ~Verified(p) /\ Fail(p) /\ UNCHANGED <<phase, faults>>
       \/ Fault("clean") /\ Fail(p) /\ UNCHANGED phase
    /\ UNCHANGED <<disk, litter, plan, handles, txn, envs, crashes>>

OldLinksPublished(p, t) == [cache |-> CacheRoot[p], entries |-> seen[p][t].entries]  \* mutant
Published(p, t) == [cache |-> CacheRoot[p], entries |-> want[p][t]]

Publish(p) ==
    /\ pc[p] = "publish"
    /\ UNCHANGED <<at, alive, tree, litter, plan, handles, txn, envs, crashes>>
    /\ \E t \in Targets :
        LET i == fd[p][t] IN
        /\ First(p, t)
        /\ \/ /\ ns' = [ns EXCEPT ![i].managed = Published(p, t)]
              /\ \/ /\ Verified(p)
                    /\ Loop(p, t, "publish", "drop", locked[p])
                    /\ phase' = [phase EXCEPT ![p] = IF left[p] = {t} THEN "committed" ELSE @]
                    /\ UNCHANGED <<outcome, faults>>
                 \/ ~Verified(p) /\ Fail(p) /\ UNCHANGED <<phase, faults>>
                 \/ Fault("checkpoint") /\ Fail(p) /\ UNCHANGED phase
           \/ /\ Fault("publish")
              /\ Fail(p)
              /\ UNCHANGED <<ns, phase>>

(* Post-commit cleanup never rolls back: an error drops what it can, leaves *)
(* a failure receipt in roots that existed before, and reports a commit.    *)
DropBackup(p) ==
    /\ pc[p] = "drop"
    /\ UNCHANGED <<disk, litter, plan, phase, handles, fresh, prev, journal, parents, errs,
                   envs, crashes>>
    /\ \E t \in Targets :
        /\ First(p, t)
        /\ \/ /\ bak' = [bak EXCEPT ![p][t] = EmptyTree]
              /\ Loop(p, t, "drop", "release", locked[p])
              /\ outcome' = [outcome EXCEPT ![p] = IF left[p] = {t} THEN "ok" ELSE @]
              /\ UNCHANGED faults
           \/ Fault("drop") /\ Fail(p) /\ UNCHANGED bak

Settle(p) ==
    /\ pc[p] = "settle"
    /\ UNCHANGED <<at, alive, tree, litter, plan, phase, handles, fresh, prev, journal, parents,
                   errs, outcome, envs, crashes>>
    /\ \E t \in Targets :
        /\ First(p, t)
        /\ bak' = [bak EXCEPT ![p][t] = EmptyTree]
        /\ \/ /\ made[p][t] = NoInode
              /\ ns' = [ns EXCEPT ![fd[p][t]].failure = TRUE]
              /\ UNCHANGED faults
           \/ made[p][t] # NoInode /\ UNCHANGED <<ns, faults>>
           \/ made[p][t] = NoInode /\ Fault("receipt") /\ UNCHANGED ns
        /\ Loop(p, t, "settle", "release", locked[p])

------------------------------------------------------------------------------
(* Rollback, _rollback_entry: undo the newest journal entry.  An installed  *)
(* link is removed only when it is still the very link that was promoted;   *)
(* anything else at its name is left alone and reported.                    *)
SameTarget(p, o, node) == \* mutant: the link is compared by target only
    node.kind = "link" /\ node.to = want[p][o[1]][o[2]]
OwnLink(p, o, node) ==
    node.kind = "link" /\ node.by = p /\ node.to = want[p][o[1]][o[2]]

Undo(p) ==
    /\ pc[p] = "undo"
    /\ UNCHANGED <<at, alive, ns, litter, plan, phase, left, handles, fresh, prev, bak, parents,
                   outcome, envs, crashes>>
    /\ \/ /\ journal[p] = {}
          /\ Goto(p, IF locked[p] = {} THEN "release" ELSE "restore")
          /\ UNCHANGED <<tree, journal, errs, faults>>
       \/ \E o \in journal[p] :
          LET i == fd[p][o[1]]
              node == tree[i][o[2]]
              installed == Kind(p, o) # "REMOVE" /\ node.kind # "absent"
              undoable == /\ \A y \in Above[o[2]] : IsDir(i, y)
                          /\ installed => OwnLink(p, o, node)
          IN
          /\ LastOp(p, o)
          /\ \/ /\ undoable
                /\ tree' = [tree EXCEPT ![i][o[2]] = IF installed THEN Hole ELSE @]
                /\ Goto(p, "putback")
                /\ UNCHANGED <<journal, errs, faults>>
             \/ /\ IF undoable THEN Fault("undo") ELSE UNCHANGED faults
                /\ journal' = [journal EXCEPT ![p] = @ \ {o}]
                /\ errs' = [errs EXCEPT ![p] = TRUE]
                /\ UNCHANGED <<tree, pc>>

(* The backup goes back to its name unless something else sits there.       *)
PutBackup(p) ==
    /\ pc[p] = "putback"
    /\ UNCHANGED <<at, alive, ns, litter, plan, phase, left, handles, fresh, prev, parents,
                   outcome, envs, crashes>>
    /\ Goto(p, "undo")
    /\ \E o \in journal[p] :
        LET saved == bak[p][o[1]][o[2]].kind # "absent"
            occupied == ~Absent(fd[p][o[1]], o[2])
        IN
        /\ LastOp(p, o)
        /\ journal' = [journal EXCEPT ![p] = @ \ {o}]
        /\ \/ ~(saved /\ occupied) /\ PutBack(p, o) /\ UNCHANGED <<errs, faults>>
           \/ /\ saved
              /\ IF occupied THEN UNCHANGED faults ELSE Fault("putback")
              /\ errs' = [errs EXCEPT ![p] = TRUE]
              /\ UNCHANGED <<tree, bak>>

(* _restore_metadata: the remembered record, or none.                       *)
RecordUnlinked(p, t) == NoFile  \* mutant: previous_managed ignored
InitialRecordKept(p, t) == \* mutant: the initial empty record is not removed
    IF prev[p][t] = NoFile THEN EmptyRecord(p) ELSE prev[p][t]
OldRecord(p, t) == prev[p][t]

RestoreMetadata(p) ==
    /\ pc[p] = "restore"
    /\ UNCHANGED <<at, alive, tree, litter, plan, phase, handles, fresh, prev, bak, journal,
                   parents, outcome, envs, crashes>>
    /\ \E t \in Targets :
        /\ First(p, t)
        /\ \/ /\ ns' = [ns EXCEPT ![fd[p][t]].managed = OldRecord(p, t)]
              /\ UNCHANGED <<errs, faults>>
           \/ /\ Fault("restore")
              /\ errs' = [errs EXCEPT ![p] = TRUE]
              /\ UNCHANGED ns
        /\ Loop(p, t, "restore", "discard", locked[p])

(* Transaction trees go; a backup stays once any rollback step has failed.  *)
AlwaysDropped(p) == TRUE  \* mutant: rollback errors do not keep the backup
BackupsDropped(p) == ~errs[p]

Discard(p) ==
    /\ pc[p] = "discard"
    /\ UNCHANGED <<disk, litter, plan, phase, handles, fresh, prev, journal, parents,
                   outcome, envs, crashes>>
    /\ \E t \in Targets :
        /\ First(p, t)
        /\ \/ /\ bak' = IF BackupsDropped(p) THEN [bak EXCEPT ![p][t] = EmptyTree] ELSE bak
              /\ UNCHANGED <<errs, faults>>
           \/ /\ Fault("discard")
              /\ errs' = [errs EXCEPT ![p] = TRUE]
              /\ UNCHANGED bak
        /\ Loop(p, t, "discard", "prune", locked[p])

(* _remove_created_parents, newest first: a created directory goes unless   *)
(* something that is not itself a created directory is left below it.       *)
CreatedDir(p, t, x) == <<t, x>> \in parents[p] /\ IsDir(fd[p][t], x)
Prunable(p, t, x) ==
    /\ CreatedDir(p, t, x)
    /\ \A y \in Paths : x \in Above[y] => Absent(fd[p][t], y) \/ CreatedDir(p, t, y)

Prune(p) ==
    /\ pc[p] = "prune"
    /\ tree' = [i \in Inodes |-> [x \in Paths |->
          IF \E t \in locked[p] : fd[p][t] = i /\ Prunable(p, t, x) THEN Hole
          ELSE tree[i][x]]]
    /\ errs' = [errs EXCEPT ![p] = @ \/ \E e \in parents[p] :
          ~Prunable(p, e[1], e[2]) /\ ~Absent(fd[p][e[1]], e[2])]
    /\ Goto(p, "report")
    /\ UNCHANGED <<at, alive, ns, litter, plan, phase, left, handles, fresh, prev, bak, journal,
                   parents, outcome, budget>>

(* A root that existed gets a failure receipt; a root this run created is   *)
(* emptied of manager files and removed again (_cleanup_initially_absent),  *)
(* unless directories of another transaction, or of one that was never      *)
(* completed, are left in its namespace.                                    *)
Emptied(i) == IF i \in litter THEN [NoNamespace EXCEPT !.exists = TRUE] ELSE NoNamespace
Vanishes(p, t) == Removable(p, t) /\ fd[p][t] \notin litter

Report(p) ==
    /\ pc[p] = "report"
    /\ UNCHANGED <<tree, plan, phase, handles, fresh, prev, journal, parents, outcome,
                   envs, crashes>>
    /\ \E t \in Targets :
        LET i == fd[p][t] IN
        /\ First(p, t)
        /\ \/ /\ made[p][t] = NoInode
              /\ ns' = [ns EXCEPT ![i].failure = TRUE]
              /\ litter' = litter \cup (Unswept(p) \cap {i})
              /\ UNCHANGED <<at, alive, bak, errs, faults>>
           \/ /\ made[p][t] # NoInode
              /\ ns' = [ns EXCEPT ![i] = Emptied(i)]
              /\ bak' = [bak EXCEPT ![p][t] = EmptyTree]
              /\ IF Vanishes(p, t)
                 THEN at' = [at EXCEPT ![t] = NoInode] /\ alive' = alive \ {i}
                 ELSE UNCHANGED <<at, alive>>
              /\ errs' = [errs EXCEPT ![p] = @ \/ ~Vanishes(p, t)]
              /\ UNCHANGED <<litter, faults>>
           \/ /\ Fault("receipt")
              /\ litter' = litter \cup (Unswept(p) \cap {i})
              /\ ns' = IF made[p][t] = NoInode THEN ns
                       ELSE [ns EXCEPT ![i].managed = NoFile]
              /\ errs' = [errs EXCEPT ![p] = TRUE]
              /\ UNCHANGED <<at, alive, bak>>
        /\ Loop(p, t, "report", "release", locked[p])

(* finally: close the locked targets in reverse order, which unlocks them.  *)
Release(p) ==
    /\ pc[p] = "release"
    /\ UNCHANGED <<disk, litter, bak, budget>>
    /\ \/ \E t \in Targets :
            /\ Last(p, t)
            /\ flock' = [flock EXCEPT ![fd[p][t]] = NoApply]
            /\ fd' = [fd EXCEPT ![p][t] = NoInode]
            /\ made' = [made EXCEPT ![p][t] = NoInode]
            /\ locked' = [locked EXCEPT ![p] = @ \ {t}]
            /\ left' = [left EXCEPT ![p] = @ \ {t}]
            /\ UNCHANGED <<pc, phase, plan, fresh, prev, journal, parents, errs, outcome>>
       \/ /\ left[p] = {}
          /\ Goto(p, "done")
          /\ Forget(p)
          /\ Reset(p)
          /\ UNCHANGED <<handles, outcome>>

------------------------------------------------------------------------------
(* SIGKILL, or a KeyboardInterrupt that `except Exception' does not catch:  *)
(* the kernel closes the descriptors, the disk stays as it is, with the     *)
(* transaction trees that the run had there.                                *)
Crash(p) ==
    /\ pc[p] \notin {"idle", "done"}
    /\ crashes < MaxCrashes
    /\ crashes' = crashes + 1
    /\ litter' = litter \cup Unswept(p)
    /\ flock' = [i \in Inodes |-> IF flock[i] = p THEN NoApply ELSE flock[i]]
    /\ fd' = [fd EXCEPT ![p] = [t \in Targets |-> NoInode]]
    /\ made' = [made EXCEPT ![p] = [t \in Targets |-> NoInode]]
    /\ locked' = [locked EXCEPT ![p] = {}]
    /\ Goto(p, "done")
    /\ outcome' = [outcome EXCEPT ![p] = "crashed"]
    /\ Forget(p)
    /\ Reset(p)
    /\ UNCHANGED <<disk, bak, faults, envs>>

------------------------------------------------------------------------------
(* Users of the agent work in a target beside the manager.                  *)
Racing(t, x) == \E p \in Applies : /\ pc[p] \in {"move", "install"}
                                   /\ fd[p][t] = at[t]
                                   /\ <<t, x>> \in Ops(p) /\ NextOp(p, <<t, x>>)
User(t, x) == IF Racing(t, x) THEN "racer" ELSE "env"

UserWrites(t, x) ==
    /\ at[t] # NoInode
    /\ Absent(at[t], x) /\ \A y \in Above[x] : IsDir(at[t], y)
    /\ \E k \in {"file", "dir"} :
          tree' = [tree EXCEPT ![at[t]][x] = [kind |-> k, to |-> NoSource, by |-> User(t, x)]]
    /\ UNCHANGED <<at, alive>>

UserRelinks(t, x) ==
    /\ at[t] # NoInode
    /\ tree[at[t]][x].kind = "link"
    /\ \E s \in Sources :
          tree' = [tree EXCEPT ![at[t]][x] = [kind |-> "link", to |-> s, by |-> User(t, x)]]
    /\ UNCHANGED <<at, alive>>

UserUnlinks(t, x) ==
    /\ at[t] # NoInode
    /\ tree[at[t]][x].kind \in {"link", "file"}
    /\ tree' = [tree EXCEPT ![at[t]][x] = Hole]
    /\ UNCHANGED <<at, alive>>

(* The root is renamed away and an empty directory made in its place.       *)
UserReplacesRoot(t) ==
    /\ at[t] # NoInode
    /\ \E i \in Inodes :
          /\ Unused(i)
          /\ at' = [at EXCEPT ![t] = i]
          /\ alive' = alive \cup {i}
    /\ UNCHANGED tree

UserStep ==
    /\ envs < MaxEnv
    /\ envs' = envs + 1
    /\ \E t \in Targets :
          \/ UserReplacesRoot(t)
          \/ \E x \in Paths : UserWrites(t, x) \/ UserRelinks(t, x) \/ UserUnlinks(t, x)
    /\ UNCHANGED <<ns, litter, plan, control, handles, txn, outcome, faults, crashes>>

------------------------------------------------------------------------------
Step(p) ==
    \/ ReadRecord(p) \/ WalkTree(p) \/ BuildPlan(p)
    \/ LookAtRoot(p) \/ MakeRoot(p) \/ OpenRoot(p)
    \/ LockRoot(p) \/ LockExpires(p) \/ OpenNamespace(p) \/ Abandon(p) \/ Unchain(p)
    \/ InitMetadata(p) \/ Validate(p) \/ Stage(p)
    \/ Promote(p) \/ MoveAside(p) \/ Install(p)
    \/ CleanStaging(p) \/ Publish(p) \/ DropBackup(p) \/ Settle(p)
    \/ Undo(p) \/ PutBackup(p) \/ RestoreMetadata(p) \/ Discard(p) \/ Prune(p)
    \/ Report(p) \/ Release(p)

Finished == (\A p \in Applies : pc[p] = "done") /\ UNCHANGED vars

Next ==
    \/ \E p \in Applies : Begin(p) \/ Step(p) \/ Crash(p)
    \/ UserStep
    \/ Finished

Spec == Init /\ [][Next]_vars

(* A run is one sequential process: it always takes its next step, and its  *)
(* polling of a lock that stays free succeeds.  Nothing obliges a run to    *)
(* begin, to fail, to be killed, or to give up on a lock: progress does not *)
(* rest on the deadline of the lock.                                        *)
FairSpec == Spec /\ \A p \in Applies : WF_vars(Step(p) /\ ~LockExpires(p))
=============================================================================
