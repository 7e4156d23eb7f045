# Verification of skill-delegator

TLA+ models of `skillctl` (the Python package `src/src/skill_delegator`), the
TLC runs that check them on small instances, and theorems about them that the
TLAPS proof system checks for every instance.

## 1. The system

`skillctl` keeps the agent skills of several *targets* (directories an agent
reads) as symlinks into a content-addressed *cache* of *sources* (git
repositories and directories), as a reviewed configuration and a lock file say.
It has no daemon and no database: every command is a process of its own, and
all coordination between commands goes through the file system.

| Component | State it keeps | Operations | Properties that make it correct |
|---|---|---|---|
| `reconciler` (`apply_plan`) | links and directories of each target, the record `.skill-delegator/managed.json`, `flock` on each root, backup and staging trees, journals | prepare and lock roots, validate, stage, promote links, publish records, drop backups; rollback; clean-up | runs exclude each other; the plan is current when it is carried out; all or nothing on errors; nothing of a user is destroyed; commit means converged; no deadlock |
| `planner` (`build_plan`) | none | desired links and scanned views to CREATE / REPLACE / REMOVE / KEEP / PRESERVE or a block | blocks on everything it does not own |
| `managed_state` (`scan_target`) | none | read the record, then walk the tree | refuses records and trees that disagree |
| `source_store` | `var/cache/sources/<source>/<hash>/<revision>` | resolve a source, publish its snapshot by a rename | an entry is the tree its name says |
| `updater` | none | check a source, prepare a proposal | what is locked is what was reviewed |
| `lockfile` | `skill-lock.yaml` | build a lock, publish it by a rename | complete; no update lost; truthful outcome |
| `config`, `config_snapshot` | none (captures of the configuration files) | read several files, read them again | one consistent configuration |
| `verifier` | none | verify sources and targets, bind the evidence | agrees with `apply` about the links of a target; evidence belongs to one configuration and commit |
| `receipts` | `var/receipts/<sha256>.json` | publish a receipt by a link, take it back on errors | never overwritten; only the maker takes it back |
| `resolver` | none | grants, pool and lock to desired links | no collisions, no missing skills, links into the locked snapshots |
| `descriptor_tree`, `source_ignore` | none | walk a directory under its ignore rules, to hash or to copy it | a snapshot shows the source, although people edit it meanwhile |
| `inventory`, `safe_paths` | none | discover skills, open paths without following links | confinement |
| `cli`, `models`, `schema_validation`, `identifiers`, `errors` | none | commands; records; validation | |

How they interact: `lock` and `update` go from sources through the cache to the
lock file. `apply` reads the configuration and the lock, scans the targets,
plans, and reconciles. `verify` reads all of it and writes a receipt. The lock
file, the cache, the targets and the receipts are shared by every command that
happens to run, and by people with an editor and git.

What is hard here:

- **Interleaving.** Only target roots are locked. Scans, plans, `lock`,
  `update` and `verify` run without locks and rely on comparing again later.
- **Roots that do not exist yet.** A run creates the directory before it can
  lock it; others can see, lock and use it in between, or remove it.
- **Partial failure.** `apply` changes several targets in dozens of system
  calls, each of which may fail, and so may each step of the rollback.
- **Kills.** Nothing is recovered at the next start; what a killed command
  leaves behind is what the next one scans.
- **Checks and uses.** A file is compared by name and identity, and then
  renamed over; a source is hashed, and then copied; a configuration of several
  files is read one file at a time.

`PROJECT.json` lists each hazard at its line, with the properties for it.

## 2. The modules

| Module | Models or proves |
|---|---|
| `Planner` | `scan_target` and `build_plan` for one target, as operators on views |
| `TargetVerifier` | `verify_state`'s judgement of one target, as operators on the same views |
| `Reconciler` | `apply_plan` and the `apply` command around it, for any number of runs |
| `ReconcilerProperties` | what `apply` promises |
| `RecordLedger` | abstract specification: multi-target compare-and-swap on manager records |
| `ReconcilerRefinement` | the mapping from `Reconciler` to `RecordLedger` |
| `ReconcilerInvariant`, `ReconcilerRecords`, `ReconcilerTrees`, `ReconcilerRecovery` | the inductive invariants of `Reconciler`: locks, records, trees and backups, and what runs leave behind |
| `ReconcilerProofs`, `RefinementProofs`, `CommitProofs`, `RollbackProofs`, `RecoveryProofs` | their proofs, each built on the one before |
| `LockPipeline`, `LockProperties`, `LockProofs` | `lock` and `update`: sources, cache, lock file |
| `Verification`, `VerificationProperties`, `VerificationProofs` | `verify`: configuration capture, evidence, receipts |
| `SourceTree`, `SourceProperties` | the two walks that make a snapshot of a directory which is edited meanwhile |
| `Deployment`, `DeploymentProperties` | composition: source directory, lock, policy, applies that promote their links one by one |
| `DeploymentProofs` | the proofs about `SourceTree`, and on top of them those about `Deployment` |
| `MCReconciler`, `MCLock`, `MCVerification`, `MCDeployment` | the instances for TLC |

How they compose: `Planner` is part of `Reconciler` and of `TargetVerifier`.
`Reconciler` implements `RecordLedger`. `Deployment` extends `SourceTree`, has a
coarser `apply_plan` of its own in which targets are locked and validated in one
step and links and records are written one by one, and takes the configuration
that an apply loads to be from one moment, which is what `Verification` shows of
`load_config`.
`LockPipeline` treats one resolution of a source as a few steps with a revision
as the outcome; `SourceTree` is what happens inside of them.

### Reconciler

A directory is an inode, an element of `Inodes`; `at[t]` is the inode that the
root path of target `t` names at the moment, and `fd[p][t]` the one run `p` has
open. Removing and remaking a directory gives a new inode, which is what the
identity checks of the code compare. `tree[i]` holds the entries below an inode
(`Paths`: a source directory, an artifact, and an artifact nested below it),
`ns[i]` its `.skill-delegator` namespace with the record, `flock[i]` the lock.
Every entry remembers who made it (`by`), in place of the inode of a link.

`pc` follows `apply_plan`:

| Actions | Code |
|---|---|
| `Begin`, `ReadRecord`, `WalkTree`, `BuildPlan` | `cli.main` 414-445, `scan_target` (record first, tree afterwards), `build_plan` |
| `LookAtRoot`, `MakeRoot`, `OpenRoot`, `LockRoot`, `LockExpires`, `OpenNamespace` | `_ensure_directory_chain`, `_prepare_lock`, `_acquire_fd` |
| `Abandon`, `Unchain` | `_close_locked` and `_remove_created_chain` on the error paths of `_prepare_lock` |
| `InitMetadata`, `Validate` | `_initialize_metadata`, `_fresh_fingerprint` |
| `Stage`, `Promote`, `MoveAside`, `Install`, `CleanStaging` | `_stage`, `_promote` (old entry to the backup tree, then the staged link in its place, then the journal), staging removal |
| `Publish`, `DropBackup` | `_atomic_write_at` of each record, which commits with the last one; removal of backups |
| `Settle`, `Undo`, `PutBackup`, `RestoreMetadata`, `Discard`, `Prune`, `Report` | the `except` branch: `_rollback_entry`, `_restore_metadata`, `_remove_transaction_tree`, `_remove_created_parents`, `_cleanup_initially_absent` |
| `Release` | the `finally` branch |
| `Crash` | SIGKILL, or a KeyboardInterrupt that `except Exception` does not catch |
| `UserStep` | people and agents writing, relinking, unlinking, replacing a root |

Whatever a process does between two accesses to shared state is one action.
Errors strike where `FaultPoints` names a system call or a checkpoint of the
tests, at most `MaxFaults` times. Most points are system calls after which the
code knows what it did. At three it does not: between a directory that
`_open_parent_at` has made and its note (`openparent`), between the directories
that `_make_transaction` makes and `locked.transaction` (`transaction`), and
between a backup and its journal entry (`readlink`, `stat`). Directories that
nobody removes any more, of such a transaction or of a killed run, are `litter`:
they matter where a run wants to remove the namespace and the root it made
(`Vanishes`). A user whose write falls between a check and
the rename behind it is a `racer`: `docs/threat-model.md` excludes processes
outside the lock protocol, and `NothingDestroyed` exempts just those entries.

### Planner and TargetVerifier

A view is what a scan returns: the record's cache and entries, and the kind of
node at every path. `Blocked` collects the reasons for which `build_plan` refuses,
`Kind` the action it takes for an artifact. `TargetVerifier` compares the same
view with the same desired links in the way `verify_state` does, which shares no
code with the planner, and adds what only the verifier reads: the contents of
every desired skill (`skill`) and of the snapshot around it (`snapshot`). Each is
as locked, altered, or malformed, that is, cannot be hashed and inspected; the
planner's `_source_is_safe` looks at the directory only and notices neither. So
the two do disagree: a malformed skill is `source-state-invalid` for `verify`,
while `plan` shows nothing to do and an apply refuses it only when it stages.
`VerdictAgrees` says that they disagree in this way only, and is evaluated on
every reachable target, for every configuration of the instance and every
condition of the skills and snapshots it links.

### LockPipeline

A revision stands for a tree; a cache entry `cache[s][r]` holds the tree of some
revision, nothing (`none`, or `deleted` by a user), or something damaged. Each
command walks `check` (`check_updates`), `observe` (the second clone or hash),
`probe`, `copy`, `rename`, `recheck` (`_cache_snapshot`), `bind` (`build_lock`,
`_prepare_update`) for each of its sources, and then `read`, `verify`,
`replace`, `sync` (`write_lock_atomic`). A lock is the file together with its
bytes, so it carries the command that made it.

`Complete` says which revisions have every skill of the pool, `Clashes` which
revisions of two sources must not be combined, because a target would get two
skills of one name. An update resolves the old lock and then its candidate
(`prepare_update`); a `lock` does not. So a `lock` may publish one that clashes,
and from then on every update refuses until the source is moved and locked
again: `UpdateResolves` speaks of updates only.

### Verification

A version of a configuration file is its bytes and its inode. A verification
reads the files in order and then in five or six more passes compares them: at
the end of `load_config`, at both ends of `bind_verification_evidence`, in
`main`, and, only to decide whether a commit is named, around the questions to
git. Fixed files must be there; delegation files come and go, and the passes
compare the listing of their directory with the one at the start. `write_receipt`
is `Lookup`, `Link`, `Sync`, `Rollback`. Each write is assumed to make a new
version; a file that gets its old bytes *and* its old inode back within one
verification is outside of the model, and the code could not tell either. The
history variable `steady` changes nothing that the program reads.

### SourceTree

A directory source is walked, file by file, for its hash, and walked again for
the copy, while anybody may write, add or remove files. One action is one listing
(`ListRoot`, `VisitDirectory`), one read of the ignore file for its rules
(`ReadRules`), one entry (`VisitFile`: a file is read in one step, because the
code compares its metadata before and behind the read), or the second listing
(`LeaveDirectory`, `EndWalk`). `ProbeCache` and `PublishSnapshot` are
`_cache_snapshot`. The walk of the staged tree that hashes it again is not a step
of its own: the tree is private, and `CopyMatches` says that its hash must be the
revision of the first walk. For the same reason `reject_ignored` on the staged
tree adds nothing: it applies the rules of the copied ignore file to a tree that
equals the hashed one.

The root holds files and directories of files; only the root has an ignore file.
Below, the code does the same thing once more per level. What the code can rely
on is that a file does not get bytes back that it had before (`past`): a walk
compares bytes and metadata of two moments, and no program that does so can see a
change that was undone in between.

### Deployment

A `lock` command resolves the source with the steps of `SourceTree`, checks it
(`Lockable`) and publishes the revision. An `apply` loads policy and lock
(`LoadApply`), resolves them into links (`Resolves`, `LinksOf`), plans for all
targets or one of them (`PlanApply`), and locks and validates them (`StartApply`).
Then it promotes its links one at a time (`PromoteLink`), writes its records one
at a time (`WriteRecord`) and commits with the last one (`CommitApply`). It may
fail before that (`FailApply`) and then takes links and records back one at a
time (`UndoLink`, `RestoreRecord`, `AbortApply`), or be killed at any of these
steps (`KillApply`), which leaves the target `torn`; a later apply refuses it
while its links and its record disagree. All the while source, policy and lock go
on changing, and other runs apply to other targets. The order of promotion is
left open, which allows more than the code does. A *skill* is a directory with a
manifest; its runtime name is read from the manifest in the *snapshot*.

## 3. The runs

Every run is exhaustive for its instance. Symmetry is used for safety only, over
sets whose elements no constant or definition outside `Init` tells apart.

| Run | Question | Bounds |
|---|---|---|
| `apply_race` | do two runs over the same two targets exclude each other, get past each other's locks, keep their plans current, commit and converge? | 2 runs, 2 targets, 3 inodes, roots that exist or not; replace, nest and remove a link; no errors |
| `apply_faults` | does one run restore everything after an error, and keep backups and records when the rollback fails, too? | 1 run, 2 targets, 2 errors over 16 points, those of section 5 left out |
| `apply_users` | do two authorities on one target, beside a user, an error and a kill, ever destroy or take over what is not theirs, and do `verify` and `apply` judge the links that are left alike? | 2 runs, 1 target, 1 error over 5 points (those of section 5 among them), 1 user step, 1 kill |
| `apply_refines` | is `apply`, on the records, an atomic compare-and-swap over several targets, and does every run end? | 2 fair runs, 2 targets, 1 error, a deadline for locks |
| `lock_updates` | cache and lock file under racing `lock` and `update` commands | 2 commands, a git source and a directory with 2 and 3 trees, one of them incomplete, two that clash; cache empty, filled or damaged; 1 error, 1 upstream move, 1 user step, 1 kill (4.5 million states) |
| `verify_receipts` | configuration, commit and receipts under racing verifications | 2 verifications, 2 delegation files that may vanish and appear, 2 writes, 1 move of HEAD, 2 errors, 1 kill (2.9 million states) |
| `deploy_end_to_end` | what of an edited source gets into a target? | 1 lock command, 2 applies, 1 target, a root with an ignore file and 2 skills of 2 and 1 files, 2 changes of the source or the policy, 1 kill (0.8 million states) |
| `found_*` | one documented statement each that the code does not keep, see section 5 | as small as shows it |

Why these bounds are enough to be interesting: two actors give every race the
code has, since its checks relate one actor to what anybody else did. Two
targets let a run fail with one target done and one not, and let lock orders
cross. Three inodes are one more than there are roots, so a directory can be
removed and made again while somebody has the old one open. Two errors let a
rollback fail; two writes let a file change and change back, and let a walk see
each of two files at another moment; the nested path lets a link need the place
of a directory and the other way round; three trees of a source let a command
meet one that it must refuse, and two that may not be combined. What the theorems
of section 4 state holds without these bounds.

The properties, by hazard:

- *Exclusion and staleness* (`MutualExclusion`, `OnlyHolderWrites`,
  `PlanIsCurrent`, `AppliesAtomically`): nobody comes between the scan under the
  locks and the changes.
- *Outcome* (`CommitConverges`, `ValidatedCommits`, `NeverWedged`): a commit is
  a converged target, a valid plan can be carried out, nothing is left that
  every later scan refuses.
- *Failure* (`RollbackRestores`, `BackupsKept`, `RecordsKept`): after one error at
  any of the 16 points every target is back as it was scanned, and after two
  either it is or the run reports errors of its rollback, with backups and records
  kept. One exception is in the property itself: a root that the run made stays,
  with its namespace, when leftovers of a transaction are in it, and the run then
  reports that after the first error already. What an error between a directory
  and its note, or between a backup and its journal entry does is not covered
  but shown separately (section 5). A root that the run made is back when
  its path names another directory or none.
- *Others* (`NothingDestroyed`, `AuthorityKeepsTarget`). Like `OnlyHolderWrites`,
  `NothingDestroyed` names the run that acts: all others stay where they are in
  that step (`OthersRest`).
- *Two implementations of one judgement* (`VerdictAgrees`): the verifier says
  `converged` exactly when an apply would change nothing and every desired skill
  and its snapshot are as locked, and `invalid` only where the plan is blocked or
  a skill or snapshot is malformed, in whatever state runs, errors, kills and
  users leave a target. The planner does not block in the second case.
- *Waiting* (`NoDeadlock`): of any runs that wait for target locks, one waits
  for a run that waits for none of them, so `_acquire_fd` never needs its
  deadline to get runs out of a circle.
- *Progress* (`Terminates`): under weak fairness of each run's steps, every run
  that began ends. The fairness is that of a sequential process which the
  operating system schedules, and of the polling loop of `_acquire_fd`; that a
  run begins, fails, is killed, or that its wait for a lock reaches the deadline
  (`LockExpires`) is never forced, so the property rests on the order of the
  locks and not on timeouts.
- *Cache and lock file* (`ContentAddressed`, `LockedIsCached`,
  `ReviewedIsLocked`, `LockServesPool`, `UpdateResolves`, `OutcomeTruthful`).
- *Evidence* (`ConsistentConfig`, `ScannedUnderSnapshot`, `CommitExact`,
  `ReportedStays`, `StoredIsVouched`).
- *Snapshots of moving sources* (`SnapshotsHeld`, `LinkedSkillsHeld`): all files
  of a snapshot existed together, and each directory of it is complete.
  The stronger statement that a snapshot is the whole source of *one* moment is
  not true, and TLC finds it violated: a file is added to a directory that the
  walk has passed, another is removed from one it has yet to list, so the walk
  sees neither, though one of them was always there; both are put back the other
  way round, and the same happens to the second walk. No document promises more.
- *From source to target* (`RuntimeNamesUnique`, `OneInputCommits`): names that
  change upstream never give a target *at rest* two skills of one name, and a
  commit never mixes the grants of one moment with the pins of another. At rest
  means that no apply is at work on the target and none was killed there. Without
  that the statement is false: when two skills swap names between two locks, the
  second apply promotes the first of the two links, and until it promotes the
  other one, and for good if it is killed there, both links show one name. TLC
  finds either when `AtRest` is dropped, 40 steps deep. No document promises more:
  `docs/architecture.md:93` says of an apply "It is not one atomic filesystem
  operation".

For each property `PROJECT.json` names a mutant: a definition of the model and
an operator beside it (marked `mutant:`) that changes it the way a plausible bug
would. With it, TLC finds the property violated under the run's own cfg.

Deadlock is checked in every run but `deploy_end_to_end`: there, everybody may
simply be done. Elsewhere `Finished` is the only way to stop.

### The refinement

`RecordLedger` says what concurrent applies do to manager records and nothing
else: a run proposes new records for a set of targets together with the records
its plan was built on; it commits all of them in one step while those are still
there, or changes none. `ReconcilerRefinement` maps a target that some run has
locked and not yet committed to the record that run found (`TargetRecord`), so
the last `Publish` is the commit, and locking, promotion and rollback are
stutters. TLC checks it in `apply_refines`, and section 4 proves it, under
`Sheltered`: no run is killed, no error strikes while records are initialized or
put back, no user replaces a root, and roots exist.

## 4. The proofs

All theorems are of the whole specification, users, errors and kills included,
for all values of the constants that the named assumptions allow.

**Reconciler.** `MutualExclusion` is not inductive: that a run holds the flocks
of its locked targets depends on where it is in `_prepare_lock`, on the targets
its loops still have to visit, and on no directory being open as two targets.
`IInv` (module `ReconcilerInvariant`) adds exactly that: `InodesApart` (a
directory is the root of one target only, under its path and every descriptor),
`LocksHeld` (a run holds the flock of every target in `locked`, and of the one
whose namespace it is opening), `TargetsTracked` (what `pc` says about `locked`,
`left` and `journal`). `ReconcilerProofs` proves that every action keeps the
types, and then the rest:

- `Invariance`: `Spec => []IInv`
- `TypeCorrectness`: `Spec => []TypeOK`
- `Exclusion`: `Spec => []MutualExclusion`
- `NobodyDeadlocks`: `Spec => []NoDeadlock`, for any number of runs and targets.
  `OInv`, inductive on top of `IInv`, says that a directory is one target to all
  runs (`OneTarget`: two runs cannot hold one directory as two targets, and an
  inode that somebody still has open is not used again), that what a run has
  locked comes before what it has still to lock (`Ascending`), and that a flock
  is held for a locked target or for the one being prepared (`HeldByOwn`, which
  an `Abandon` or a kill that forgets a flock would break). So whoever holds the
  lock that a run waits for waits, if at all, at a later target (`WaitsAscend`),
  and of any runs the one that waits at the last target waits for a run that
  waits for none of them. `TargetsAssumption`, that any set of targets has
  a last one in lock order, is all that finiteness is needed for.

They rest on `PlannerAssumption`, `ReconcilerAssumption`, `PriorsAssumption`,
`MakersAssumption` and, the last one, `TargetsAssumption`. `PriorsAssumption`
says that what is there at the start is a tree: entries lie below directories, only links lead somewhere, and a namespace
that does not exist holds nothing. `ReconcilerAssumption` says, among others,
that roots of different targets are different directories. The code checks that
for unscoped runs (`ensure_unscoped_roots_disjoint`); for the others it is an
assumption.

`RInv` (module `ReconcilerRecords`) adds what a run knows of the records and
trees below its locks; it is inductive on top of `IInv`. A run remembers old
records of locked targets only (`Remembers`), under its own authority
(`SameAuthority`), and the targets it has validated are as it planned for until
it changes one (`StillPlanned`): the frame is that any other run writes to
directories it holds the flock of, so not to these. From it:

- `AuthorityStays`: `Spec => AuthorityKeepsTarget`, users, errors and kills
  included; it needs `RecordAssumption`, that what a target holds at the start
  has a record that `scan_target` could have accepted.
- `ReviewedPlanIsCurrent`: `Spec => [](envs = 0 => PlanIsCurrent)`. With users
  the property is false: they need no lock.

`VerdictMatchesPlan` is about all views that a scan can return, all desired
links and all conditions of the skills and snapshots they name; `VerdictsAgree`
applies it to every reachable state.

`AppliesAreAtomic` (module `RefinementProofs`) is the refinement:
`ASSUME Sheltered PROVE Spec => AppliesAtomically`. `LInv` adds, per step of a
run, which outcome and phase it has (`Course`) and which old records it has in
mind (`OldRecords`): since it validated a target, the record it remembers is the
one its plan saw, a replaced one is the one it publishes, and one put back is the
old one again. A target with a pending run therefore shows its remembered record,
whatever is on disk; two runs never have one target pending (`Exclusion`'s
argument); and the only step that changes what any target shows is the `Publish`
behind which nothing is left, where all targets of the run change over at once.
Each part of `Sheltered` is needed: with a missing root `found_created_root`
makes a committed record vanish, with errors at `initread` or `initwrite` or in
`restore` a rollback ends with another record than it began with, a kill leaves
some targets published and others not, and a user who replaces a root takes its
record away.

What is below the locked roots is the subject of `ReconcilerTrees`. The proofs
share one frame with those above: another run writes below directories it holds
the flock of, and to no others (`StepFrame`).

- `HolderWrites` is that frame, as a property: `Spec => OnlyHolderWrites`.
- `TInv`, proved in `CommitProofs`, follows a transaction from validation to the
  release of the locks: at each artifact there is the wanted link if the
  operation is in the journal, none if its old link has just been moved aside,
  and the link that was planned for otherwise (`Now`, `InPlace`); a wanted link
  that is not there yet has its name and its way free, or blocked only by links
  that go first (`Room`); roots stay where they were locked (`RootsHeld`, which
  needs to know who made which root, `MadeRoots`); and records change one after
  the other behind all links (`RecordsFollow`). It holds while no user
  interferes, errors and kills included. `CommitsConverge`
  (`Spec => [](envs = 0 => CommitConverges)`) reads it off at the release;
  `ValidatedRunsCommit` (`Spec => []ValidatedCommits`) shows that no check of
  the promotion can fail while it holds, so a failure behind validation is an
  injected one.
- `DInv`, in `RollbackProofs`, holds whatever users do: where a link is about to
  be installed there is nothing or a racer's entry, and directories that a run
  made stay its own, because no operation on one of them follows.
  `NothingOfOthersIsLost` is `Spec => NothingDestroyed`.
- `WInv` is about records of a run that remembers none: they are its own. It
  needs `RootsExist` (no missing root, no error at `initread`, the two ways of
  losing a record in section 5), and gives `OthersRecordsStay`:
  `ASSUME RootsExist PROVE Spec => RecordsKept`, users and kills included.
- `BInv` accounts for backups: an entry is in one because of a journaled
  operation, or the next one, or an error of the rollback that keeps it, or a
  commit. It needs `NoGaps`: no users, and no error at `readlink` or `stat`,
  which fall between a backup and its journal entry (`found_journal_gap`). What
  makes it more than bookkeeping is a root that the run made itself, whose
  backups `Report` drops without looking: it has none, because the plan that was
  validated saw nothing there to replace (`NewRootsPlain`). `BackupsAreKept` is
  `ASSUME NoGaps PROVE Spec => BackupsKept`.

What a run leaves behind is the subject of `ReconcilerRecovery`; `CommitProofs`
proves `NInv`, and `RecoveryProofs` the rest.

- `GInv`: a tree is a tree. Entries lie below directories (`Rooted`), what is
  not there leads nowhere (`Clean`), and a rollback has looked at the way to an
  entry before it puts the entry back (`WayBack`). It holds while no user
  interferes.
- `NInv`: every directory that no run has locked can be scanned (`Sound`). For
  that, a run that is not past validation has changed no link and no parent
  (`NothingToUndo`), the links of its targets still agree with the records, those
  records are the remembered ones or its own empty ones, and behind its report a
  target without a record has a receipt (`HoldsSound`). `TInv` gives the rest: a
  run past validation commits, and a commit converges. `NothingIsWedged` is
  `ASSUME SoundPriors PROVE Spec => [](Undisturbed => NeverWedged)`: while there
  were no errors, users and kills, and if every target could be scanned at the
  start. Each is needed. A run that gives up before it has read all records takes
  a new record away and writes a receipt in its place; if that fails, one error
  is enough to leave a namespace without either. A kill between two links, or a
  user who unlinks a managed one, leaves a record that the tree does not match.
- `SInv` is `TInv` backwards, from any error behind validation to the release of
  the locks. Until an error of the rollback (`errs`), each operation of the plan
  is in one of three states (`InOrder`): done and in the journal, with the old
  link in the backup; half done, its place empty and its old link in the backup,
  which only the next operation of the promotion or the last one of the journal
  can be; or not done, or undone, with the old link in its place and none in the
  backup. Everything else is as it was seen, but for directories made on the way
  (`Beside`), and these are all empty when they are pruned (`MadeIsEmpty`): what
  lies below them would have been seen below nothing. A root that the run made is
  empty in the end for the same reason, and goes (`MadeRootEmpty`, `Gone`), unless
  it holds leftovers of a transaction (`Littered`); then its run reports it. The
  record that is put back is the one that the plan was built on
  (`RemembersFound`). An error of the rollback is never the first one unless a
  root is littered, because a run past validation fails by an error only
  (`ErrorsCounted`, with `ValidatedRunsCommit`'s argument).
- `RollbacksReturn` is `ASSUME AllNoted PROVE Spec => []RestoredUnlessMoved`, other
  runs, kills and further errors included: whoever reports no error of its
  rollback, or met one error only and left no leftovers in a root it made, has
  restored every target, but for plans that put a link below the place of another
  one (`Moves`, `found_nested_rollback`). `AllNoted` is `NoGaps` and no error
  between the mkdir of a parent directory and the note of it: with either, a
  single error is enough, and nobody reports it (`found_journal_gap`,
  `found_lost_parent.cfg`).
- `OnlyUsedPlaces` says that links are desired, recorded and remembered only
  where some configuration or some initial record has one (`UInv`). So if no two
  such places lie above one another (`NothingNested`, as in `apply_faults`), no
  plan moves a link below itself, and `RollbackIsComplete` is
  `ASSUME AllNoted, NothingNested PROVE Spec => []RollbackRestores`.

**LockPipeline.** `LInv` (module `LockProofs`) says per command what it knows
(`Resolved`: the sources it is done with are in its candidate as reviewed, and
cached; `AtHand`: the revision it is working on; `Candidates`: when the
candidate is complete), and that a public lock is the candidate of a command
that is over (`Public`). Other commands can disturb a command through the cache
only, and there an entry only goes away or becomes right (`CacheStep`), which is
why one lemma (`Frame`) serves all actions. It implies
`CacheIsContentAddressed`, `LockedSnapshots`, `ReviewedLocks`, `ServedPool`,
`TruthfulOutcomes`, the first five properties of the run, and `LockTypes`.
`ResolvedUpdates` follows from its part about candidates: an update that gets to
`read` resolved its candidate, and the candidate does not change after that.

**Verification.** `VInv` says of each pass that it either vouches for the history
(`steady`: since the capture, every captured file has been in place) or still
has a file ahead of it that differs, so that it will not get through (`Passes`,
`Lagging`); versions only grow, so a file that differs once differs for good
(`Fresh`). It gives `LoadedAtOneMoment`, `ScannedInPlace` and `NamedCommits` for
any number of files, commits and verifications; `Kept` and `StoredIsVouched`,
about who made a receipt and who reported a failure, give `ReceiptsStay` and
`ReceiptsVouched`.

**SourceTree.** `SnapshotsShowTheSource` holds for every tree of one level of
directories, every order of names and all rules that `SourceAssumption` allows.
Bytes that a file had and lost do not return, so what both walks read was there
all the time between the two reads. The moment at which the second walk lists the
root lies between them for every file, and the moment at which it lists a
directory for every file of that directory; of a directory it also knows at that
moment which files are absent. The rules were read between the two reads of the
ignore file, so they are the rules of the snapshot.

**Deployment.** `LinkedSkillsAreWhole` joins that theorem with the invariant that
links, in every state of a promotion, a rollback or behind a kill, point to cached
snapshots only. For `NamesStayUnique` and `CommitsOneInput` the invariant says
where each link of a target is while a run is at work on it: promoted ones are
those of the goal, the others those of the record that the plan was built on, and
the targets of two runs at work are apart. So a target is at rest with the links
of a goal or of an old record, as a whole, and each of them was resolved from one
of `inputs`.

**Only model-checked.** `Terminates`: liveness under fairness is out of reach of
the prover; its half about locks is `NobodyDeadlocks`, the other half, that
every loop gets closer to its end, is left to TLC. `NeverWedged` with errors, users or kills, `CommitConverges` and
`PlanIsCurrent` beside users, and `RecordsKept`, `BackupsKept` and
`RollbackRestores` without their assumptions, do not hold: section 5, an error,
a kill or a user's step refutes them. That a `lock` command's steps in
`Deployment` are what `LockPipeline` does, and that what an apply loads is what
`Verification` shows of `load_config`, is by the reading of the code; no
refinement between those modules is stated.

## 5. Findings

Each is a run that TLC must find violated; the finding in `PROJECT.json` quotes
the documentation.

- `found_initread`: when the read of `managed.json` fails during
  `_initialize_metadata`, the rollback deletes the record it could not read.
- `found_journal_gap`: an error in `_promote` after the old link went to the
  backup and before the operation is journaled makes the rollback delete the
  backup, and with it the link.
- `found_nested_rollback`: a plan that replaces the link `s/a` by `s/a/b` cannot
  be rolled back, because the directory it created occupies the link's name.
- `found_created_root`: a run that created a root and lost the race for its lock
  deletes the record that the winner committed.
- `found_lost_update`: two updates of different sources from the same old lock;
  the second silently reverts the first.

Two more errors go wrong at places where a directory is made before it is noted.
They have configurations of their own, for module `MCReconciler`, but no entry in
`PROJECT.json`; TLC finds both violated at once.

- `found_lost_parent.cfg`, `RollbackRestores`: an error between the `mkdir` of a
  link's parent directory and its note in `created_parents`
  (`reconciler.py:458-461`) leaves that directory behind, and no rollback error is
  reported. `tests/adversarial/test_apply_failures.py:48` has
  `test_injected_failure_rolls_back_links_directories_and_managed_metadata`.
- `found_transaction.cfg`, `NeverWedged`: an error while `_make_transaction` makes
  the directories of a new target (`reconciler.py:470-505`) leaves the root with a
  namespace and no record, which every later scan refuses.
  `test_permission_error_during_staging_has_no_partial_apply` expects of an error
  in the same step `assert not root.exists()` (line 75 of that file).

These bound what the passing runs can ask: `apply_faults` leaves out the fault
points `initread`, `readlink`, `stat` and `openparent`, and nested moves, and does
not ask `NeverWedged`; `apply_refines` leaves out missing roots. Both say so in
their `.cfg` constants.

## 6. Not modelled, and why

- *Contents of files.* YAML, JSON, frontmatter, schemas, hashes and rendering
  are replaced by what the properties tell apart: a revision, a set of complete
  revisions, a runtime name, readable or not. `schema_validation` and
  `identifiers` are pure parsing, and so is most of `inventory`, of
  `source_ignore` (its pattern language) and of `models`.
- *Checks of one document.* Uniqueness and path rules of the configuration, the
  confinement of the lock's paths below a source's prefix, and the scan of one
  skill's links (`inspect_skill`) are functions of one document or tree.
- *Descriptor-anchored traversal* (`safe_paths`): the models use its outcome,
  the same directory or another one. Symlinked ancestors are not in the models.
- *Directories below the second level, links and modes in a source.* The walk
  repeats itself per level, and refuses what is not a file or a directory.
- *The two steps between the check of a free name and the rename* of `CREATE`,
  for writers outside the lock protocol (see `racer`).
- *Users who remove directories* below a target. They write, relink, unlink and
  replace whole roots.
- *Common moments of several targets in `verify`.* A verification scans them one
  after the other, and no document promises more; `TargetVerifier` is about one.
- *`plan`, `validate`, `resolve`, `status` and `update --check`* change nothing.
  The relation an updater shows beside a proposal (fast-forward, diverged, ...)
  decides nothing.
- *Two targets with one root* in a scoped legacy configuration; roots are
  distinct by assumption.

## 7. Plan

Done: `Planner` and `TargetVerifier`; `Reconciler`, its refinement and the proofs
of exclusion, freedom from deadlock, authority, currency of plans, atomicity, convergence of commits,
of what is not lost (records, backups, entries of others), and of what runs leave
behind (complete rollbacks, targets that can be scanned); the lock pipeline
with its proofs; verification with its proofs; sources that move while they are
walked, and the composition from a source to the links of a target, with their
proofs.

Left, in this order:

1. An action property that every step of a run gets closer to its end (a variant
   over `pc`, `left`, the operations to do and the journal), and its theorem:
   with `NobodyDeadlocks` it is all of `Terminates` that is not fairness.
2. An abstract specification of the lock file as a register, to state precisely
   what `update` would have to do to lose no update (`found_lost_update`).
3. Groups and aliases of delegations as operators of a module of their own,
   checked against a declarative definition.
