-------------------------- MODULE ReconcilerRecords --------------------------
(***************************************************************************)
(* Two inductive invariants beside IInv, which says what a run has locked. *)
(* RInv adds what a run knows of the records and trees of the targets it   *)
(* has locked, from the first record it reads to the last one it writes;   *)
(* AuthorityKeepsTarget and PlanIsCurrent follow.  LInv adds which old     *)
(* records a run has in mind, and when they are those its plan was built   *)
(* on: the argument that apply_plan implements RecordLedger.               *)
(***************************************************************************)
EXTENDS ReconcilerInvariant, ReconcilerRefinement

Rec(p, t) == ns[fd[p][t]].managed

(* Old records are remembered of locked targets only, and of no target      *)
(* before its record is read.                                               *)
Remembers(p) ==
    /\ pc[p] # "release" => \A t \in Targets :
          prev[p][t] # NoFile \/ fresh[p][t] => t \in locked[p]
    /\ pc[p] = "init" => \A t \in Targets :
          First(p, t) => prev[p][t] = NoFile /\ ~fresh[p][t]

(* The record that a rollback would put back names the same authority as    *)
(* the one that is there.                                                   *)
SameAuthority(p) ==
    \A t \in locked[p] : prev[p][t] # NoFile /\ Rec(p, t) # NoFile
        => prev[p][t].cache = Rec(p, t).cache

(* Before validation every locked target has a record, an empty one of this *)
(* run if it is new; only for the last one it may still have to be made.    *)
Early == Preparing \cup {"init", "validate"}
Initialized(p) ==
    pc[p] \in Early => \A t \in locked[p] :
        /\ ns[fd[p][t]].exists
        /\ ~(pc[p] = "init" /\ First(p, t)) =>
              Rec(p, t) # NoFile /\ (fresh[p][t] => Rec(p, t) = EmptyRecord(p))

(* The plan that was not blocked is the one that is validated.              *)
Unblocked(p) ==
    pc[p] \in Early => locked[p] \cup left[p] \subseteq sel[p] /\ ~PlanBlocked(p)

(* Validated targets have records of this run's authority ...               *)
Promoting == {"stage", "promote", "move", "install", "clean", "publish"}
Checked(p) == {t \in locked[p] : pc[p] \in Promoting \/ (pc[p] = "validate" /\ t \notin left[p])}
OwnRecords(p) ==
    \A t \in Checked(p) : Rec(p, t) # NoFile /\ Rec(p, t).cache = CacheRoot[p]

(* ... and, without users, are as planned for until the first change.       *)
StillPlanned(p) ==
    envs = 0 /\ (pc[p] \in {"validate", "stage"} \/ (pc[p] = "promote" /\ Unchanged(p)))
        => \A t \in Checked(p) : AsPlannedFor(p, t)

Records(p) == /\ Remembers(p) /\ SameAuthority(p) /\ Initialized(p)
              /\ Unblocked(p) /\ OwnRecords(p) /\ StillPlanned(p)
RInv == \A p \in Applies : Records(p)

------------------------------------------------------------------------------
(* Where apply_plan implements RecordLedger: nobody is killed or interferes *)
(* with roots, which exist, and the records are initialized and put back    *)
(* without errors.                                                          *)
Sheltered ==
    /\ MaxEnv = 0 /\ MaxCrashes = 0
    /\ FaultPoints \cap {"initread", "initwrite", "restore"} = {}
    /\ \A w \in Priors : w.present

RootsStay ==
    \A t \in Targets :
        /\ at[t] # NoInode
        /\ \A p \in Applies : made[p][t] = NoInode /\ fd[p][t] \in {NoInode, at[t]}

(* The outcome and the phase that a run has at each step.                   *)
RolledBack(p) == outcome[p] = "failed" /\ phase[p] # "committed"
Settled(p) == outcome[p] \in {"ok", "committed"} /\ phase[p] = "committed"
Course(p) ==
    /\ pc[p] \in {"idle", "scan", "walk", "plan"} => outcome[p] = "none" /\ phase[p] = "locking"
    /\ pc[p] \in Early \cup Promoting => outcome[p] = "none" /\ phase[p] # "committed"
    /\ pc[p] = "drop" => outcome[p] = "none" /\ phase[p] = "committed"
    /\ pc[p] = "settle" => outcome[p] = "committed" /\ phase[p] = "committed"
    /\ pc[p] \in {"undo", "putback", "restore", "discard", "prune", "report"} => RolledBack(p)
    /\ pc[p] = "release" => RolledBack(p) \/ Settled(p)
    /\ pc[p] = "done" => phase[p] = "locking"

(* The targets a run remembers the old record of, which it could rely on    *)
(* ever since it validated them, until it has put it back or replaced it.   *)
Taken(p) == {t \in locked[p] : ~(pc[p] = "init" /\ First(p, t))}
Replaced(p) == {t \in locked[p] : pc[p] = "publish" /\ t \notin left[p]}
PutBackOnes(p) ==
    {t \in locked[p] : \/ (pc[p] = "restore" /\ t \notin left[p])
                      \/ pc[p] \in {"discard", "prune", "report"}
                      \/ (pc[p] = "release" /\ outcome[p] = "failed")}
OldRecords(p) ==
    /\ locked[p] \subseteq sel[p]
    /\ \A t \in Taken(p) :
          /\ fresh[p][t] \/ prev[p][t] # NoFile
          /\ fresh[p][t] => prev[p][t] = NoFile
          /\ pc[p] \in Early /\ ~fresh[p][t] => Rec(p, t) = prev[p][t]
    /\ \A t \in Checked(p) : prev[p][t] = SeenRecord(p, t)
    /\ \A t \in Replaced(p) : Rec(p, t) = Published(p, t)
    /\ \A t \in PutBackOnes(p) : Rec(p, t) = prev[p][t]

LInv == RootsStay /\ \A p \in Applies : Course(p) /\ OldRecords(p)
=============================================================================
