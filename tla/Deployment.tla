----------------------------- MODULE Deployment -----------------------------
(***************************************************************************)
(* From an edited source directory to the links of the targets: lock,      *)
(* edits of the policy, and apply, with what the other modules show of     *)
(* their parts taken as steps.                                             *)
(*                                                                         *)
(* A lock command resolves the source as SourceTree does and publishes the *)
(* revision as the lock.  An apply loads policy and lock as one pair that  *)
(* was on disk at one moment (VerificationProperties!ConsistentConfig),    *)
(* resolves it into the links each target should have, and brings links    *)
(* and records there in one transaction, link by link and record by        *)
(* record; what the Reconciler modules show of directories, backups and    *)
(* errors is taken as given.  A skill is a directory with a manifest; its  *)
(* runtime name is in the manifest.                                        *)
(***************************************************************************)
EXTENDS SourceTree

CONSTANTS
    Applies, Targets,
    Manifest,   \* Manifest[d]: the SKILL.md of directory d
    NameOf,     \* NameOf[b]: the runtime name in a manifest of bytes b
    NoName,     \* what a malformed manifest has instead
    Policies, FirstPolicies,  \* pool and grants that may be on disk, and at the start
    NoLock, NoInput, NoIntent, NoLink,
    MaxChanges, \* how often source and policy change, together
    MaxKills    \* how many applies may be killed at work

Policy == [pool : SUBSET Dirs, grants : [Targets -> SUBSET Dirs]]
Input == [policy : Policy, lock : Tree]

(* Links of a target: for each skill the revision whose snapshot is linked. *)
Links == [Dirs -> Tree \cup {NoLink}]
NoLinks == [d \in Dirs |-> NoLink]
Linked(L) == {d \in Dirs : L[d] # NoLink}

(* What an apply wants to replace by what.                                  *)
IsIntent(new) == \E T \in SUBSET Targets : new \in [base : [T -> Links], next : [T -> Links]]

ASSUME DeploymentAssumption ==
    /\ Manifest \in [Dirs -> Files] /\ \A d \in Dirs : In[Manifest[d]] = d
    /\ DOMAIN NameOf = Contents
    /\ Policies \subseteq Policy /\ FirstPolicies \subseteq Policies
    /\ NoLock \notin Tree /\ NoLink \notin Tree /\ NoInput \notin Input
    /\ ~IsIntent(NoIntent)
    /\ MaxChanges \in Nat /\ MaxKills \in Nat

VARIABLES
    policy,  \* pool.yaml and the delegations
    lock,    \* skill-lock.yaml
    inputs,  \* every policy and lock that were on disk together
    edits,
    wanted,  \* wanted[r]: the pool that lock command r loaded
    stage,   \* stage[p]: how far apply p is
    loaded,  \* what it loaded
    scope,   \* the targets it was asked for
    intent,  \* what it wants to replace by what
    ledger,  \* ledger[t]: the links that the record of target t names
    links,   \* links[t]: the links that are in target t
    torn,    \* the targets that a killed apply was at work on
    kills

configuration == <<policy, lock, inputs, edits>>
runs == <<stage, loaded, scope, intent>>
targets == <<ledger, links, torn, kills>>
vars == <<sourceVars, configuration, wanted, runs, targets>>

Init ==
    /\ SourceInit
    /\ policy \in FirstPolicies
    /\ lock \in IF cache = {} THEN {NoLock} ELSE {e.key : e \in cache}
    /\ inputs = {i \in {[policy |-> policy, lock |-> lock]} : lock # NoLock}
    /\ edits = 0
    /\ wanted = [r \in Resolvers |-> {}]
    /\ stage = [p \in Applies |-> "idle"]
    /\ loaded = [p \in Applies |-> NoInput]
    /\ scope = [p \in Applies |-> {}]
    /\ intent = [p \in Applies |-> NoIntent]
    /\ ledger = [t \in Targets |-> NoLinks] /\ links = ledger
    /\ torn = {} /\ kills = 0

------------------------------------------------------------------------------
SkillsOf(tree) == {d \in Dirs : tree[Manifest[d]] # NoContent}
RuntimeName(tree, d) == NameOf[tree[Manifest[d]]]

(* main, "lock": the configuration is loaded first.                         *)
BeginLock(r) ==
    /\ BeginResolve(r)
    /\ wanted' = [wanted EXCEPT ![r] = policy.pool]
    /\ UNCHANGED <<configuration, runs, targets>>

ResolveSource(r) ==
    /\ ResolveStep(r)
    /\ UNCHANGED <<configuration, wanted, runs, targets>>

(* discover_skills_at and build_lock: every manifest is well formed, and    *)
(* every skill of the pool is there.                                        *)
Lockable(r) ==
    /\ \A d \in SkillsOf(revision[r]) : RuntimeName(revision[r], d) # NoName
    /\ wanted[r] \subseteq SkillsOf(revision[r])

PublishLock(r) ==
    /\ pc[r] = "resolved"
    /\ \/ ~Lockable(r) /\ Leave(r, "failed") /\ UNCHANGED <<lock, inputs>>
       \/ /\ Lockable(r) /\ Leave(r, "done")
          /\ lock' = revision[r]
          /\ inputs' = inputs \cup {[policy |-> policy, lock |-> lock']}
    /\ wanted' = [wanted EXCEPT ![r] = {}]
    /\ UNCHANGED <<world, cache, policy, edits, runs, targets>>

EditSource(f) ==
    /\ writes + edits < MaxChanges
    /\ WriteSource(f)
    /\ UNCHANGED <<configuration, wanted, runs, targets>>

EditPolicy(q) ==
    /\ q # policy /\ writes + edits < MaxChanges
    /\ edits' = edits + 1
    /\ policy' = q
    /\ inputs' = IF lock = NoLock THEN inputs
                 ELSE inputs \cup {[policy |-> q, lock |-> lock]}
    /\ UNCHANGED <<sourceVars, lock, wanted, runs, targets>>

------------------------------------------------------------------------------
(* resolve_desired_state: grants are in the pool and in the lock, and no    *)
(* two skills of one target have the same runtime name.                     *)
Granted(i) == \A t \in Targets : i.policy.grants[t] \subseteq i.policy.pool \cap SkillsOf(i.lock)
NamesDiffer(i) ==
    \A t \in Targets : \A d, e \in i.policy.grants[t] :
        RuntimeName(i.lock, d) = RuntimeName(i.lock, e) => d = e
Resolves(i) == Granted(i) /\ NamesDiffer(i)

(* The links of one target, bound to the snapshots of the locked revision   *)
(* (_bind_expected_sources).                                                *)
LinksOf(i, t) == [d \in Dirs |-> IF d \in i.policy.grants[t] THEN i.lock ELSE NoLink]

(* main, "apply": the whole configuration is loaded and resolved, also when *)
(* one target is selected.                                                  *)
LoadApply(p) ==
    /\ stage[p] = "idle" /\ lock # NoLock
    /\ LET i == [policy |-> policy, lock |-> lock] IN
       \/ /\ Resolves(i)
          /\ stage' = [stage EXCEPT ![p] = "loaded"]
          /\ loaded' = [loaded EXCEPT ![p] = i]
          /\ \E T \in {Targets} \cup {{t} : t \in Targets} : scope' = [scope EXCEPT ![p] = T]
       \/ /\ ~Resolves(i)
          /\ stage' = [stage EXCEPT ![p] = "ended"]
          /\ UNCHANGED <<loaded, scope>>
    /\ UNCHANGED <<sourceVars, configuration, wanted, intent, targets>>

(* The selected targets are scanned and a plan is made from what was loaded *)
(* at the start.                                                            *)
DesiredNow(p) == [loaded[p] EXCEPT !.lock = lock]  \* mutant: the lock is read again
Desired(p) == loaded[p]
PlanApply(p) ==
    /\ stage[p] = "loaded"
    /\ stage' = [stage EXCEPT ![p] = "planned"]
    /\ intent' = [intent EXCEPT ![p] =
          [base |-> [t \in scope[p] |-> ledger[t]],
           next |-> [t \in scope[p] |-> LinksOf(Desired(p), t)]]]
    /\ UNCHANGED <<sourceVars, configuration, wanted, loaded, scope, targets>>

------------------------------------------------------------------------------
(* apply_plan.  Ops(p, t) are the mutations of one target; the rest is KEEP *)
(* or not the manager's.                                                    *)
Base(p, t) == intent[p].base[t]
Goal(p, t) == intent[p].next[t]
Ops(p, t) == {d \in Dirs : Base(p, t)[d] # Goal(p, t)[d]}

AtWork == {p \in Applies : stage[p] \in {"promoting", "undoing"}}
AtRest(t) == t \notin torn /\ \A p \in AtWork : t \notin scope[p]

(* Every linked skill is in the cache with the locked content.              *)
Deployable(p) ==
    \A t \in scope[p] : \A d \in Linked(Goal(p, t)) :
        [key |-> Goal(p, t)[d], tree |-> Goal(p, t)[d]] \in cache

(* Under the locks of its targets the run finds what it planned on: their   *)
(* records, the links these name, and nothing in the way of a new link.     *)
AsPlanned(p) ==
    /\ \A q \in AtWork : scope[p] \cap scope[q] = {}
    /\ \A t \in scope[p] :
          /\ ledger[t] = Base(p, t)
          /\ \A d \in Ops(p, t) \cup Linked(Base(p, t)) : links[t][d] = Base(p, t)[d]

StartApply(p) ==
    /\ stage[p] = "planned" /\ Deployable(p) /\ AsPlanned(p)
    /\ \E t \in scope[p] : Ops(p, t) # {}
    /\ stage' = [stage EXCEPT ![p] = "promoting"]
    /\ UNCHANGED <<sourceVars, configuration, wanted, loaded, scope, intent, targets>>

(* _promote, in whatever order the operations are in.                       *)
Relink(t, d, to) == links' = [links EXCEPT ![t][d] = to]
Rewrite(t, to) == ledger' = [ledger EXCEPT ![t] = to]
AtTargets == UNCHANGED <<sourceVars, configuration, wanted, runs, torn, kills>>
Promoted(p, t) == \A d \in Ops(p, t) : links[t][d] = Goal(p, t)[d]
Undone(p, t) == \A d \in Ops(p, t) : links[t][d] = Base(p, t)[d]

PromoteLink(p) ==
    /\ stage[p] = "promoting"
    /\ \E t \in scope[p] : \E d \in Ops(p, t) :
          links[t][d] = Base(p, t)[d] /\ Relink(t, d, Goal(p, t)[d])
    /\ AtTargets /\ UNCHANGED ledger

(* The records are written after the last link, target by target.           *)
WriteRecord(p) ==
    /\ stage[p] = "promoting" /\ \A t \in scope[p] : Promoted(p, t)
    /\ \E t \in scope[p] : ledger[t] # Goal(p, t) /\ Rewrite(t, Goal(p, t))
    /\ AtTargets /\ UNCHANGED links

(* A run that ends forgets what it loaded and planned.                      *)
EndApply(p) ==
    /\ stage' = [stage EXCEPT ![p] = "ended"]
    /\ loaded' = [loaded EXCEPT ![p] = NoInput]
    /\ scope' = [scope EXCEPT ![p] = {}]
    /\ intent' = [intent EXCEPT ![p] = NoIntent]
    /\ UNCHANGED <<sourceVars, configuration, wanted, ledger, links>>

CommitApply(p) ==
    /\ stage[p] = "promoting"
    /\ \A t \in scope[p] : Promoted(p, t) /\ ledger[t] = Goal(p, t)
    /\ EndApply(p) /\ UNCHANGED <<torn, kills>>

(* apply_plan fails before the commit: the links go back one by one, then   *)
(* the records.                                                             *)
FailApply(p) ==
    /\ stage[p] = "promoting"
    /\ stage' = [stage EXCEPT ![p] = "undoing"]
    /\ UNCHANGED <<sourceVars, configuration, wanted, loaded, scope, intent, targets>>

UndoLink(p) ==
    /\ stage[p] = "undoing"
    /\ \E t \in scope[p] : \E d \in Ops(p, t) :
          links[t][d] # Base(p, t)[d] /\ Relink(t, d, Base(p, t)[d])
    /\ AtTargets /\ UNCHANGED ledger

RestoreRecord(p) ==
    /\ stage[p] = "undoing" /\ \A t \in scope[p] : Undone(p, t)
    /\ \E t \in scope[p] : ledger[t] # Base(p, t) /\ Rewrite(t, Base(p, t))
    /\ AtTargets /\ UNCHANGED links

(* The plan is blocked, empty, not confirmed or stale, or all is undone.    *)
AbortApply(p) ==
    /\ \/ stage[p] = "planned"
       \/ stage[p] = "undoing" /\ \A t \in scope[p] : Undone(p, t) /\ ledger[t] = Base(p, t)
    /\ EndApply(p) /\ UNCHANGED <<torn, kills>>

(* A run that is killed at work leaves links and records as they are.       *)
KillApply(p) ==
    /\ p \in AtWork /\ kills < MaxKills
    /\ EndApply(p)
    /\ torn' = torn \cup scope[p] /\ kills' = kills + 1

ApplyStep(p) ==
    \/ LoadApply(p) \/ PlanApply(p) \/ StartApply(p)
    \/ PromoteLink(p) \/ WriteRecord(p) \/ CommitApply(p)
    \/ FailApply(p) \/ UndoLink(p) \/ RestoreRecord(p)
    \/ AbortApply(p) \/ KillApply(p)

Next ==
    \/ \E r \in Resolvers : BeginLock(r) \/ ResolveSource(r) \/ PublishLock(r)
    \/ \E f \in Files : EditSource(f)
    \/ \E q \in Policies : EditPolicy(q)
    \/ \E p \in Applies : ApplyStep(p)

Spec == Init /\ [][Next]_vars
=============================================================================
