------------------------ MODULE DeploymentProperties ------------------------
(***************************************************************************)
(* What the links made from snapshots of an edited source promise.         *)
(***************************************************************************)
EXTENDS Deployment, SourceProperties

TypeOK ==
    /\ SourceTypeOK
    /\ policy \in Policy /\ lock \in Tree \cup {NoLock} /\ inputs \subseteq Input
    /\ edits \in Nat /\ wanted \in [Resolvers -> SUBSET Dirs]
    /\ stage \in [Applies -> {"idle", "loaded", "planned", "promoting", "undoing", "ended"}]
    /\ loaded \in [Applies -> Input \cup {NoInput}]
    /\ scope \in [Applies -> SUBSET Targets]
    /\ DOMAIN intent = Applies /\ \A p \in Applies : intent[p] = NoIntent \/ IsIntent(intent[p])
    /\ ledger \in [Targets -> Links] /\ links \in [Targets -> Links]
    /\ torn \subseteq Targets /\ kills \in Nat

(* A linked skill is never a mixture of versions, not between two links of  *)
(* a promotion or of a rollback (_promote, _rollback_entry) and not after a *)
(* kill: its files are those that its directory showed at one moment.       *)
LinkedSkillsHeld ==
    \A t \in Targets : \A d \in Linked(links[t]) : PartHeld(links[t][d], d)

(* A target that no apply is at work on, and at which none was killed,      *)
(* links no two skills of the same runtime name, whatever is renamed        *)
(* upstream between two locks (resolve_desired_state, apply_plan).  Within  *)
(* a transaction, and after a kill in one, links of two configurations are  *)
(* there together, and two of them may have one name.                       *)
RuntimeNamesUnique ==
    \A t \in Targets : AtRest(t) => \A d, e \in Linked(links[t]) :
        RuntimeName(links[t][d], d) = RuntimeName(links[t][e], e) => d = e

(* A commit leaves the records of all its targets with the links of one     *)
(* policy and one lock that were on disk together, never grants of one      *)
(* moment with pins of another, and the links they name are there (main,    *)
(* "apply", and apply_plan).                                                *)
CommitShows(p) ==
    \E i \in inputs : \A t \in scope[p] :
        ledger[t] = LinksOf(i, t) /\ \A d \in Linked(ledger[t]) : links[t][d] = ledger[t][d]
OneInputCommits ==
    [][\A p \in Applies : stage[p] = "promoting" /\ stage'[p] = "ended" /\ kills' = kills
          => CommitShows(p)]_vars
=============================================================================
