------------------------ MODULE ReconcilerRefinement ------------------------
(***************************************************************************)
(* apply_plan implements RecordLedger as long as no run is killed, no      *)
(* rollback step fails and users leave the roots in place.                 *)
(*                                                                         *)
(* While a run holds a target and has not published the last record, the   *)
(* target still counts as recording what the run found there; all its      *)
(* targets change over at once, when the last record is written.           *)
(***************************************************************************)
EXTENDS Reconciler

NoIntent == [base |-> [t \in {} |-> NoFile], next |-> [t \in {} |-> NoFile]]

Proposing(p) ==
    /\ pc[p] \notin {"idle", "scan", "walk", "plan", "done"}
    /\ outcome[p] = "none"
    /\ phase[p] # "committed"

RunStatus(p) ==
    CASE Proposing(p) -> "proposed"
      [] phase[p] = "committed" \/ outcome[p] \in {"ok", "committed"} -> "committed"
      [] outcome[p] = "failed" -> "aborted"
      [] OTHER -> "idle"

SeenRecord(p, t) ==
    IF seen[p][t].cache = NoCache THEN NoFile
    ELSE [cache |-> seen[p][t].cache, entries |-> seen[p][t].entries]

RunIntent(p) ==
    IF ~Proposing(p) THEN NoIntent
    ELSE [base |-> [t \in sel[p] |-> SeenRecord(p, t)],
          next |-> [t \in sel[p] |-> Published(p, t)]]

(* Run p took over the directory t names, and remembers its old record.     *)
Pending(p, t) == /\ t \in locked[p] /\ fd[p][t] = at[t]
                 /\ phase[p] # "committed"
                 /\ fresh[p][t] \/ prev[p][t] # NoFile

TargetRecord(t) ==
    IF \E p \in Applies : Pending(p, t)
    THEN prev[CHOOSE p \in Applies : Pending(p, t)][t]
    ELSE IF at[t] = NoInode THEN NoFile ELSE ns[at[t]].managed

Ledger == INSTANCE RecordLedger WITH
    Contents <- Record \cup {NoFile},
    ledger <- [t \in Targets |-> TargetRecord(t)],
    intent <- [p \in Applies |-> RunIntent(p)],
    status <- [p \in Applies |-> RunStatus(p)]

(* Concurrent applies act on the manager records like atomic multi-target   *)
(* compare-and-swaps: commit everything against the records the plan saw,   *)
(* or nothing.                                                              *)
AppliesAtomically == Ledger!Spec
=============================================================================
