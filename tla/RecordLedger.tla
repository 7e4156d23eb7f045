---------------------------- MODULE RecordLedger ----------------------------
(***************************************************************************)
(* What concurrent applies promise about manager records, without locks,   *)
(* files or rollback.  A run proposes new records for a set of targets     *)
(* together with the records its plan was built on.  It commits all of     *)
(* them in one step, only while every one of those targets still records   *)
(* what the plan saw, or it changes no record at all.                      *)
(***************************************************************************)
CONSTANTS Applies, Targets,
          Contents,   \* what a target may record, no record included
          NoIntent

VARIABLES
    ledger,  \* ledger[t]: the record of target t
    intent,  \* intent[p]: what run p wants to replace by what
    status   \* status[p]: how far run p is

IsIntent(new) == \E T \in SUBSET Targets :
                    new \in [base : [T -> Contents], next : [T -> Contents]]

Init ==
    /\ ledger \in [Targets -> Contents]
    /\ intent = [p \in Applies |-> NoIntent]
    /\ status = [p \in Applies |-> "idle"]

Propose(p) ==
    /\ status[p] = "idle"
    /\ status' = [status EXCEPT ![p] = "proposed"]
    /\ IsIntent(intent'[p])
    /\ intent' = [intent EXCEPT ![p] = intent'[p]]
    /\ UNCHANGED ledger

Commit(p) ==
    /\ status[p] = "proposed"
    /\ \A t \in DOMAIN intent[p].base : ledger[t] = intent[p].base[t]
    /\ ledger' = [t \in Targets |-> IF t \in DOMAIN intent[p].next THEN intent[p].next[t]
                                    ELSE ledger[t]]
    /\ status' = [status EXCEPT ![p] = "committed"]
    /\ intent' = [intent EXCEPT ![p] = NoIntent]

Abort(p) ==
    /\ status[p] = "proposed"
    /\ status' = [status EXCEPT ![p] = "aborted"]
    /\ intent' = [intent EXCEPT ![p] = NoIntent]
    /\ UNCHANGED ledger

Next == \E p \in Applies : Propose(p) \/ Commit(p) \/ Abort(p)

Spec == Init /\ [][Next]_<<ledger, intent, status>>
=============================================================================
