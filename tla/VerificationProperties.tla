----------------------- MODULE VerificationProperties -----------------------
(***************************************************************************)
(* What a verification promises about the configuration it names and about *)
(* the receipts in the store.  The type invariant is Verification!TypeOK.  *)
(***************************************************************************)
EXTENDS Verification

(* A configuration that load_config returned was on disk as a whole at one *)
(* moment, between its two passes: reading file by file beside a checkout  *)
(* that writes, adds and removes files never mixes two configurations.     *)
ConsistentConfig ==
    \A v \in Verifiers : pc[v] = "scan" => steady[v]

(* A receipt is only published for files that were in place during all of   *)
(* the scan, where nobody changed one and changed it back in between, and   *)
(* that were, with no delegation more or less, the configuration again at   *)
(* one moment after the evidence was bound.                                 *)
ScannedUnderSnapshot ==
    \A v \in Verifiers : pc[v] = "link" => steady[v]

(* The commit that a receipt names has exactly the delegations and the bytes *)
(* that were verified, however HEAD and the files move while git is asked.   *)
CommitExact ==
    \A r \in store : r.commit # NoCommit => Blobs[r.commit] = r.config

(* A receipt that was reported is there as long as nobody who linked the    *)
(* same receipt failed: a verification that found it never removes it.      *)
ReportedStays ==
    \A v \in Verifiers : outcome[v] = "ok" =>
        \/ Receipt(v) \in store
        \/ \E w \in Verifiers : linked[w] /\ outcome[w] = "failed" /\ Receipt(w) = Receipt(v)

(* A receipt is in the store only if a verification that linked it did not  *)
(* fail, could not take it back, or was killed.                             *)
StoredIsVouched ==
    \A r \in store : \E v \in Verifiers :
        linked[v] /\ Receipt(v) = r /\ outcome[v] # "failed"
=============================================================================
