--------------------------- MODULE TargetVerifier ---------------------------
(***************************************************************************)
(* What verifier.verify_state says of one target whose root it could scan. *)
(*                                                                         *)
(* It shares the scan with the planner and nothing else: it compares the   *)
(* view with the desired links in its own way, reads every desired skill   *)
(* and the whole snapshot it lies in, and sorts what it finds into invalid *)
(* state and drift.  Neither the scan nor the planner reads any contents:  *)
(* for them a source is usable when it is a real directory of the cache.   *)
(* So what reading finds is a parameter of its own: skill[s] is what       *)
(* hash_tree and inspect_skill find of the skill at s, snapshot[s] what    *)
(* validate_snapshot_tree and hash_tree find of the snapshot around it.    *)
(* Snapshots with no skill desired in the target are left out.             *)
(***************************************************************************)
EXTENDS Planner

(* As locked; readable, but with another hash or runtime name; not readable *)
(* at all, unsafe, or with a malformed manifest.                            *)
Conditions == {"exact", "altered", "malformed"}

Wanted(want) == {want[x] : x \in Managed(want)}

(* cache-root-mismatch                                                      *)
RootMismatch(view, cache) == view.cache # NoCache /\ view.cache # cache

(* source-state-invalid: not a real directory inside the cache, or contents *)
(* that cannot be hashed and inspected.  The others are source_artifacts.   *)
InCache(want, cache) ==
    {x \in Managed(want) : want[x] \notin Unsafe /\ CacheOf[want[x]] = cache}
Readable(want, cache, skill) == {x \in InCache(want, cache) : skill[want[x]] # "malformed"}
Unreadable(want, cache, skill) == Managed(want) \ Readable(want, cache, skill)

(* source-content-hash-mismatch, runtime-name-mismatch.  Names that collide *)
(* though they differ in the lock need one that is altered.                 *)
Stale(want, cache, skill) == {x \in Readable(want, cache, skill) : skill[want[x]] = "altered"}

(* source-snapshot-invalid, source-snapshot-hash-mismatch                   *)
InSnapshots(want, snapshot, condition) == {x \in Managed(want) : snapshot[want[x]] = condition}

(* missing-managed-entry, unexpected-managed-entry                          *)
MissingEntries(view, want) == Managed(want) \ Managed(view.entries)
ExpectedOnly(view, want) == {}  \* mutant: only desired links are looked for
UnexpectedEntries(view, want) == Managed(view.entries) \ Managed(want)

(* managed-link-wrong, managed-metadata-mismatch: compared only when the    *)
(* source could be read.                                                    *)
WrongEntries(view, want, cache, skill) ==
    {x \in Readable(want, cache, skill) \cap Managed(view.entries) : view.entries[x] # want[x]}

Invalid(view, want, cache, skill, snapshot) ==
    \/ RootMismatch(view, cache)
    \/ Unreadable(want, cache, skill) # {}
    \/ InSnapshots(want, snapshot, "malformed") # {}
Drift(view, want, cache, skill, snapshot) ==
    \/ Stale(want, cache, skill) # {} \/ InSnapshots(want, snapshot, "altered") # {}
    \/ MissingEntries(view, want) # {} \/ UnexpectedEntries(view, want) # {}
    \/ WrongEntries(view, want, cache, skill) # {}

Verdict(view, want, cache, skill, snapshot) ==
    CASE Invalid(view, want, cache, skill, snapshot) -> "invalid"
      [] /\ ~Invalid(view, want, cache, skill, snapshot)
         /\ Drift(view, want, cache, skill, snapshot) -> "drift"
      [] OTHER -> "converged"

(* verified_links = desired_links: of every desired link, of its source and *)
(* of its snapshot nothing is reported.                                     *)
AllVerified(view, want, cache, skill, snapshot) ==
    /\ ~RootMismatch(view, cache)
    /\ \A x \in Managed(want) :
          /\ x \in Readable(want, cache, skill) \cap Managed(view.entries)
          /\ x \notin Stale(want, cache, skill) \cup WrongEntries(view, want, cache, skill)
          /\ snapshot[want[x]] = "exact"

(* The verifier and the planner agree on one view, but for what only the    *)
(* verifier reads.                                                          *)
AsLocked(want, skill, snapshot) ==
    \A x \in Managed(want) : skill[want[x]] = "exact" /\ snapshot[want[x]] = "exact"
Damaged(want, skill, snapshot) ==
    \E x \in Managed(want) : "malformed" \in {skill[want[x]], snapshot[want[x]]}
Agree(view, want, cache, skill, snapshot) ==
    LET verdict == Verdict(view, want, cache, skill, snapshot) IN
    /\ verdict = "converged" <=>
          /\ ~Blocked(view, want, cache) /\ Mutations(view, want) = {}
          /\ AsLocked(want, skill, snapshot)
    /\ verdict = "invalid" => Blocked(view, want, cache) \/ Damaged(want, skill, snapshot)
    /\ verdict = "converged" => AllVerified(view, want, cache, skill, snapshot)
=============================================================================
