---------------------------- MODULE LockPipeline ----------------------------
(***************************************************************************)
(* `skillctl lock' and `skillctl update': resolve sources into the         *)
(* content-addressed cache, build an exact lock, publish it by one rename. *)
(*                                                                         *)
(* No lock file or flock serialises these commands: any number of them run *)
(* beside each other, beside people who push to upstream repositories or   *)
(* edit source directories, check out another lock, or empty the cache.    *)
(* One element of Commands is one invocation.  A revision stands for the   *)
(* tree it names (a commit, or the hash of a directory); its skills follow *)
(* from it.  Each command resolves its sources in order, one at a time.    *)
(***************************************************************************)
EXTENDS Naturals, FiniteSets

CONSTANTS
    Commands,    \* invocations of skillctl lock and skillctl update
    Sources,     \* configured sources
    SourceRank,  \* the order of source ids
    GitSources,  \* sources of type git; the others are directories
    Revisions,   \* trees
    Holds,       \* Holds[s]: those that source s may have
    Complete,    \* <<s, r>>: revision r of s has every skill the pool names
    Clashes,     \* sets of <<s, r>>: together they give some target two skills of one name
    FirstLocks,  \* locks that may be checked out at the start
    FirstCaches, \* caches that may be there at the start
    FaultPoints, MaxFaults,  \* where errors strike, and how many
    MaxMoves,    \* how often an upstream changes
    MaxEnv,      \* how often people touch the lock or the cache
    MaxCrashes,  \* how many commands are killed
    NoLock, NoRev, NoCommand

(* A cache entry holds the tree of some revision, or none, or one that is   *)
(* not what any command copied.                                             *)
Entry == Revisions \cup {"none", "deleted", "corrupt"}
Cache == [Sources -> [Revisions -> Entry]]
Lock == [by : Commands \cup {NoCommand}, rev : [Sources -> Revisions]]
Candidate == [Sources -> Revisions \cup {NoRev}]

ASSUME LockAssumption ==
    /\ SourceRank \in [Sources -> Nat]
    /\ \A s, u \in Sources : SourceRank[s] = SourceRank[u] => s = u
    /\ GitSources \subseteq Sources
    /\ Holds \in [Sources -> SUBSET Revisions]
    /\ Complete \subseteq Sources \X Revisions
    /\ Clashes \subseteq SUBSET (Sources \X Revisions) /\ {} \notin Clashes
    /\ FirstLocks \subseteq Lock \cup {NoLock}
    /\ FirstCaches \subseteq Cache
    /\ \A c \in FirstCaches : \A s \in Sources : \A r \in Revisions :
          c[s][r] \in Revisions => c[s][r] = r
    /\ \A l \in FirstLocks : l # NoLock => l.by = NoCommand
    /\ NoLock \notin Lock /\ NoRev \notin Revisions /\ NoCommand \notin Commands
    /\ Revisions \cap {"none", "deleted", "corrupt"} = {}
    /\ MaxFaults \in Nat /\ MaxMoves \in Nat /\ MaxEnv \in Nat /\ MaxCrashes \in Nat

VARIABLES
    up,        \* up[s]: what the source holds now
    cache,     \* cache[s][r]: the entry var/cache/sources/s/<hash>/r
    lock,      \* skill-lock.yaml: its bytes, and who made this file
    pc, kind, chosen, left,  \* control: step, command, its sources, those still to resolve
    reviewed,  \* reviewed[c][s]: the new revision that the proposal shows
    expected,  \* the revision being put into the cache
    staged,    \* the tree in the private staging directory
    cand,      \* candidate lock
    existing,  \* the lock as write_lock_atomic read it first
    outcome,
    faults, moves, envs, crashes

shared == <<up, cache, lock>>
control == <<pc, kind, chosen, left>>
work == <<reviewed, expected, staged, cand, existing>>
budget == <<faults, moves, envs, crashes>>
vars == <<shared, control, work, outcome, budget>>

Steps == {"idle", "check", "observe", "probe", "copy", "rename", "recheck", "bind",
          "read", "verify", "replace", "sync", "done"}

TypeOK ==
    /\ up \in [Sources -> Revisions] /\ cache \in Cache /\ lock \in Lock \cup {NoLock}
    /\ pc \in [Commands -> Steps] /\ kind \in [Commands -> {"none", "lock", "update"}]
    /\ chosen \in [Commands -> SUBSET Sources] /\ left \in [Commands -> SUBSET Sources]
    /\ reviewed \in [Commands -> Candidate] /\ cand \in [Commands -> Candidate]
    /\ expected \in [Commands -> Revisions \cup {NoRev}]
    /\ staged \in [Commands -> Revisions \cup {NoRev}]
    /\ existing \in [Commands -> Lock \cup {NoLock}]
    /\ outcome \in [Commands -> {"none", "ok", "blocked", "failed", "unsafe", "crashed"}]
    /\ faults \in Nat /\ moves \in Nat /\ envs \in Nat /\ crashes \in Nat

NoCandidate == [s \in Sources |-> NoRev]

Init ==
    /\ up \in [Sources -> Revisions] /\ \A s \in Sources : up[s] \in Holds[s]
    /\ cache \in FirstCaches /\ lock \in FirstLocks
    /\ pc = [c \in Commands |-> "idle"] /\ kind = [c \in Commands |-> "none"]
    /\ chosen = [c \in Commands |-> {}] /\ left = [c \in Commands |-> {}]
    /\ reviewed = [c \in Commands |-> NoCandidate]
    /\ expected = [c \in Commands |-> NoRev] /\ staged = [c \in Commands |-> NoRev]
    /\ cand = [c \in Commands |-> NoCandidate]
    /\ existing = [c \in Commands |-> NoLock]
    /\ outcome = [c \in Commands |-> "none"]
    /\ faults = 0 /\ moves = 0 /\ envs = 0 /\ crashes = 0

------------------------------------------------------------------------------
Goto(c, step) == pc' = [pc EXCEPT ![c] = step]
End(c, how) == Goto(c, "done") /\ outcome' = [outcome EXCEPT ![c] = how]
Fault(point) == point \in FaultPoints /\ faults < MaxFaults /\ faults' = faults + 1
Next1st(c, s) == s \in left[c] /\ \A u \in left[c] : SourceRank[s] <= SourceRank[u]

(* _require_complete_pool: every skill of the pool is in the locked sources. *)
Offered(rev) == {s \in Sources : rev[s] # NoRev /\ <<s, rev[s]>> \notin Complete} = {}

(* main, "lock": all sources, no old lock.                                  *)
BeginLock(c) ==
    /\ pc[c] = "idle"
    /\ kind' = [kind EXCEPT ![c] = "lock"]
    /\ chosen' = [chosen EXCEPT ![c] = Sources]
    /\ left' = [left EXCEPT ![c] = Sources]
    /\ Goto(c, "observe")
    /\ UNCHANGED <<shared, work, outcome, budget>>

(* resolve_desired_state: no target would link two skills of one name.      *)
Resolves(rev) == \A k \in Clashes : \E sr \in k : rev[sr[1]] # sr[2]

Updatable == lock # NoLock /\ Offered(lock.rev) /\ Resolves(lock.rev)

(* main, "update": one source or all of them; the old lock is loaded once,  *)
(* with the configuration, and is the candidate to begin with.              *)
BeginUpdate(c) ==
    /\ pc[c] = "idle"
    /\ kind' = [kind EXCEPT ![c] = "update"]
    /\ \E S \in {Sources} \cup {{s} : s \in Sources} :
          chosen' = [chosen EXCEPT ![c] = S] /\ left' = [left EXCEPT ![c] = S]
    /\ \/ /\ Updatable
          /\ cand' = [cand EXCEPT ![c] = lock.rev]
          /\ Goto(c, "check")
          /\ UNCHANGED outcome
       \/ /\ ~Updatable
          /\ End(c, "blocked")
          /\ UNCHANGED cand
    /\ UNCHANGED <<shared, reviewed, expected, staged, existing, budget>>

(* check_updates on one source: the revision that the proposal will show.   *)
CheckSource(c) ==
    /\ pc[c] = "check"
    /\ \E s \in Sources :
        /\ Next1st(c, s)
        /\ \/ /\ reviewed' = [reviewed EXCEPT ![c][s] = up[s]]
              /\ Goto(c, "observe")
              /\ UNCHANGED <<outcome, faults>>
           \/ Fault("check") /\ End(c, "blocked") /\ UNCHANGED reviewed
    /\ UNCHANGED <<shared, kind, chosen, left, expected, staged, cand, existing,
                   moves, envs, crashes>>

(* _resolve_git clones again and checks out the tracked ref, which an       *)
(* update replaces by the commit it has just seen; a commit that was pushed *)
(* away in between may be gone.  _resolve_filesystem hashes the directory.  *)
Exact(c, s) == s \in GitSources /\ kind[c] = "update"
Observe(c) ==
    /\ pc[c] = "observe"
    /\ \E s \in Sources :
        /\ Next1st(c, s)
        /\ \/ /\ expected' = [expected EXCEPT ![c] =
                    IF Exact(c, s) THEN reviewed[c][s] ELSE up[s]]
              /\ Goto(c, "probe")
              /\ UNCHANGED <<outcome, faults>>
           \/ /\ Exact(c, s) /\ up[s] # reviewed[c][s]
              /\ End(c, "blocked")
              /\ UNCHANGED <<expected, faults>>
           \/ Fault("source") /\ End(c, "blocked") /\ UNCHANGED expected
    /\ UNCHANGED <<shared, kind, chosen, left, reviewed, staged, cand, existing,
                   moves, envs, crashes>>

------------------------------------------------------------------------------
(* _existing_cache_entry: an entry counts only when its hash is right.      *)
Missing(entry) == entry \in {"none", "deleted"}
AnyEntry(entry, r) == ~Missing(entry)  \* mutant: the entry is not hashed again
EntryValid(entry, r) == entry = r

(* _cache_snapshot: use the entry that is there, or copy the source.        *)
Probe(c) ==
    /\ pc[c] = "probe"
    /\ \E s \in Sources :
        LET r == expected[c] entry == cache[s][r] IN
        /\ Next1st(c, s)
        /\ \/ EntryValid(entry, r) /\ Goto(c, "bind") /\ UNCHANGED outcome
           \/ Missing(entry) /\ Goto(c, "copy") /\ UNCHANGED outcome
           \/ ~EntryValid(entry, r) /\ ~Missing(entry) /\ End(c, "blocked")
    /\ UNCHANGED <<shared, kind, chosen, left, work, budget>>

(* A git checkout is private; a source directory is read once more, and may *)
(* have changed since it was hashed.                                        *)
CopyUnhashed(c, tree) == TRUE  \* mutant: the staged tree is not hashed
CopyMatches(c, tree) == tree = expected[c]
CopyTree(c) ==
    /\ pc[c] = "copy"
    /\ \E s \in Sources :
        LET tree == IF s \in GitSources THEN expected[c] ELSE up[s] IN
        /\ Next1st(c, s)
        /\ staged' = [staged EXCEPT ![c] = tree]
        /\ \/ CopyMatches(c, tree) /\ Goto(c, "rename") /\ UNCHANGED <<outcome, faults>>
           \/ ~CopyMatches(c, tree) /\ End(c, "blocked") /\ UNCHANGED faults
           \/ Fault("copy") /\ End(c, "blocked")
    /\ UNCHANGED <<shared, kind, chosen, left, reviewed, expected, cand, existing,
                   moves, envs, crashes>>

(* os.rename does not replace a directory that has entries: the loser of a  *)
(* race uses the winner's entry, if that one is valid.                      *)
RenameEntry(c) ==
    /\ pc[c] = "rename"
    /\ \E s \in Sources :
        LET r == expected[c] IN
        /\ Next1st(c, s)
        /\ \/ /\ Missing(cache[s][r])
              /\ cache' = [cache EXCEPT ![s][r] = staged[c]]
              /\ Goto(c, "recheck")
              /\ UNCHANGED outcome
              /\ UNCHANGED faults
           \/ /\ EntryValid(cache[s][r], r)
              /\ Goto(c, "recheck")
              /\ UNCHANGED <<cache, outcome, faults>>
           \/ /\ ~Missing(cache[s][r]) /\ ~EntryValid(cache[s][r], r)
              /\ End(c, "blocked")
              /\ UNCHANGED <<cache, faults>>
           \/ Fault("rename") /\ End(c, "blocked") /\ UNCHANGED cache
    /\ UNCHANGED <<up, lock, kind, chosen, left, work, moves, envs, crashes>>

RecheckEntry(c) ==
    /\ pc[c] = "recheck"
    /\ \E s \in Sources :
        /\ Next1st(c, s)
        /\ IF EntryValid(cache[s][expected[c]], expected[c])
           THEN Goto(c, "bind") /\ UNCHANGED outcome
           ELSE End(c, "blocked")
    /\ UNCHANGED <<shared, kind, chosen, left, work, budget>>

(* Open the entry, read its skills, and put the source into the candidate.  *)
(* An update refuses a revision other than the one it checked, and a        *)
(* candidate that cannot be applied: without some skill of the pool, or     *)
(* with two skills of one name in a target.  A lock checks only the pool,   *)
(* at the end, in build_lock.                                               *)
AnyRevision(c, s) == TRUE  \* mutant: the revision is not compared
AsReviewed(c, s) == kind[c] = "update" => expected[c] = reviewed[c][s]
AnyPool(c, rev) == TRUE  \* mutant: the pool is not checked
PoolServed(c, rev) == kind[c] = "update" \/ rev \in [Sources -> Revisions] => Offered(rev)
AnyNames(c, rev) == TRUE  \* mutant: a candidate is not resolved
NamesResolve(c, rev) == kind[c] = "update" => Resolves(rev)

StopsEarly(c, s) == TRUE  \* mutant: missing sources are not noticed
AllResolved(c, s) == left[c] = {s}

BindSource(c) ==
    /\ pc[c] = "bind"
    /\ \E s \in Sources :
        LET rev == [cand[c] EXCEPT ![s] = expected[c]] IN
        /\ Next1st(c, s)
        /\ \/ /\ ~Missing(cache[s][expected[c]])
              /\ AsReviewed(c, s) /\ PoolServed(c, rev) /\ NamesResolve(c, rev)
              /\ cand' = [cand EXCEPT ![c] = rev]
              /\ left' = [left EXCEPT ![c] = @ \ {s}]
              /\ Goto(c, IF AllResolved(c, s) THEN "read"
                         ELSE IF kind[c] = "update" THEN "check" ELSE "observe")
              /\ UNCHANGED outcome
           \/ /\ \/ Missing(cache[s][expected[c]])
                 \/ ~AsReviewed(c, s) \/ ~PoolServed(c, rev) \/ ~NamesResolve(c, rev)
              /\ End(c, "blocked")
              /\ UNCHANGED <<cand, left>>
    /\ UNCHANGED <<shared, kind, chosen, reviewed, expected, staged, existing, budget>>

------------------------------------------------------------------------------
(* write_lock_atomic: nothing to do for an equal lock, else stage the bytes *)
(* beside it ...  (A lock here is the file and its bytes: two commands that *)
(* publish the same bytes publish different files.)                         *)
Unchanged(c) == lock # NoLock /\ lock.rev = cand[c]
ReadPublic(c) ==
    /\ pc[c] = "read"
    /\ existing' = [existing EXCEPT ![c] = lock]
    /\ \/ Unchanged(c) /\ End(c, "ok") /\ UNCHANGED faults
       \/ ~Unchanged(c) /\ Goto(c, "verify") /\ UNCHANGED <<outcome, faults>>
       \/ Fault("stage") /\ End(c, "failed")
    /\ UNCHANGED <<shared, kind, chosen, left, reviewed, expected, staged, cand,
                   moves, envs, crashes>>

(* ... compare file and bytes with the first read ...                       *)
SamePublic(c) == lock = existing[c]
VerifyPublic(c) ==
    /\ pc[c] = "verify"
    /\ IF SamePublic(c) THEN Goto(c, "replace") /\ UNCHANGED outcome ELSE End(c, "failed")
    /\ UNCHANGED <<shared, kind, chosen, left, work, budget>>

(* ... and rename.  Nothing rolls this back.                                *)
ReplacePublic(c) ==
    /\ pc[c] = "replace"
    /\ \/ /\ lock' = [by |-> c, rev |-> cand[c]]
          /\ Goto(c, "sync")
          /\ UNCHANGED <<outcome, faults>>
       \/ Fault("replace") /\ End(c, "failed") /\ UNCHANGED lock
    /\ UNCHANGED <<up, cache, kind, chosen, left, work, moves, envs, crashes>>

(* The directory is synced; if that fails, what is public decides.          *)
AlwaysFailed(c) == "failed"  \* mutant: an error behind the rename is an error before it
NeverLooked(c) == "ok"  \* mutant: the public lock is not read again
PublicOutcome(c) == IF lock = [by |-> c, rev |-> cand[c]] THEN "ok" ELSE "unsafe"
SyncParent(c) ==
    /\ pc[c] = "sync"
    /\ \/ End(c, "ok") /\ UNCHANGED faults
       \/ Fault("sync") /\ End(c, PublicOutcome(c))
    /\ UNCHANGED <<shared, kind, chosen, left, work, moves, envs, crashes>>

------------------------------------------------------------------------------
(* SIGKILL: private staging is lost, public files stay as they are.         *)
Crash(c) ==
    /\ pc[c] \notin {"idle", "done"}
    /\ crashes < MaxCrashes
    /\ crashes' = crashes + 1
    /\ End(c, "crashed")
    /\ UNCHANGED <<shared, kind, chosen, left, work, faults, moves, envs>>

UpstreamMoves(s) ==
    /\ moves < MaxMoves
    /\ moves' = moves + 1
    /\ \E r \in Holds[s] \ {up[s]} : up' = [up EXCEPT ![s] = r]
    /\ UNCHANGED <<cache, lock, control, work, outcome, faults, envs, crashes>>

(* git checkout of a reviewed lock; rm -rf of ignored cache entries.        *)
UserStep ==
    /\ envs < MaxEnv
    /\ envs' = envs + 1
    /\ \/ \E l \in FirstLocks : l # lock /\ lock' = l /\ UNCHANGED cache
       \/ \E s \in Sources : \E r \in Revisions :
             /\ ~Missing(cache[s][r])
             /\ cache' = [cache EXCEPT ![s][r] = "deleted"]
             /\ UNCHANGED lock
    /\ UNCHANGED <<up, control, work, outcome, faults, moves, crashes>>

Step(c) ==
    \/ BeginLock(c) \/ BeginUpdate(c) \/ CheckSource(c) \/ Observe(c)
    \/ Probe(c) \/ CopyTree(c) \/ RenameEntry(c) \/ RecheckEntry(c) \/ BindSource(c)
    \/ ReadPublic(c) \/ VerifyPublic(c) \/ ReplacePublic(c) \/ SyncParent(c)
    \/ Crash(c)

Finished == (\A c \in Commands : pc[c] = "done") /\ UNCHANGED vars

Next ==
    \/ \E c \in Commands : Step(c)
    \/ \E s \in Sources : UpstreamMoves(s)
    \/ UserStep
    \/ Finished

Spec == Init /\ [][Next]_vars
=============================================================================
