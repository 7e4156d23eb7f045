----------------------------- MODULE LockProofs -----------------------------
(***************************************************************************)
(* An inductive invariant of LockPipeline, and what follows from it for    *)
(* any number of commands, sources, revisions, faults and user steps.      *)
(***************************************************************************)
EXTENDS LockProperties, TLAPS

Fetching == {"probe", "copy", "rename", "recheck", "bind"}
Publishing == {"read", "verify", "replace", "sync"}
Total(rev) == rev \in [Sources -> Revisions]

(* The sources that a command has resolved are in its candidate, as they   *)
(* were reviewed, and their snapshots are in the cache unless removed.     *)
Resolved(c) ==
    \A s \in chosen[c] \ left[c] :
        /\ cand[c][s] \in Revisions
        /\ cache[s][cand[c][s]] \in {cand[c][s], "deleted"}
        /\ kind[c] = "update" => cand[c][s] = reviewed[c][s]

(* The source that a command is at: what it knows at each step.            *)
AtHand(c) ==
    /\ pc[c] \in Fetching => expected[c] \in Revisions
    /\ pc[c] = "rename" => staged[c] = expected[c]
    /\ \A s \in Sources : Next1st(c, s) =>
          /\ pc[c] = "bind" => cache[s][expected[c]] \in {expected[c], "deleted"}
          /\ kind[c] = "update" /\ pc[c] = "observe" => reviewed[c][s] \in Revisions

(* The whole candidate.                                                    *)
Candidates(c) ==
    /\ left[c] \subseteq chosen[c]
    /\ kind[c] = "lock" => chosen[c] = Sources
    /\ pc[c] = "idle" => cand[c] = NoCandidate
    /\ kind[c] = "update" => Resolves(cand[c])
    /\ pc[c] \notin {"idle", "done"} => kind[c] # "none"
    /\ kind[c] = "update" /\ pc[c] \notin {"idle", "done"} =>
          Total(cand[c]) /\ Offered(cand[c])
    /\ pc[c] \in Publishing => left[c] = {} /\ Total(cand[c]) /\ Offered(cand[c])

Progress(c) == Resolved(c) /\ AtHand(c) /\ Candidates(c)

(* A public lock of a command is its candidate, and the command is over.   *)
Public ==
    lock # NoLock /\ lock.by # NoCommand =>
        /\ pc[lock.by] \in {"sync", "done"}
        /\ left[lock.by] = {}
        /\ lock.rev = cand[lock.by]
        /\ Offered(lock.rev)

LInv ==
    /\ TypeOK
    /\ ContentAddressed
    /\ \A c \in Commands : Progress(c)
    /\ Public

------------------------------------------------------------------------------
(* What a step of command c leaves alone: everything of other commands.    *)
Others(c) ==
    \A d \in Commands \ {c} :
        /\ pc'[d] = pc[d] /\ kind'[d] = kind[d]
        /\ chosen'[d] = chosen[d] /\ left'[d] = left[d]
        /\ reviewed'[d] = reviewed[d] /\ expected'[d] = expected[d]
        /\ staged'[d] = staged[d] /\ cand'[d] = cand[d]

(* How an entry may change: it is removed, or the right tree appears.      *)
CacheStep ==
    \A s \in Sources : \A r \in Revisions :
        \/ cache'[s][r] = cache[s][r]
        \/ cache'[s][r] = "deleted"
        \/ cache[s][r] \in {"none", "deleted"} /\ cache'[s][r] = r

(* A step of c that keeps all parts of the invariant for c itself.         *)
Keeps(c) ==
    /\ TypeOK'
    /\ CacheStep
    /\ Others(c)
    /\ Progress(c)'
    /\ Public'

(* The first source that is left is unique: source ids are totally ordered. *)
LEMMA FirstUnique ==
    ASSUME LockAssumption, NEW c \in Commands,
           NEW s \in Sources, NEW u \in Sources, Next1st(c, s), Next1st(c, u)
    PROVE  s = u
<1>1. SourceRank[s] \in Nat /\ SourceRank[u] \in Nat
  BY DEF LockAssumption
<1>2. SourceRank[s] <= SourceRank[u] /\ SourceRank[u] <= SourceRank[s]
  BY DEF Next1st
<1>3. SourceRank[s] = SourceRank[u]
  BY <1>1, <1>2
<1> QED
  BY <1>3 DEF LockAssumption

(* Content addressing survives every allowed change of the cache.          *)
LEMMA CacheStepSound ==
    ASSUME LockAssumption, ContentAddressed, CacheStep
    PROVE  ContentAddressed'
BY DEF LockAssumption, ContentAddressed, CacheStep

(* The parts of a command that does not move survive such a change, too.   *)
LEMMA Frame ==
    ASSUME LockAssumption, TypeOK, NEW d \in Commands, Progress(d), CacheStep,
           pc'[d] = pc[d], kind'[d] = kind[d], chosen'[d] = chosen[d], left'[d] = left[d],
           reviewed'[d] = reviewed[d], expected'[d] = expected[d],
           staged'[d] = staged[d], cand'[d] = cand[d]
    PROVE  Progress(d)'
<1>1. Resolved(d)'
  <2> SUFFICES ASSUME NEW s \in chosen[d] \ left[d]
               PROVE  cache'[s][cand[d][s]] \in {cand[d][s], "deleted"}
    BY DEF Progress, Resolved
  <2>1. s \in Sources /\ cand[d][s] \in Revisions
    BY DEF TypeOK, Progress, Resolved
  <2>2. cache[s][cand[d][s]] \in {cand[d][s], "deleted"}
    BY DEF Progress, Resolved
  <2> QED
    BY <2>1, <2>2 DEF CacheStep
<1>2. AtHand(d)'
  <2>1. ASSUME NEW s \in Sources, Next1st(d, s), pc[d] = "bind"
        PROVE  cache'[s][expected[d]] \in {expected[d], "deleted"}
    <3>1. expected[d] \in Revisions /\ cache[s][expected[d]] \in {expected[d], "deleted"}
      BY <2>1 DEF Progress, AtHand, Fetching
    <3> QED
      BY <3>1 DEF CacheStep
  <2>2. \A s \in Sources : Next1st(d, s)' <=> Next1st(d, s)
    BY DEF Next1st
  <2> QED
    BY <2>1, <2>2 DEF Progress, AtHand
<1>3. Candidates(d)'
  BY DEF Progress, Candidates, Total, Offered, Resolves
<1> QED
  BY <1>1, <1>2, <1>3 DEF Progress

(* So it is enough that a step keeps the parts of its own command.         *)
LEMMA KeepsAll ==
    ASSUME LockAssumption, LInv, NEW c \in Commands, Keeps(c)
    PROVE  LInv'
<1>1. ContentAddressed'
  BY CacheStepSound DEF LInv, Keeps
<1>2. ASSUME NEW d \in Commands PROVE Progress(d)'
  <2>1. CASE d = c
    BY <2>1 DEF Keeps
  <2>2. CASE d # c
    <3>1. Progress(d) /\ TypeOK /\ CacheStep
      BY DEF LInv, Keeps
    <3>2. /\ pc'[d] = pc[d] /\ kind'[d] = kind[d]
          /\ chosen'[d] = chosen[d] /\ left'[d] = left[d]
          /\ reviewed'[d] = reviewed[d] /\ expected'[d] = expected[d]
          /\ staged'[d] = staged[d] /\ cand'[d] = cand[d]
      BY <2>2 DEF Keeps, Others
    <3> QED
      BY <3>1, <3>2, Frame
  <2> QED
    BY <2>1, <2>2
<1> QED
  BY <1>1, <1>2 DEF LInv, Keeps

(* A lock that stays is still its command's candidate: either another      *)
(* command moves, or that command only ends.                               *)
LEMMA PublicStays ==
    ASSUME LockAssumption, TypeOK, Public, NEW c \in Commands, Others(c), lock' = lock,
           lock # NoLock /\ lock.by = c =>
               /\ pc'[c] \in {"sync", "done"}
               /\ left'[c] = left[c] /\ cand'[c] = cand[c]
    PROVE  Public'
<1> SUFFICES ASSUME lock # NoLock, lock.by # NoCommand
             PROVE  /\ pc'[lock.by] \in {"sync", "done"}
                    /\ left'[lock.by] = {}
                    /\ lock.rev = cand'[lock.by]
                    /\ Offered(lock.rev)
  BY DEF Public, Offered, Resolves
<1>1. lock.by \in Commands
  BY DEF TypeOK, Lock
<1>2. /\ pc[lock.by] \in {"sync", "done"}
      /\ left[lock.by] = {}
      /\ lock.rev = cand[lock.by]
      /\ Offered(lock.rev)
  BY DEF Public
<1>3. CASE lock.by = c
  BY <1>2, <1>3
<1>4. CASE lock.by # c
  BY <1>1, <1>2, <1>4 DEF Others
<1> QED
  BY <1>3, <1>4

------------------------------------------------------------------------------
(* The actions before the snapshot.                                        *)
LEMMA BeginLockKeeps ==
    ASSUME LockAssumption, LInv, NEW c \in Commands, BeginLock(c)
    PROVE  Keeps(c)
<1> USE DEF BeginLock, Goto, shared, work, budget, LInv
<1>1. TypeOK'
  BY DEF TypeOK, Steps
<1>2. CacheStep
  BY DEF CacheStep
<1>3. Others(c)
  BY DEF TypeOK, Others
<1>4. pc'[c] = "observe" /\ kind'[c] = "lock" /\ chosen'[c] = Sources /\ left'[c] = Sources
  BY DEF TypeOK
<1>5. Progress(c)'
  BY <1>4 DEF Progress, Resolved, AtHand, Candidates, Fetching, Publishing
<1>6. Public'
  <2>1. ~(lock # NoLock /\ lock.by = c)
    BY DEF Public, LockAssumption
  <2> QED
    BY <2>1, <1>3, PublicStays
<1> QED
  BY <1>1, <1>2, <1>3, <1>5, <1>6 DEF Keeps

(* A command that ends keeps what it knows.                                *)
LEMMA EndKeeps ==
    ASSUME LockAssumption, LInv, NEW c \in Commands, pc[c] \notin {"idle"},
           pc'[c] = "done", kind'[c] = kind[c], chosen'[c] = chosen[c], left'[c] = left[c],
           cand'[c] = cand[c], cache' = cache,
           \A s \in chosen[c] \ left[c] : reviewed'[c][s] = reviewed[c][s]
    PROVE  Progress(c)'
<1>1. Progress(c) /\ TypeOK
  BY DEF LInv
<1>2. Resolved(c)'
  BY <1>1 DEF Progress, Resolved
<1>3. AtHand(c)'
  BY <1>1 DEF Progress, AtHand, Fetching
<1>4. Candidates(c)'
  BY <1>1 DEF Progress, Candidates, Publishing
<1> QED
  BY <1>2, <1>3, <1>4 DEF Progress

(* A command that has resolved nothing has nothing that clashes.           *)
LEMMA NothingClashes == LockAssumption => Resolves(NoCandidate)
<1> SUFFICES ASSUME LockAssumption, NEW k \in Clashes
             PROVE  \E sr \in k : NoCandidate[sr[1]] # sr[2]
  BY DEF Resolves
<1>1. PICK sr : sr \in k
  BY DEF LockAssumption
<1>2. sr \in Sources \X Revisions
  BY <1>1 DEF LockAssumption
<1>3. sr[1] \in Sources /\ sr[2] \in Revisions
  BY <1>2
<1> QED
  BY <1>1, <1>3 DEF NoCandidate, LockAssumption

LEMMA BeginUpdateKeeps ==
    ASSUME LockAssumption, LInv, NEW c \in Commands, BeginUpdate(c)
    PROVE  Keeps(c)
<1> USE DEF BeginUpdate, Goto, End, Fault, shared, control, work, budget, LInv
<1>0. Progress(c)
  OBVIOUS
<1>01. cand' \in [Commands -> Candidate]
  <2>1. CASE Updatable /\ cand' = [cand EXCEPT ![c] = lock.rev]
    <3>1. lock.rev \in [Sources -> Revisions]
      BY <2>1 DEF Updatable, TypeOK, Lock
    <3>2. lock.rev \in Candidate
      BY <3>1 DEF Candidate
    <3> QED
      BY <2>1, <3>2 DEF TypeOK
  <2>2. CASE UNCHANGED cand
    BY <2>2 DEF TypeOK
  <2> QED
    BY <2>1, <2>2
<1>02. PICK S \in {Sources} \cup {{s} : s \in Sources} :
         chosen' = [chosen EXCEPT ![c] = S] /\ left' = [left EXCEPT ![c] = S]
  OBVIOUS
<1>03. outcome' \in [Commands -> {"none", "ok", "blocked", "failed", "unsafe", "crashed"}]
  BY DEF TypeOK
<1>04. pc' \in [Commands -> Steps]
  BY DEF TypeOK, Steps
<1>05. kind' \in [Commands -> {"none", "lock", "update"}]
  BY DEF TypeOK
<1>06. chosen' \in [Commands -> SUBSET Sources] /\ left' \in [Commands -> SUBSET Sources]
  BY <1>02 DEF TypeOK
<1>1. TypeOK'
  BY <1>01, <1>03, <1>04, <1>05, <1>06 DEF TypeOK, Steps
<1>2. CacheStep
  BY DEF CacheStep
<1>3. Others(c)
  BY DEF TypeOK, Others
<1>4. /\ kind'[c] = "update" /\ chosen'[c] = left'[c] /\ chosen'[c] \subseteq Sources
      /\ pc'[c] = "check" \/ pc'[c] = "done"
      /\ pc'[c] = "check" => Total(cand'[c]) /\ Offered(cand'[c])
  BY DEF TypeOK, Updatable, Lock, Total
<1>41. Resolves(cand'[c])
  <2>1. CASE Updatable /\ cand' = [cand EXCEPT ![c] = lock.rev]
    BY <2>1 DEF Updatable, TypeOK
  <2>2. CASE UNCHANGED cand
    <3>1. cand'[c] = NoCandidate
      BY <1>0, <2>2 DEF Progress, Candidates
    <3> QED
      BY <3>1, NothingClashes
  <2> QED
    BY <2>1, <2>2
<1>5. Progress(c)'
  BY <1>4, <1>41 DEF Progress, Resolved, AtHand, Candidates, Fetching, Publishing, Offered
<1>6. Public'
  <2>1. ~(lock # NoLock /\ lock.by = c)
    BY DEF Public, LockAssumption
  <2> QED
    BY <2>1, <1>3, PublicStays
<1> QED
  BY <1>1, <1>2, <1>3, <1>5, <1>6 DEF Keeps

LEMMA CheckSourceKeeps ==
    ASSUME LockAssumption, LInv, NEW c \in Commands, CheckSource(c)
    PROVE  Keeps(c)
<1> USE DEF CheckSource, Goto, End, Fault, shared, control, work, budget, LInv
<1>0. Progress(c)
  OBVIOUS
<1>01. reviewed' \in [Commands -> Candidate]
  <2>1. ASSUME NEW s \in Sources, reviewed' = [reviewed EXCEPT ![c][s] = up[s]]
        PROVE  reviewed' \in [Commands -> Candidate]
    <3>1. [reviewed[c] EXCEPT ![s] = up[s]] \in Candidate
      BY DEF TypeOK, Candidate
    <3> QED
      BY <2>1, <3>1 DEF TypeOK
  <2>2. CASE UNCHANGED reviewed
    BY <2>2 DEF TypeOK
  <2> QED
    BY <2>1, <2>2
<1>1. TypeOK'
  BY <1>01 DEF TypeOK, Steps
<1>2. CacheStep
  BY DEF CacheStep
<1>3. Others(c)
  BY DEF TypeOK, Others
<1>4. PICK s \in Sources :
        /\ Next1st(c, s)
        /\ \/ reviewed' = [reviewed EXCEPT ![c][s] = up[s]] /\ Goto(c, "observe")
           \/ End(c, "blocked") /\ UNCHANGED reviewed
  OBVIOUS
<1>5. Progress(c)'
  <2>1. CASE End(c, "blocked") /\ UNCHANGED reviewed
    BY <2>1, EndKeeps DEF TypeOK
  <2>2. CASE reviewed' = [reviewed EXCEPT ![c][s] = up[s]] /\ Goto(c, "observe")
    <3>1. /\ reviewed'[c][s] = up[s] /\ up[s] \in Revisions /\ pc'[c] = "observe"
          /\ \A u \in Sources \ {s} : reviewed'[c][u] = reviewed[c][u]
      BY <2>2 DEF TypeOK, Candidate
    <3>2. Resolved(c)'
      BY <1>0, <1>4, <3>1 DEF Progress, Resolved, Next1st, TypeOK
    <3>3. \A u \in Sources : Next1st(c, u)' => u = s
      BY <1>4, FirstUnique DEF Next1st
    <3>4. AtHand(c)'
      BY <3>1, <3>3 DEF AtHand, Fetching
    <3>5. Candidates(c)'
      BY <1>0, <3>1 DEF Progress, Candidates, Publishing, Total, Offered, Resolves
    <3> QED
      BY <3>2, <3>4, <3>5 DEF Progress
  <2> QED
    BY <1>4, <2>1, <2>2
<1>6. Public'
  <2>1. ~(lock # NoLock /\ lock.by = c)
    BY DEF Public, LockAssumption
  <2> QED
    BY <2>1, <1>3, PublicStays
<1> QED
  BY <1>1, <1>2, <1>3, <1>5, <1>6 DEF Keeps


------------------------------------------------------------------------------
(* The actions of the snapshot.                                            *)
(* A command that goes on with the source at hand keeps what it has resolved. *)
LEMMA GoesOn ==
    ASSUME LockAssumption, LInv, NEW c \in Commands, pc[c] \in {"observe"} \cup Fetching,
           pc'[c] \in Fetching, expected'[c] \in Revisions,
           kind'[c] = kind[c], chosen'[c] = chosen[c], left'[c] = left[c],
           cand'[c] = cand[c], reviewed'[c] = reviewed[c], CacheStep,
           pc'[c] = "rename" => staged'[c] = expected'[c],
           NEW s \in Sources, Next1st(c, s),
           pc'[c] = "bind" => cache'[s][expected'[c]] \in {expected'[c], "deleted"}
    PROVE  Progress(c)'
<1>1. Progress(c) /\ TypeOK
  BY DEF LInv
<1>2. Resolved(c)'
  <2> SUFFICES ASSUME NEW u \in chosen[c] \ left[c]
               PROVE  cache'[u][cand[c][u]] \in {cand[c][u], "deleted"}
    BY <1>1 DEF Progress, Resolved
  <2>1. u \in Sources /\ cand[c][u] \in Revisions
    BY <1>1 DEF TypeOK, Progress, Resolved
  <2>2. cache[u][cand[c][u]] \in {cand[c][u], "deleted"}
    BY <1>1 DEF Progress, Resolved
  <2> QED
    BY <2>1, <2>2 DEF CacheStep
<1>3. \A u \in Sources : Next1st(c, u)' => u = s
  BY FirstUnique DEF Next1st
<1>4. AtHand(c)'
  BY <1>3 DEF AtHand, Fetching
<1>5. Candidates(c)'
  BY <1>1 DEF Progress, Candidates, Fetching, Publishing, Total, Offered, Resolves
<1> QED
  BY <1>2, <1>4, <1>5 DEF Progress

LEMMA ObserveKeeps ==
    ASSUME LockAssumption, LInv, NEW c \in Commands, Observe(c)
    PROVE  Keeps(c)
<1> USE DEF Observe, Goto, End, Fault, shared, control, work, budget, LInv
<1>0. Progress(c)
  OBVIOUS
<1>01. expected' \in [Commands -> Revisions \cup {NoRev}]
  <2>1. ASSUME NEW s \in Sources, expected' = [expected EXCEPT ![c] =
                    IF Exact(c, s) THEN reviewed[c][s] ELSE up[s]]
        PROVE  expected' \in [Commands -> Revisions \cup {NoRev}]
    <3>1. reviewed[c][s] \in Revisions \cup {NoRev} /\ up[s] \in Revisions
      BY DEF TypeOK, Candidate
    <3> QED
      BY <2>1, <3>1 DEF TypeOK
  <2>2. CASE UNCHANGED expected
    BY <2>2 DEF TypeOK
  <2> QED
    BY <2>1, <2>2
<1>02. /\ pc' \in [Commands -> Steps] /\ faults' \in Nat
       /\ outcome' \in [Commands -> {"none", "ok", "blocked", "failed", "unsafe", "crashed"}]
  BY DEF TypeOK, Steps
<1>1. TypeOK'
  BY <1>01, <1>02 DEF TypeOK, Steps
<1>2. CacheStep
  BY DEF CacheStep
<1>3. Others(c)
  BY DEF TypeOK, Others
<1>4. PICK s \in Sources :
        /\ Next1st(c, s)
        /\ \/ /\ expected' = [expected EXCEPT ![c] =
                    IF Exact(c, s) THEN reviewed[c][s] ELSE up[s]]
              /\ Goto(c, "probe")
           \/ End(c, "blocked") /\ UNCHANGED expected
  OBVIOUS
<1>5. Progress(c)'
  <2>1. CASE End(c, "blocked") /\ UNCHANGED expected
    BY <2>1, EndKeeps DEF TypeOK
  <2>2. CASE /\ expected' = [expected EXCEPT ![c] =
                    IF Exact(c, s) THEN reviewed[c][s] ELSE up[s]]
             /\ Goto(c, "probe")
    <3>1. Exact(c, s) => reviewed[c][s] \in Revisions
      BY <1>0, <1>4 DEF Progress, AtHand, Exact
    <3>2. expected'[c] \in Revisions /\ pc'[c] = "probe"
      BY <2>2, <3>1 DEF TypeOK
    <3> QED
      BY <1>2, <1>4, <3>2, GoesOn DEF Fetching
  <2> QED
    BY <1>4, <2>1, <2>2
<1>6. Public'
  <2>1. ~(lock # NoLock /\ lock.by = c)
    BY DEF Public, LockAssumption
  <2> QED
    BY <2>1, <1>3, PublicStays
<1> QED
  BY <1>1, <1>2, <1>3, <1>5, <1>6 DEF Keeps

LEMMA ProbeKeeps ==
    ASSUME LockAssumption, LInv, NEW c \in Commands, Probe(c)
    PROVE  Keeps(c)
<1> USE DEF Probe, Goto, End, Fault, shared, control, work, budget, LInv
<1>0. Progress(c)
  OBVIOUS
<1>1. TypeOK'
  BY DEF TypeOK, Steps
<1>2. CacheStep
  BY DEF CacheStep
<1>3. Others(c)
  BY DEF TypeOK, Others
<1>5. Progress(c)'
  <2>1. CASE pc'[c] = "done"
    BY <2>1, EndKeeps DEF TypeOK
  <2>2. CASE pc'[c] # "done"
    <3>1. PICK s \in Sources :
            /\ Next1st(c, s)
            /\ \/ EntryValid(cache[s][expected[c]], expected[c]) /\ Goto(c, "bind")
               \/ Goto(c, "copy")
      BY <2>2 DEF TypeOK
    <3>2. expected'[c] \in Revisions /\ pc'[c] \in {"bind", "copy"}
      BY <1>0, <3>1 DEF Progress, AtHand, Fetching, TypeOK
    <3>3. pc'[c] = "bind" => cache'[s][expected'[c]] = expected'[c]
      BY <3>1 DEF TypeOK, EntryValid
    <3> QED
      BY <1>2, <3>1, <3>2, <3>3, GoesOn DEF Fetching
  <2> QED
    BY <2>1, <2>2
<1>6. Public'
  <2>1. ~(lock # NoLock /\ lock.by = c)
    BY DEF Public, LockAssumption
  <2> QED
    BY <2>1, <1>3, PublicStays
<1> QED
  BY <1>1, <1>2, <1>3, <1>5, <1>6 DEF Keeps

LEMMA CopyTreeKeeps ==
    ASSUME LockAssumption, LInv, NEW c \in Commands, CopyTree(c)
    PROVE  Keeps(c)
<1> USE DEF CopyTree, Goto, End, Fault, shared, control, work, budget, LInv
<1>0. Progress(c)
  OBVIOUS
<1>01. staged' \in [Commands -> Revisions \cup {NoRev}]
  BY DEF TypeOK
<1>02. /\ pc' \in [Commands -> Steps] /\ faults' \in Nat
       /\ outcome' \in [Commands -> {"none", "ok", "blocked", "failed", "unsafe", "crashed"}]
  BY DEF TypeOK, Steps
<1>1. TypeOK'
  BY <1>01, <1>02 DEF TypeOK, Steps
<1>2. CacheStep
  BY DEF CacheStep
<1>3. Others(c)
  BY DEF TypeOK, Others
<1>5. Progress(c)'
  <2>1. CASE pc'[c] = "done"
    BY <2>1, EndKeeps DEF TypeOK
  <2>2. CASE pc'[c] # "done"
    <3>1. PICK s \in Sources :
            /\ Next1st(c, s)
            /\ pc'[c] = "rename"
            /\ staged'[c] = expected[c]
      BY <2>2 DEF TypeOK, CopyMatches
    <3>2. expected'[c] \in Revisions
      BY <1>0 DEF Progress, AtHand, Fetching
    <3> QED
      BY <1>2, <3>1, <3>2, GoesOn DEF Fetching
  <2> QED
    BY <2>1, <2>2
<1>6. Public'
  <2>1. ~(lock # NoLock /\ lock.by = c)
    BY DEF Public, LockAssumption
  <2> QED
    BY <2>1, <1>3, PublicStays
<1> QED
  BY <1>1, <1>2, <1>3, <1>5, <1>6 DEF Keeps

LEMMA RenameEntryKeeps ==
    ASSUME LockAssumption, LInv, NEW c \in Commands, RenameEntry(c)
    PROVE  Keeps(c)
<1> USE DEF RenameEntry, Goto, End, Fault, shared, control, work, budget, LInv
<1>0. Progress(c)
  OBVIOUS
<1>01. cache' \in Cache
  <2>1. ASSUME NEW s \in Sources, cache' = [cache EXCEPT ![s][expected[c]] = staged[c]]
        PROVE  cache' \in Cache
    <3>1. staged[c] = expected[c] /\ expected[c] \in Revisions
      BY <1>0 DEF Progress, AtHand, Fetching
    <3>2. [cache[s] EXCEPT ![expected[c]] = staged[c]] \in [Revisions -> Entry]
      BY <3>1 DEF TypeOK, Cache, Entry
    <3> QED
      BY <2>1, <3>2 DEF TypeOK, Cache
  <2>2. CASE UNCHANGED cache
    BY <2>2 DEF TypeOK
  <2> QED
    BY <2>1, <2>2
<1>02. /\ pc' \in [Commands -> Steps] /\ faults' \in Nat
       /\ outcome' \in [Commands -> {"none", "ok", "blocked", "failed", "unsafe", "crashed"}]
  BY DEF TypeOK, Steps
<1>1. TypeOK'
  BY <1>01, <1>02 DEF TypeOK
<1>2. CacheStep
  <2>1. ASSUME NEW s \in Sources, Missing(cache[s][expected[c]]),
               cache' = [cache EXCEPT ![s][expected[c]] = staged[c]]
        PROVE  CacheStep
    <3>1. staged[c] = expected[c] /\ expected[c] \in Revisions
      BY <1>0 DEF Progress, AtHand, Fetching
    <3>2. /\ cache'[s][expected[c]] = expected[c]
          /\ \A r \in Revisions \ {expected[c]} : cache'[s][r] = cache[s][r]
          /\ \A u \in Sources \ {s} : cache'[u] = cache[u]
      BY <2>1, <3>1 DEF TypeOK, Cache
    <3> QED
      BY <2>1, <3>1, <3>2 DEF CacheStep, Missing
  <2>2. CASE UNCHANGED cache
    BY <2>2 DEF CacheStep
  <2> QED
    BY <2>1, <2>2
<1>3. Others(c)
  BY DEF TypeOK, Others
<1>5. Progress(c)'
  <2>1. CASE pc'[c] = "done"
    <3>1. UNCHANGED cache
      BY <2>1 DEF TypeOK
    <3> QED
      BY <2>1, <3>1, EndKeeps DEF TypeOK
  <2>2. CASE pc'[c] # "done"
    <3>1. PICK s \in Sources : Next1st(c, s) /\ pc'[c] = "recheck"
      BY <2>2 DEF TypeOK
    <3>2. expected'[c] \in Revisions
      BY <1>0 DEF Progress, AtHand, Fetching
    <3> QED
      BY <1>2, <3>1, <3>2, GoesOn DEF Fetching
  <2> QED
    BY <2>1, <2>2
<1>6. Public'
  <2>1. ~(lock # NoLock /\ lock.by = c)
    BY DEF Public, LockAssumption
  <2> QED
    BY <2>1, <1>3, PublicStays
<1> QED
  BY <1>1, <1>2, <1>3, <1>5, <1>6 DEF Keeps

LEMMA RecheckEntryKeeps ==
    ASSUME LockAssumption, LInv, NEW c \in Commands, RecheckEntry(c)
    PROVE  Keeps(c)
<1> USE DEF RecheckEntry, Goto, End, Fault, shared, control, work, budget, LInv
<1>0. Progress(c)
  OBVIOUS
<1>1. TypeOK'
  BY DEF TypeOK, Steps
<1>2. CacheStep
  BY DEF CacheStep
<1>3. Others(c)
  BY DEF TypeOK, Others
<1>5. Progress(c)'
  <2>1. CASE pc'[c] = "done"
    BY <2>1, EndKeeps DEF TypeOK
  <2>2. CASE pc'[c] # "done"
    <3>1. PICK s \in Sources :
            /\ Next1st(c, s)
            /\ pc'[c] = "bind"
            /\ EntryValid(cache[s][expected[c]], expected[c])
      BY <2>2 DEF TypeOK
    <3>2. expected'[c] \in Revisions
      BY <1>0 DEF Progress, AtHand, Fetching
    <3>3. cache'[s][expected'[c]] = expected'[c]
      BY <3>1 DEF EntryValid
    <3> QED
      BY <1>2, <3>1, <3>2, <3>3, GoesOn DEF Fetching
  <2> QED
    BY <2>1, <2>2
<1>6. Public'
  <2>1. ~(lock # NoLock /\ lock.by = c)
    BY DEF Public, LockAssumption
  <2> QED
    BY <2>1, <1>3, PublicStays
<1> QED
  BY <1>1, <1>2, <1>3, <1>5, <1>6 DEF Keeps

(* Binding adds one source to the candidate.                               *)
LEMMA BindSourceKeeps ==
    ASSUME LockAssumption, LInv, NEW c \in Commands, BindSource(c)
    PROVE  Keeps(c)
<1> USE DEF BindSource, Goto, End, shared, budget, LInv
<1>0. Progress(c) /\ TypeOK
  OBVIOUS
<1>01. expected[c] \in Revisions
  BY <1>0 DEF Progress, AtHand, Fetching
<1>02. cand' \in [Commands -> Candidate]
  <2>1. ASSUME NEW s \in Sources, cand' = [cand EXCEPT ![c] = [cand[c] EXCEPT ![s] = expected[c]]]
        PROVE  cand' \in [Commands -> Candidate]
    <3>1. [cand[c] EXCEPT ![s] = expected[c]] \in Candidate
      BY <1>01 DEF TypeOK, Candidate
    <3> QED
      BY <2>1, <3>1 DEF TypeOK
  <2>2. CASE UNCHANGED cand
    BY <2>2 DEF TypeOK
  <2> QED
    BY <2>1, <2>2
<1>03. /\ pc' \in [Commands -> Steps] /\ left' \in [Commands -> SUBSET Sources]
       /\ outcome' \in [Commands -> {"none", "ok", "blocked", "failed", "unsafe", "crashed"}]
  BY DEF TypeOK, Steps
<1>1. TypeOK'
  BY <1>02, <1>03 DEF TypeOK
<1>2. CacheStep
  BY DEF CacheStep
<1>3. Others(c)
  BY DEF TypeOK, Others
<1>5. Progress(c)'
  <2>1. CASE pc'[c] = "done"
    <3>1. UNCHANGED <<cand, left>>
      BY <2>1 DEF TypeOK
    <3> QED
      BY <2>1, <3>1, EndKeeps DEF TypeOK
  <2>2. CASE pc'[c] # "done"
    <3> DEFINE rev(s) == [cand[c] EXCEPT ![s] = expected[c]]
    <3>1. PICK s \in Sources :
            /\ Next1st(c, s)
            /\ ~Missing(cache[s][expected[c]])
            /\ AsReviewed(c, s) /\ PoolServed(c, rev(s)) /\ NamesResolve(c, rev(s))
            /\ cand' = [cand EXCEPT ![c] = rev(s)]
            /\ left' = [left EXCEPT ![c] = @ \ {s}]
            /\ pc' = [pc EXCEPT ![c] = IF AllResolved(c, s) THEN "read"
                                      ELSE IF kind[c] = "update" THEN "check" ELSE "observe"]
      BY <2>2 DEF TypeOK
    <3>2. /\ cand'[c] = rev(s) /\ cand'[c][s] = expected[c]
          /\ \A u \in Sources \ {s} : cand'[c][u] = cand[c][u]
          /\ left'[c] = left[c] \ {s}
          /\ pc'[c] = IF left[c] = {s} THEN "read"
                     ELSE IF kind[c] = "update" THEN "check" ELSE "observe"
      BY <3>1, <1>01 DEF TypeOK, Candidate, AllResolved
    <3>3. cache[s][expected[c]] \in {expected[c], "deleted"}
      BY <1>0, <3>1 DEF Progress, AtHand
    <3>4. Resolved(c)'
      <4> SUFFICES ASSUME NEW u \in chosen[c] \ left'[c]
                   PROVE  /\ cand'[c][u] \in Revisions
                          /\ cache[u][cand'[c][u]] \in {cand'[c][u], "deleted"}
                          /\ kind[c] = "update" => cand'[c][u] = reviewed[c][u]
        BY DEF Resolved
      <4>1. CASE u = s
        BY <1>01, <3>1, <3>2, <3>3, <4>1 DEF AsReviewed
      <4>2. CASE u # s
        <5>1. u \in chosen[c] \ left[c] /\ u \in Sources
          BY <3>2, <4>2 DEF TypeOK
        <5> QED
          BY <1>0, <3>2, <4>2, <5>1 DEF Progress, Resolved
      <4> QED
        BY <4>1, <4>2
    <3>5. AtHand(c)'
      BY <3>2 DEF AtHand, Fetching
    <3>6. Candidates(c)'
      <4>1. kind[c] = "update" => Total(rev(s)) /\ Offered(rev(s))
        BY <1>0, <1>01, <3>1 DEF Progress, Candidates, Total, PoolServed
      <4>2. ASSUME left[c] = {s}, kind[c] = "lock" PROVE Total(rev(s)) /\ Offered(rev(s))
        <5>1. ASSUME NEW u \in Sources PROVE rev(s)[u] \in Revisions
          <6>1. chosen[c] = Sources /\ left'[c] = {}
            BY <1>0, <3>2, <4>2 DEF Progress, Candidates
          <6>2. cand'[c][u] \in Revisions
            BY <3>4, <6>1 DEF Resolved
          <6> QED
            BY <3>2, <6>2
        <5>2. Total(rev(s))
          BY <5>1 DEF TypeOK, Candidate, Total
        <5> QED
          BY <3>1, <5>2 DEF PoolServed, Total
      <4>3. kind[c] \in {"lock", "update"}
        BY <1>0 DEF Progress, Candidates, TypeOK
      <4>5. left'[c] \subseteq chosen[c]
        BY <1>0, <3>2 DEF Progress, Candidates
      <4>6. pc'[c] \in Publishing => left'[c] = {} /\ Total(cand'[c]) /\ Offered(cand'[c])
        BY <3>2, <4>1, <4>2, <4>3 DEF Publishing
      <4>7. kind[c] = "update" => Total(cand'[c]) /\ Offered(cand'[c])
        BY <3>2, <4>1
      <4>8. kind[c] = "lock" => chosen[c] = Sources
        BY <1>0 DEF Progress, Candidates
      <4>9. kind[c] = "update" => Resolves(cand'[c])
        BY <3>1, <3>2 DEF NamesResolve
      <4> QED
        BY <3>2, <4>3, <4>5, <4>6, <4>7, <4>8, <4>9 DEF Candidates, Total, Offered, Resolves
    <3> QED
      BY <3>4, <3>5, <3>6 DEF Progress
  <2> QED
    BY <2>1, <2>2
<1>6. Public'
  <2>1. ~(lock # NoLock /\ lock.by = c)
    BY DEF Public, LockAssumption
  <2> QED
    BY <2>1, <1>3, PublicStays
<1> QED
  BY <1>1, <1>2, <1>3, <1>5, <1>6 DEF Keeps

------------------------------------------------------------------------------
(* The actions of the publication: the candidate stays as it is.           *)
LEMMA PublishingKeeps ==
    ASSUME LockAssumption, LInv, NEW c \in Commands, pc[c] \in Publishing,
           pc'[c] \in Publishing \cup {"done"},
           kind'[c] = kind[c], chosen'[c] = chosen[c], left'[c] = left[c],
           cand'[c] = cand[c], reviewed'[c] = reviewed[c], cache' = cache
    PROVE  Progress(c)'
<1>1. Progress(c) /\ TypeOK
  BY DEF LInv
<1>2. Resolved(c)'
  BY <1>1 DEF Progress, Resolved
<1>3. AtHand(c)'
  BY <1>1 DEF Progress, AtHand, Fetching, Publishing
<1>4. Candidates(c)'
  BY <1>1 DEF Progress, Candidates, Publishing, Total, Offered, Resolves
<1> QED
  BY <1>2, <1>3, <1>4 DEF Progress

LEMMA ReadPublicKeeps ==
    ASSUME LockAssumption, LInv, NEW c \in Commands, ReadPublic(c)
    PROVE  Keeps(c)
<1> USE DEF ReadPublic, Goto, End, Fault, shared, control, work, budget, LInv
<1>0. Progress(c)
  OBVIOUS
<1>1. TypeOK'
  BY DEF TypeOK, Steps
<1>2. CacheStep
  BY DEF CacheStep
<1>3. Others(c)
  BY DEF TypeOK, Others
<1>5. Progress(c)'
  BY PublishingKeeps DEF TypeOK, Publishing
<1>6. Public'
  <2>1. ~(lock # NoLock /\ lock.by = c)
    BY DEF Public, LockAssumption
  <2> QED
    BY <2>1, <1>3, PublicStays
<1> QED
  BY <1>1, <1>2, <1>3, <1>5, <1>6 DEF Keeps

LEMMA VerifyPublicKeeps ==
    ASSUME LockAssumption, LInv, NEW c \in Commands, VerifyPublic(c)
    PROVE  Keeps(c)
<1> USE DEF VerifyPublic, Goto, End, Fault, shared, control, work, budget, LInv
<1>0. Progress(c)
  OBVIOUS
<1>1. TypeOK'
  BY DEF TypeOK, Steps
<1>2. CacheStep
  BY DEF CacheStep
<1>3. Others(c)
  BY DEF TypeOK, Others
<1>5. Progress(c)'
  BY PublishingKeeps DEF TypeOK, Publishing
<1>6. Public'
  <2>1. ~(lock # NoLock /\ lock.by = c)
    BY DEF Public, LockAssumption
  <2> QED
    BY <2>1, <1>3, PublicStays
<1> QED
  BY <1>1, <1>2, <1>3, <1>5, <1>6 DEF Keeps

(* The rename makes the candidate public.                                  *)
LEMMA ReplacePublicKeeps ==
    ASSUME LockAssumption, LInv, NEW c \in Commands, ReplacePublic(c)
    PROVE  Keeps(c)
<1> USE DEF ReplacePublic, Goto, End, Fault, shared, control, work, budget, LInv
<1>0. Progress(c)
  OBVIOUS
<1>01. lock' \in Lock \cup {NoLock}
  <2>1. cand[c] \in [Sources -> Revisions]
    BY <1>0 DEF Progress, Candidates, Publishing, Total
  <2> QED
    BY <2>1 DEF TypeOK, Lock
<1>02. /\ pc' \in [Commands -> Steps] /\ faults' \in Nat
       /\ outcome' \in [Commands -> {"none", "ok", "blocked", "failed", "unsafe", "crashed"}]
  BY DEF TypeOK, Steps
<1>1. TypeOK'
  BY <1>01, <1>02 DEF TypeOK, Steps
<1>2. CacheStep
  BY DEF CacheStep
<1>3. Others(c)
  BY DEF TypeOK, Others
<1>5. Progress(c)'
  BY PublishingKeeps DEF TypeOK, Publishing
<1>6. Public'
  <2>1. CASE lock' = [by |-> c, rev |-> cand[c]] /\ pc'[c] = "sync"
    <3>1. left[c] = {} /\ Offered(cand[c])
      BY <1>0 DEF Progress, Candidates, Publishing
    <3>2. lock'.by = c /\ lock'.rev = cand'[c] /\ left'[c] = {} /\ Offered(lock'.rev)
      BY <2>1, <3>1
    <3> QED
      BY <2>1, <3>2 DEF Public, Offered, Resolves
  <2>2. CASE UNCHANGED lock
    <3>1. ~(lock # NoLock /\ lock.by = c)
      BY DEF Public, LockAssumption
    <3> QED
      BY <2>2, <3>1, <1>3, PublicStays
  <2>3. UNCHANGED lock \/ (lock' = [by |-> c, rev |-> cand[c]] /\ pc'[c] = "sync")
    BY DEF TypeOK
  <2> QED
    BY <2>1, <2>2, <2>3
<1> QED
  BY <1>1, <1>2, <1>3, <1>5, <1>6 DEF Keeps

LEMMA SyncParentKeeps ==
    ASSUME LockAssumption, LInv, NEW c \in Commands, SyncParent(c)
    PROVE  Keeps(c)
<1> USE DEF SyncParent, Goto, End, Fault, shared, control, work, budget, LInv
<1>0. Progress(c)
  OBVIOUS
<1>1. TypeOK'
  BY DEF TypeOK, Steps, PublicOutcome
<1>2. CacheStep
  BY DEF CacheStep
<1>3. Others(c)
  BY DEF TypeOK, Others
<1>5. Progress(c)'
  BY PublishingKeeps DEF TypeOK, Publishing
<1>6. Public'
  BY <1>3, PublicStays DEF TypeOK
<1> QED
  BY <1>1, <1>2, <1>3, <1>5, <1>6 DEF Keeps

LEMMA CrashKeeps ==
    ASSUME LockAssumption, LInv, NEW c \in Commands, Crash(c)
    PROVE  Keeps(c)
<1> USE DEF Crash, Goto, End, Fault, shared, control, work, budget, LInv
<1>0. Progress(c)
  OBVIOUS
<1>1. TypeOK'
  BY DEF TypeOK, Steps
<1>2. CacheStep
  BY DEF CacheStep
<1>3. Others(c)
  BY DEF TypeOK, Others
<1>5. Progress(c)'
  BY EndKeeps DEF TypeOK
<1>6. Public'
  BY <1>3, PublicStays DEF TypeOK
<1> QED
  BY <1>1, <1>2, <1>3, <1>5, <1>6 DEF Keeps

(* A user step: a lock from outside, or an entry that goes.                *)
LEMMA UserKeeps ==
    ASSUME LockAssumption, LInv, UserStep
    PROVE  LInv'
<1> USE DEF UserStep, control, work, LInv
<1>1. CacheStep /\ cache' \in Cache
  <2>1. ASSUME NEW s \in Sources, NEW r \in Revisions,
               cache' = [cache EXCEPT ![s][r] = "deleted"]
        PROVE  CacheStep /\ cache' \in Cache
    <3>1. [cache[s] EXCEPT ![r] = "deleted"] \in [Revisions -> Entry]
      BY DEF TypeOK, Cache, Entry
    <3>2. cache' \in Cache
      BY <2>1, <3>1 DEF TypeOK, Cache
    <3>3. /\ cache'[s][r] = "deleted"
          /\ \A q \in Revisions \ {r} : cache'[s][q] = cache[s][q]
          /\ \A u \in Sources \ {s} : cache'[u] = cache[u]
      BY <2>1 DEF TypeOK, Cache
    <3> QED
      BY <3>2, <3>3 DEF CacheStep
  <2>2. CASE UNCHANGED cache
    BY <2>2 DEF CacheStep, TypeOK
  <2> QED
    BY <2>1, <2>2
<1>2. lock' \in FirstLocks \/ UNCHANGED lock
  OBVIOUS
<1>3. lock' \in Lock \cup {NoLock}
  BY <1>2 DEF TypeOK, LockAssumption
<1>4. TypeOK'
  BY <1>1, <1>3 DEF TypeOK
<1>5. \A c \in Commands : Progress(c)'
  BY <1>1, Frame
<1>6. Public'
  <2>1. CASE lock' \in FirstLocks
    BY <2>1 DEF Public, LockAssumption
  <2>2. CASE UNCHANGED lock
    BY <2>2 DEF Public, Offered, Resolves
  <2> QED
    BY <1>2, <2>1, <2>2
<1> QED
  BY <1>1, <1>4, <1>5, <1>6, CacheStepSound

(* An upstream that moves, and a stuttering step.                          *)
LEMMA OutsideKeeps ==
    ASSUME LockAssumption, LInv, TypeOK', UNCHANGED <<cache, lock, control, work>>
    PROVE  LInv'
<1>1. CacheStep
  BY DEF CacheStep
<1>2. \A c \in Commands : Progress(c)'
  BY <1>1, Frame DEF control, work, LInv
<1>3. Public'
  BY DEF control, work, LInv, Public, Offered, Resolves
<1> QED
  BY <1>1, <1>2, <1>3, CacheStepSound DEF LInv

------------------------------------------------------------------------------
LEMMA LInvInit == LockAssumption /\ Init => LInv
<1> SUFFICES ASSUME LockAssumption, Init PROVE LInv
  OBVIOUS
<1>1. TypeOK
  BY DEF Init, TypeOK, LockAssumption, Steps, NoCandidate, Candidate
<1>2. ContentAddressed
  BY DEF Init, ContentAddressed, LockAssumption
<1>3. \A c \in Commands : Progress(c)
  BY DEF Init, Progress, Resolved, AtHand, Candidates, Fetching, Publishing
<1>4. Public
  BY DEF Init, Public, LockAssumption
<1> QED
  BY <1>1, <1>2, <1>3, <1>4 DEF LInv

LEMMA LInvNext == LockAssumption /\ LInv /\ [Next]_vars => LInv'
<1> SUFFICES ASSUME LockAssumption, LInv, [Next]_vars PROVE LInv'
  OBVIOUS
<1>1. ASSUME NEW c \in Commands, Step(c) PROVE LInv'
  <2>1. Keeps(c)
    BY <1>1, BeginLockKeeps, BeginUpdateKeeps, CheckSourceKeeps, ObserveKeeps, ProbeKeeps,
       CopyTreeKeeps, RenameEntryKeeps, RecheckEntryKeeps, BindSourceKeeps, ReadPublicKeeps,
       VerifyPublicKeeps, ReplacePublicKeeps, SyncParentKeeps, CrashKeeps DEF Step
  <2> QED
    BY <2>1, KeepsAll
<1>2. ASSUME NEW s \in Sources, UpstreamMoves(s) PROVE LInv'
  <2>1. TypeOK'
    BY <1>2 DEF UpstreamMoves, LInv, TypeOK, control, work
  <2> QED
    BY <1>2, <2>1, OutsideKeeps DEF UpstreamMoves
<1>3. CASE UserStep
  BY <1>3, UserKeeps
<1>4. CASE UNCHANGED vars
  <2>1. TypeOK'
    BY <1>4 DEF vars, shared, control, work, budget, LInv, TypeOK
  <2> QED
    BY <1>4, <2>1, OutsideKeeps DEF vars, shared
<1> QED
  BY <1>1, <1>2, <1>3, <1>4 DEF Next, Finished

(* The invariant holds in every behaviour, whatever the constants are.     *)
THEOREM LockInvariance == Spec => []LInv
<1>1. Init => LInv
  BY LInvInit, LockAssumption
<1>2. LInv /\ [Next]_vars => LInv'
  BY LInvNext, LockAssumption
<1> QED
  BY <1>1, <1>2, PTL DEF Spec

(* Type correctness of the lock and update commands.                       *)
THEOREM LockTypes == Spec => []TypeOK
<1>1. LInv => TypeOK
  BY DEF LInv
<1> QED
  BY <1>1, LockInvariance, PTL

(* The cache is content-addressed: no race of any number of commands, no   *)
(* moving source, error, kill or user puts a wrong tree under a name.      *)
THEOREM CacheIsContentAddressed == Spec => []ContentAddressed
<1>1. LInv => ContentAddressed
  BY DEF LInv
<1> QED
  BY <1>1, LockInvariance, PTL

(* Every revision that a command resolved for the lock it published is in  *)
(* the cache, unless somebody removed it.                                  *)
THEOREM LockedSnapshots == Spec => []LockedIsCached
<1>1. ASSUME LInv PROVE LockedIsCached
  <2> SUFFICES ASSUME lock # NoLock, lock.by # NoCommand, NEW s \in chosen[lock.by]
               PROVE  cache[s][lock.rev[s]] \in {lock.rev[s], "deleted"}
    BY DEF LockedIsCached
  <2>1. lock.by \in Commands
    BY <1>1 DEF LInv, TypeOK, Lock
  <2>2. left[lock.by] = {} /\ lock.rev = cand[lock.by]
    BY <1>1 DEF LInv, Public
  <2>3. Resolved(lock.by)
    BY <1>1, <2>1 DEF LInv, Progress
  <2> QED
    BY <2>2, <2>3 DEF Resolved
<1> QED
  BY <1>1, LockInvariance, PTL

(* What an update publishes is what it checked and what its proposal shows. *)
THEOREM ReviewedLocks == Spec => []ReviewedIsLocked
<1>1. ASSUME LInv PROVE ReviewedIsLocked
  <2> SUFFICES ASSUME lock # NoLock, lock.by # NoCommand, kind[lock.by] = "update",
                      NEW s \in chosen[lock.by]
               PROVE  lock.rev[s] = reviewed[lock.by][s]
    BY DEF ReviewedIsLocked
  <2>1. lock.by \in Commands
    BY <1>1 DEF LInv, TypeOK, Lock
  <2>2. left[lock.by] = {} /\ lock.rev = cand[lock.by]
    BY <1>1 DEF LInv, Public
  <2>3. Resolved(lock.by)
    BY <1>1, <2>1 DEF LInv, Progress
  <2> QED
    BY <2>2, <2>3 DEF Resolved
<1> QED
  BY <1>1, LockInvariance, PTL

(* Every lock that a command publishes serves the whole pool.              *)
THEOREM ServedPool == Spec => []LockServesPool
<1>1. ASSUME LInv PROVE LockServesPool
  BY <1>1 DEF LInv, Public, LockServesPool
<1> QED
  BY <1>1, LockInvariance, PTL

(* A lock that an update publishes gives no target two skills of one name. *)
THEOREM ResolvedUpdates == Spec => []UpdateResolves
<1>1. ASSUME LInv PROVE UpdateResolves
  <2> SUFFICES ASSUME lock # NoLock, lock.by # NoCommand, kind[lock.by] = "update"
               PROVE  Resolves(lock.rev)
    BY DEF UpdateResolves
  <2>1. lock.by \in Commands /\ lock.rev = cand[lock.by]
    BY <1>1 DEF LInv, TypeOK, Lock, Public
  <2>2. Candidates(lock.by)
    BY <1>1, <2>1 DEF LInv, Progress
  <2> QED
    BY <2>1, <2>2 DEF Candidates
<1> QED
  BY <1>1, LockInvariance, PTL

(* A step of command c ends no other command, and ends c as it should.     *)
Truthful(c) ==
    /\ \A d \in Commands \ {c} : outcome'[d] = outcome[d]
    /\ outcome'[c] # outcome[c] =>
          /\ outcome'[c] \in {"blocked", "failed"} => lock = NoLock \/ lock.by # c
          /\ outcome'[c] = "ok" /\ faults' # faults => lock # NoLock /\ lock.by = c

LEMMA StepsTruthful ==
    ASSUME LInv, NEW c \in Commands, Step(c)
    PROVE  Truthful(c)
<1> USE DEF LInv, Goto, End, Fault, budget
<1>1. lock # NoLock /\ lock.by = c => pc[c] \in {"sync", "done"}
  BY LockAssumption DEF Public
<1>2. CASE BeginLock(c) \/ BeginUpdate(c)
  BY <1>1, <1>2 DEF BeginLock, BeginUpdate, Truthful, TypeOK
<1>3. CASE CheckSource(c) \/ Observe(c)
  BY <1>1, <1>3 DEF CheckSource, Observe, Truthful, TypeOK
<1>4. CASE Probe(c)
  BY <1>1, <1>4 DEF Probe, Truthful, TypeOK
<1>5. CASE CopyTree(c)
  BY <1>1, <1>5 DEF CopyTree, Truthful, TypeOK
<1>6. CASE RenameEntry(c)
  BY <1>1, <1>6 DEF RenameEntry, Truthful, TypeOK
<1>7. CASE RecheckEntry(c) \/ BindSource(c)
  BY <1>1, <1>7 DEF RecheckEntry, BindSource, Truthful, TypeOK
<1>8. CASE ReadPublic(c) \/ VerifyPublic(c)
  BY <1>1, <1>8 DEF ReadPublic, VerifyPublic, Truthful, TypeOK
<1>9. CASE ReplacePublic(c)
  BY <1>1, <1>9 DEF ReplacePublic, Truthful, TypeOK
<1>10. CASE SyncParent(c)
  <2>1. outcome'[c] = "ok" /\ faults' # faults => lock = [by |-> c, rev |-> cand[c]]
    BY <1>10 DEF SyncParent, PublicOutcome, TypeOK
  <2>2. lock = [by |-> c, rev |-> cand[c]] => lock # NoLock
    <3>1. cand[c] \in [Sources -> Revisions]
      BY <1>10 DEF SyncParent, Progress, Candidates, Publishing, Total
    <3>2. [by |-> c, rev |-> cand[c]] \in Lock
      BY <3>1 DEF Lock
    <3> QED
      BY <3>2, LockAssumption
  <2>3. outcome'[c] \notin {"blocked", "failed"}
    BY <1>10 DEF SyncParent, PublicOutcome, TypeOK
  <2>4. \A d \in Commands \ {c} : outcome'[d] = outcome[d]
    BY <1>10 DEF SyncParent, TypeOK
  <2> QED
    BY <2>1, <2>2, <2>3, <2>4 DEF Truthful
<1>11. CASE Crash(c)
  BY <1>11 DEF Crash, Truthful, TypeOK
<1> QED
  BY <1>2, <1>3, <1>4, <1>5, <1>6, <1>7, <1>8, <1>9, <1>10, <1>11 DEF Step

(* No failure is reported by a command that has published, and no success  *)
(* after an error by one whose lock is not there.                          *)
THEOREM TruthfulOutcomes == Spec => OutcomeTruthful
<1>1. ASSUME LInv, [Next]_vars
      PROVE  [\A c \in Commands : outcome'[c] # outcome[c] =>
                /\ outcome'[c] \in {"blocked", "failed"} => lock = NoLock \/ lock.by # c
                /\ outcome'[c] = "ok" /\ faults' # faults => lock.by = c]_vars
  <2> SUFFICES ASSUME Next, NEW c \in Commands, outcome'[c] # outcome[c]
               PROVE  /\ outcome'[c] \in {"blocked", "failed"} => lock = NoLock \/ lock.by # c
                      /\ outcome'[c] = "ok" /\ faults' # faults => lock.by = c
    BY <1>1
  <2>1. PICK d \in Commands : Step(d)
    BY DEF Next, UpstreamMoves, UserStep, Finished, vars
  <2> QED
    BY <1>1, <2>1, StepsTruthful DEF Truthful
<1> QED
  BY <1>1, LockInvariance, PTL DEF Spec, OutcomeTruthful
=============================================================================
