--------------------------- MODULE RefinementProofs ---------------------------
(***************************************************************************)
(* apply_plan implements RecordLedger: for any number of runs, targets and *)
(* errors, what runs do to the manager records is what atomic, conditional *)
(* updates of several targets would do.  LInv says which old records a run *)
(* has in mind, and when they are those that its plan was built on.        *)
(***************************************************************************)
EXTENDS ReconcilerProofs

(* Roots that exist stay what they are when nobody interferes.              *)
LEMMA RootsStayStep ==
    ASSUME IInv, RootsStay, Sheltered, NEW p \in Applies, Begin(p) \/ Step(p) \/ Crash(p)
    PROVE  RootsStay' /\ at' = at
<1> USE DEF IInv, TypeOK, TypeOfHandles, TypeOfDisk
<1>1. \A t \in Targets : at[t] # NoInode /\ ~Removable(p, t)
  BY DEF RootsStay, Removable
<1>2. at' = at
  <2>1. CASE MakeRoot(p)
    BY <1>1, <2>1 DEF MakeRoot
  <2>2. CASE Unchain(p) \/ Report(p)
    BY <1>1, <2>2 DEF Unchain, Report, Vanishes
  <2>3. CASE ~(MakeRoot(p) \/ Unchain(p) \/ Report(p))
    BY <2>3 DEF Step, Begin, ReadRecord, WalkTree, BuildPlan, LookAtRoot, OpenRoot, LockRoot,
       LockExpires, OpenNamespace, Abandon, InitMetadata, Validate, Stage, Promote, MoveAside,
       Install, CleanStaging, Publish, DropBackup, Settle, Undo, PutBackup, RestoreMetadata,
       Discard, Prune, Release, Crash, disk
  <2> QED
    BY <2>1, <2>2, <2>3
<1>3. \A q \in Applies : \A t \in Targets : made'[q][t] = NoInode
  <2>1. \/ made' = made
        \/ \E t : made' = [made EXCEPT ![p][t] = NoInode]
        \/ made' = [made EXCEPT ![p] = [t \in Targets |-> NoInode]]
    <3>1. CASE MakeRoot(p)
      BY <1>1, <3>1 DEF MakeRoot
    <3>2. CASE Unchain(p)
      BY <3>2 DEF Unchain
    <3>3. CASE Release(p)
      BY <3>3 DEF Release, handles
    <3>4. CASE Crash(p)
      BY <3>4 DEF Crash
    <3>5. CASE ~(MakeRoot(p) \/ Unchain(p) \/ Release(p) \/ Crash(p))
      BY <3>5 DEF Step, Begin, ReadRecord, WalkTree, BuildPlan, LookAtRoot, OpenRoot, LockRoot,
         LockExpires, OpenNamespace, Abandon, InitMetadata, Validate, Stage, Promote, MoveAside,
         Install, CleanStaging, Publish, DropBackup, Settle, Undo, PutBackup, RestoreMetadata,
         Discard, Prune, Report, handles
    <3> QED
      BY <3>1, <3>2, <3>3, <3>4, <3>5
  <2> QED
    BY <2>1 DEF RootsStay
<1>4. \A q \in Applies : \A t \in Targets : fd'[q][t] \in {NoInode, at[t]}
  <2>1. \/ fd' = fd
        \/ \E t \in Targets : \/ fd' = [fd EXCEPT ![p][t] = at[t]]
                              \/ fd' = [fd EXCEPT ![p][t] = NoInode]
        \/ fd' = [fd EXCEPT ![p] = [t \in Targets |-> NoInode]]
    <3>1. CASE OpenRoot(p)
      BY <3>1 DEF OpenRoot
    <3>2. CASE Abandon(p)
      BY <3>2 DEF Abandon
    <3>3. CASE Release(p)
      BY <3>3 DEF Release, handles
    <3>4. CASE Crash(p)
      BY <3>4 DEF Crash
    <3>5. CASE ~(OpenRoot(p) \/ Abandon(p) \/ Release(p) \/ Crash(p))
      BY <3>5 DEF Step, Begin, ReadRecord, WalkTree, BuildPlan, LookAtRoot, MakeRoot, LockRoot,
         LockExpires, OpenNamespace, Unchain, InitMetadata, Validate, Stage, Promote, MoveAside,
         Install, CleanStaging, Publish, DropBackup, Settle, Undo, PutBackup, RestoreMetadata,
         Discard, Prune, Report, handles
    <3> QED
      BY <3>1, <3>2, <3>3, <3>4, <3>5
  <2>2. ASSUME NEW q \in Applies, NEW t \in Targets PROVE fd[q][t] \in {NoInode, at[t]}
    BY DEF RootsStay
  <2>3. CASE fd' = fd
    BY <2>2, <2>3
  <2>4. CASE \E t \in Targets : \E i \in {NoInode, at[t]} : fd' = [fd EXCEPT ![p][t] = i]
    BY <2>2, <2>4
  <2>5. CASE fd' = [fd EXCEPT ![p] = [t \in Targets |-> NoInode]]
    BY <2>2, <2>5
  <2> QED
    BY <2>1, <2>3, <2>4, <2>5
<1> QED
  BY <1>2, <1>3, <1>4 DEF RootsStay

(* A run keeps to its course: it fails before its last record is published, *)
(* and settles afterwards.                                                  *)
LEMMA FailCourse ==
    ASSUME IInv, NEW p \in Applies, Fail(p), phase' = phase,
           pc[p] \in Early \cup Promoting \cup {"drop"}, Course(p)
    PROVE  Course(p)'
<1> USE DEF IInv, TypeOK, TypeOfControl
<1>1. CASE pc[p] = "drop"
  <2>1. phase[p] = "committed" /\ pc'[p] = "settle" /\ outcome'[p] = "committed"
    BY <1>1 DEF Course, Fail, Goto
  <2> QED
    BY <2>1 DEF Course, Early, Preparing, Promoting
<1>2. CASE pc[p] # "drop"
  <2>1. phase[p] # "committed" /\ pc'[p] = "undo" /\ outcome'[p] = "failed"
    BY <1>2 DEF Course, Fail, Goto, Early, Promoting
  <2> QED
    BY <2>1 DEF Course, RolledBack, Early, Preparing, Promoting
<1> QED
  BY <1>1, <1>2

LEMMA ScanCourse ==
    ASSUME IInv, NEW p \in Applies, Course(p),
           Begin(p) \/ ReadRecord(p) \/ WalkTree(p) \/ BuildPlan(p)
    PROVE  Course(p)'
<1> USE DEF IInv, TypeOK, TypeOfControl
<1>1. pc[p] \in {"idle", "scan", "walk", "plan"} /\ phase' = phase
  BY DEF Begin, ReadRecord, WalkTree, BuildPlan
<1>2. \/ pc'[p] \in {"scan", "walk", "plan", "root"} /\ outcome' = outcome
      \/ pc'[p] = "done"
  BY DEF Begin, ReadRecord, WalkTree, BuildPlan, Loop, Goto, Leave
<1> QED
  BY <1>1, <1>2 DEF Course, Early, Preparing, Promoting

LEMMA WorkCourse ==
    ASSUME IInv, NEW p \in Applies, Course(p),
           \/ LookAtRoot(p) \/ MakeRoot(p) \/ OpenRoot(p) \/ LockRoot(p) \/ LockExpires(p)
           \/ OpenNamespace(p) \/ Abandon(p) \/ Unchain(p) \/ InitMetadata(p) \/ Validate(p)
           \/ Stage(p) \/ Promote(p) \/ MoveAside(p) \/ Install(p) \/ CleanStaging(p)
    PROVE  Course(p)'
<1> USE DEF IInv, TypeOK, TypeOfControl
<1> DEFINE Failing == Fail(p) /\ phase' = phase
           Going == /\ pc'[p] \in Early \cup Promoting /\ outcome' = outcome
                    /\ phase'[p] \in {phase[p], "validation", "staging", "promotion", "cleanup",
                                     "publication"}
<1>1. pc[p] \in Early \cup Promoting
  BY DEF LookAtRoot, MakeRoot, OpenRoot, LockRoot, LockExpires, OpenNamespace, Abandon, Unchain,
     InitMetadata, Validate, Stage, Promote, MoveAside, Install, CleanStaging, Early, Preparing,
     Promoting
<1>2. Failing \/ Going
  <2>1. CASE \/ LookAtRoot(p) \/ MakeRoot(p) \/ OpenRoot(p) \/ LockRoot(p) \/ LockExpires(p)
             \/ OpenNamespace(p) \/ Abandon(p) \/ Unchain(p)
    BY <2>1 DEF LookAtRoot, MakeRoot, OpenRoot, LockRoot, LockExpires, OpenNamespace, Abandon,
       Unchain, Goto, Early, Preparing
  <2>2. CASE InitMetadata(p)
    <3>1. PICK t \in Targets :
             \/ Failing
             \/ /\ Loop(p, t, "root", "validate", locked[p]) /\ outcome' = outcome
                /\ \E new \in {phase[p], "validation"} : phase' = [phase EXCEPT ![p] = new]
             \/ /\ left[p] = {t} /\ ~Verified(p) /\ Fail(p)
                /\ phase' = [phase EXCEPT ![p] = phase[p]]
      BY <2>2 DEF InitMetadata
    <3> QED
      BY <3>1 DEF Loop, Goto, Early, Preparing
  <2>3. CASE Validate(p)
    BY <2>3 DEF Validate, Loop, Goto, Early, Promoting
  <2>4. CASE Stage(p)
    BY <2>4 DEF Stage, Goto, Promoting
  <2>5. CASE Promote(p)
    BY <2>5 DEF Promote, Goto, Promoting
  <2>6. CASE MoveAside(p) \/ Install(p)
    <3>1. PICK o : \/ Journaled(p, o)
                   \/ Failing
                   \/ Goto(p, "install") /\ phase' = phase /\ outcome' = outcome
      BY <2>6 DEF MoveAside, Install, PutAside, PutLink, PutNoLink
    <3> QED
      BY <3>1 DEF Journaled, Goto, Promoting
  <2>7. CASE CleanStaging(p)
    BY <2>7 DEF CleanStaging, Goto, Promoting
  <2> QED
    BY <2>1, <2>2, <2>3, <2>4, <2>5, <2>6, <2>7
<1>3. CASE Failing
  BY <1>1, <1>3, FailCourse
<1>4. CASE Going
  BY <1>1, <1>4 DEF Course, Early, Preparing, Promoting
<1> QED
  BY <1>2, <1>3, <1>4

LEMMA PublishCourse ==
    ASSUME IInv, NEW p \in Applies, Course(p), Publish(p) \/ DropBackup(p)
    PROVE  Course(p)'
<1> USE DEF IInv, TypeOK, TypeOfControl
<1>1. CASE Publish(p)
  <2>1. pc[p] = "publish" /\ outcome[p] = "none" /\ phase[p] # "committed"
    BY <1>1 DEF Publish, Course, Promoting
  <2>2. \/ Fail(p) /\ phase' = phase
        \/ pc'[p] = "publish" /\ phase'[p] = phase[p] /\ outcome' = outcome
        \/ pc'[p] = "drop" /\ phase'[p] = "committed" /\ outcome' = outcome
    BY <1>1 DEF Publish, Loop, Goto
  <2>3. CASE Fail(p) /\ phase' = phase
    BY <2>1, <2>3, FailCourse DEF Promoting
  <2> QED
    BY <2>1, <2>2, <2>3 DEF Course, Early, Preparing, Promoting
<1>2. CASE DropBackup(p)
  <2>1. pc[p] = "drop" /\ outcome[p] = "none" /\ phase[p] = "committed" /\ phase' = phase
    BY <1>2 DEF DropBackup, Course
  <2>2. \/ Fail(p)
        \/ pc'[p] = "drop" /\ outcome'[p] = outcome[p]
        \/ pc'[p] = "release" /\ outcome'[p] = "ok"
    BY <1>2 DEF DropBackup, Loop, Goto
  <2>3. CASE Fail(p)
    BY <2>1, <2>3, FailCourse
  <2> QED
    BY <2>1, <2>2, <2>3 DEF Course, Settled, Early, Preparing, Promoting
<1> QED
  BY <1>1, <1>2

LEMMA EndCourse ==
    ASSUME IInv, NEW p \in Applies, Course(p),
           \/ Settle(p) \/ Undo(p) \/ PutBackup(p) \/ RestoreMetadata(p) \/ Discard(p)
           \/ Prune(p) \/ Report(p) \/ Release(p) \/ Crash(p)
    PROVE  Course(p)'
<1> USE DEF IInv, TypeOK, TypeOfControl
<1>1. CASE Settle(p)
  <2>1. /\ pc[p] = "settle" /\ phase' = phase /\ outcome' = outcome
        /\ pc'[p] \in {"settle", "release"}
    BY <1>1 DEF Settle, Loop, Goto
  <2> QED
    BY <2>1 DEF Course, Settled, Early, Preparing, Promoting
<1>2. CASE Undo(p) \/ PutBackup(p) \/ RestoreMetadata(p) \/ Discard(p) \/ Prune(p) \/ Report(p)
  <2>1. /\ pc[p] \in {"undo", "putback", "restore", "discard", "prune", "report"}
        /\ phase' = phase /\ outcome' = outcome
    BY <1>2 DEF Undo, PutBackup, RestoreMetadata, Discard, Prune, Report
  <2>2. pc'[p] \in {"undo", "putback", "restore", "discard", "prune", "report", "release"}
    BY <1>2 DEF Undo, PutBackup, RestoreMetadata, Discard, Prune, Report, Loop, Goto
  <2> QED
    BY <2>1, <2>2 DEF Course, RolledBack, Early, Preparing, Promoting
<1>3. CASE Release(p)
  <2>1. pc[p] = "release" /\ outcome' = outcome
    BY <1>3 DEF Release
  <2>2. \/ pc'[p] = "release" /\ phase' = phase
        \/ pc'[p] = "done" /\ phase'[p] = "locking"
    BY <1>3 DEF Release, Goto, Reset
  <2> QED
    BY <2>1, <2>2 DEF Course, RolledBack, Settled, Early, Preparing, Promoting
<1>4. CASE Crash(p)
  <2>1. pc'[p] = "done" /\ phase'[p] = "locking"
    BY <1>4 DEF Crash, Goto, Reset
  <2> QED
    BY <2>1 DEF Course, Early, Preparing, Promoting
<1> QED
  BY <1>1, <1>2, <1>3, <1>4

LEMMA CourseStep ==
    ASSUME IInv, NEW p \in Applies, Course(p), Begin(p) \/ Step(p) \/ Crash(p)
    PROVE  Course(p)'
BY ScanCourse, WorkCourse, PublishCourse, EndCourse DEF Step

(* The phase and the outcome of a run are its own as well.                  *)
LEMMA OthersCourse ==
    ASSUME IInv, NEW p \in Applies, Begin(p) \/ Step(p) \/ Crash(p)
    PROVE  \A q \in Applies \ {p} : phase'[q] = phase[q] /\ outcome'[q] = outcome[q]
<1> USE DEF IInv, TypeOK, TypeOfControl
<1>1. \/ phase' = phase \/ \E new : phase' = [phase EXCEPT ![p] = new]
  BY DEF Step, Begin, ReadRecord, WalkTree, BuildPlan, LookAtRoot, MakeRoot, OpenRoot, LockRoot,
     LockExpires, OpenNamespace, Abandon, Unchain, InitMetadata, Validate, Stage, Promote, MoveAside,
     Install, PutAside, PutLink, PutNoLink, Journaled, CleanStaging, Publish, DropBackup, Settle,
     Undo, PutBackup, RestoreMetadata, Discard, Prune, Report, Release, Crash, Reset
<1>2. \/ outcome' = outcome \/ \E new : outcome' = [outcome EXCEPT ![p] = new]
  BY DEF Step, Begin, ReadRecord, WalkTree, BuildPlan, LookAtRoot, MakeRoot, OpenRoot, LockRoot,
     LockExpires, OpenNamespace, Abandon, Unchain, InitMetadata, Validate, Stage, Promote, MoveAside,
     Install, PutAside, PutLink, PutNoLink, Journaled, CleanStaging, Publish, DropBackup, Settle,
     Undo, PutBackup, RestoreMetadata, Discard, Prune, Report, Release, Crash, Fail, Leave
<1> QED
  BY <1>1, <1>2

------------------------------------------------------------------------------
(* What a run knows of old records, again of the other runs first.          *)
LEMMA OthersOld ==
    ASSUME IInv, NEW p \in Applies, OthersUntouched(p), OwnRootsOnly(p),
           NEW q \in Applies \ {p}, outcome'[q] = outcome[q], OldRecords(q)
    PROVE  OldRecords(q)'
<1>1. /\ pc'[q] = pc[q] /\ left'[q] = left[q] /\ sel'[q] = sel[q]
      /\ want'[q] = want[q] /\ seen'[q] = seen[q]
      /\ fd'[q] = fd[q] /\ locked'[q] = locked[q]
      /\ fresh'[q] = fresh[q] /\ prev'[q] = prev[q]
  BY DEF OthersUntouched
<1>2. \A t \in locked[q] : ns'[fd[q][t]] = ns[fd[q][t]]
  BY DEF OwnRootsOnly, IInv, LocksHeld, LocksHeldBy, Holds
<1>3. \A t \in locked[q] : Rec(q, t)' = Rec(q, t)
  BY <1>1, <1>2 DEF Rec
<1>4. /\ Taken(q)' = Taken(q) /\ Taken(q) \subseteq locked[q]
      /\ Checked(q)' = Checked(q) /\ Checked(q) \subseteq locked[q]
      /\ Replaced(q)' = Replaced(q) /\ Replaced(q) \subseteq locked[q]
      /\ PutBackOnes(q)' = PutBackOnes(q) /\ PutBackOnes(q) \subseteq locked[q]
  BY <1>1 DEF Taken, First, Checked, Replaced, PutBackOnes
<1>5. \A t : SeenRecord(q, t)' = SeenRecord(q, t) /\ Published(q, t)' = Published(q, t)
  BY <1>1 DEF SeenRecord, Published
<1> QED
  BY <1>1, <1>3, <1>4, <1>5 DEF OldRecords

LEMMA NothingLocked ==
    ASSUME NEW p \in Applies, locked'[p] = {} PROVE OldRecords(p)'
BY DEF OldRecords, Taken, Checked, Replaced, PutBackOnes

(* A run that locks no target and touches no record knows what it knew.     *)
LEMMA SameOld ==
    ASSUME IInv, NEW p \in Applies, OldRecords(p),
           locked'[p] = locked[p], sel'[p] = sel[p], seen'[p] = seen[p], want'[p] = want[p],
           fresh'[p] = fresh[p], prev'[p] = prev[p],
           \A t \in locked[p] : Rec(p, t)' = Rec(p, t),
           pc[p] # "init", pc'[p] \in Early => pc[p] \in Early, pc'[p] # "init",
           Checked(p)' \subseteq Checked(p), Replaced(p)' \subseteq Replaced(p),
           PutBackOnes(p)' \subseteq PutBackOnes(p)
    PROVE  OldRecords(p)'
<1>1. Taken(p) = locked[p] /\ Taken(p)' = locked[p]
  BY DEF Taken
<1>2. /\ Checked(p) \subseteq locked[p] /\ Replaced(p) \subseteq locked[p]
      /\ PutBackOnes(p) \subseteq locked[p]
  BY DEF Checked, Replaced, PutBackOnes
<1>3. \A t : SeenRecord(p, t)' = SeenRecord(p, t) /\ Published(p, t)' = Published(p, t)
  BY DEF SeenRecord, Published
<1> QED
  BY <1>1, <1>2, <1>3 DEF OldRecords

LEMMA PrepareOld ==
    ASSUME IInv, RInv, NEW p \in Applies, OldRecords(p),
           \/ LookAtRoot(p) \/ MakeRoot(p) \/ OpenRoot(p) \/ LockRoot(p) \/ LockExpires(p)
           \/ Abandon(p) \/ Unchain(p)
    PROVE  OldRecords(p)'
<1> USE DEF IInv, TypeOK, TypeOfControl, TypeOfHandles
<1>1. /\ ns' = ns /\ locked' = locked /\ fresh' = fresh /\ prev' = prev
      /\ sel' = sel /\ seen' = seen /\ want' = want /\ pc[p] \in Preparing
  BY DEF LookAtRoot, MakeRoot, OpenRoot, LockRoot, LockExpires, Abandon, Unchain, disk, handles,
     plan, txn, Preparing
<1>2. \A t \in locked[p] : fd'[p][t] = fd[p][t]
  <2>1. fd' = fd \/ \E t \in Targets : \E i : First(p, t) /\ fd' = [fd EXCEPT ![p][t] = i]
    BY DEF LookAtRoot, MakeRoot, OpenRoot, LockRoot, LockExpires, Abandon, Unchain, handles
  <2>2. \A t \in Targets : First(p, t) => t \notin locked[p]
    BY <1>1 DEF TargetsTracked, Tracked, First
  <2> QED
    BY <2>1, <2>2
<1>3. \A t \in locked[p] : Rec(p, t)' = Rec(p, t)
  BY <1>1, <1>2 DEF Rec
<1>4. pc'[p] \in Preparing \cup {"undo", "settle"}
  BY DEF LookAtRoot, MakeRoot, OpenRoot, LockRoot, LockExpires, Abandon, Unchain, Goto, Fail, Preparing
<1>5. Checked(p)' = {} /\ Replaced(p)' = {} /\ PutBackOnes(p)' = {}
  BY <1>4 DEF Checked, Replaced, PutBackOnes, Preparing, Promoting
<1> QED
  BY <1>1, <1>3, <1>4, <1>5, SameOld DEF Early, Preparing

LEMMA OpenNamespaceOld ==
    ASSUME IInv, RInv, NEW p \in Applies, OldRecords(p), OpenNamespace(p)
    PROVE  OldRecords(p)'
<1> USE DEF IInv, TypeOK, TypeOfControl, TypeOfHandles, TypeOfDisk
<1>1. /\ sel' = sel /\ seen' = seen /\ want' = want /\ fresh' = fresh /\ prev' = prev
      /\ left' = left /\ fd' = fd /\ pc[p] = "ns"
  BY DEF OpenNamespace, plan, txn
<1>2. PICK t \in Targets :
         /\ First(p, t)
         /\ \/ /\ ns' = [ns EXCEPT ![fd[p][t]].exists = TRUE]
               /\ locked' = [locked EXCEPT ![p] = @ \cup {t}]
               /\ Goto(p, "init")
            \/ /\ Goto(p, "abandon")
               /\ ns' = ns /\ locked' = locked
  BY DEF OpenNamespace
<1>3. \A u \in locked[p] : fd[p][u] \in Inodes
  BY DEF LocksHeld, LocksHeldBy, Holds
<1>4. ASSUME NEW i \in Inodes PROVE ns'[i].managed = ns[i].managed
  <2>1. ns[i] \in Namespace /\ (ns'[i] = ns[i] \/ ns'[i] = [ns[i] EXCEPT !.exists = TRUE])
    BY <1>2
  <2> QED
    BY <2>1 DEF Namespace
<1>5. \A u \in locked[p] : Rec(p, u)' = Rec(p, u)
  BY <1>1, <1>3, <1>4 DEF Rec
<1>6. pc'[p] \in {"init", "abandon"}
  BY <1>2 DEF Goto
<1>7. Checked(p)' = {} /\ Replaced(p)' = {} /\ PutBackOnes(p)' = {}
  BY <1>6 DEF Checked, Replaced, PutBackOnes, Promoting
<1>8. CASE pc'[p] = "abandon"
  <2>1. locked' = locked
    BY <1>2, <1>8 DEF Goto
  <2> QED
    BY <1>1, <1>5, <1>7, <1>8, <2>1, SameOld DEF Early, Preparing
<1>9. CASE pc'[p] = "init"
  <2>1. locked'[p] = locked[p] \cup {t}
    BY <1>2, <1>9 DEF Goto
  <2>2. t \in sel[p]
    BY <1>1, <1>2 DEF RInv, Records, Unblocked, Early, Preparing, First
  <2>3. First(p, t)'
    BY <1>1, <1>2 DEF First
  <2>4. Taken(p)' \subseteq locked[p]
    BY <1>9, <2>1, <2>3 DEF Taken
  <2>5. Taken(p) = locked[p]
    BY <1>1 DEF Taken
  <2> QED
    BY <1>1, <1>5, <1>7, <2>1, <2>2, <2>4, <2>5 DEF OldRecords, Early, Preparing
<1> QED
  BY <1>6, <1>8, <1>9

LEMMA InitMetadataOld ==
    ASSUME IInv, RInv, Sheltered, NEW p \in Applies, OldRecords(p), InitMetadata(p)
    PROVE  OldRecords(p)'
<1> USE DEF IInv, TypeOK, TypeOfControl, TypeOfHandles, TypeOfDisk, TypeOfTxn
<1>1. /\ sel' = sel /\ seen' = seen /\ want' = want /\ fd' = fd /\ locked' = locked
      /\ pc[p] = "init"
  BY DEF InitMetadata, plan, handles
<1>2. PICK t \in Targets :
         /\ First(p, t)
         /\ \/ /\ ns[fd[p][t]].managed # NoFile
               /\ ns' = ns /\ fresh' = fresh
               /\ prev' = [prev EXCEPT ![p][t] = ns[fd[p][t]].managed]
            \/ /\ ns' = [ns EXCEPT ![fd[p][t]].managed = EmptyRecord(p)]
               /\ prev' = prev
               /\ fresh' = [fresh EXCEPT ![p][t] = TRUE]
         /\ Loop(p, t, "root", "validate", locked[p]) \/ Fail(p)
  BY DEF InitMetadata, Fault, Sheltered
<1>3. \A u \in locked[p] : fd[p][u] \in Inodes /\ u \in Targets
  BY DEF LocksHeld, LocksHeldBy, Holds
<1>4. t \in locked[p]
  BY <1>1, <1>2 DEF TargetsTracked, Tracked
<1>5. prev[p][t] = NoFile /\ ~fresh[p][t]
  BY <1>1, <1>2 DEF RInv, Records, Remembers
<1>6. \A u \in locked[p] : u # t => /\ Rec(p, u)' = Rec(p, u)
                                    /\ prev'[p][u] = prev[p][u] /\ fresh'[p][u] = fresh[p][u]
  <2>1. \A u \in locked[p] : u # t => fd[p][u] # fd[p][t]
    BY <1>3, <1>4, ReconcilerAssumption DEF InodesApart
  <2> QED
    BY <1>1, <1>2, <1>3, <1>4, <2>1 DEF Rec
<1>7. /\ fresh'[p][t] \/ prev'[p][t] # NoFile
      /\ fresh'[p][t] => prev'[p][t] = NoFile
      /\ ~fresh'[p][t] => Rec(p, t)' = prev'[p][t]
  BY <1>1, <1>2, <1>3, <1>4, <1>5 DEF Rec
<1>8. Taken(p)' \subseteq Taken(p) \cup {t}
  <2>1. \A u \in Targets : First(p, u) => u = t
    BY <1>2, FirstUnique
  <2> QED
    BY <1>1, <1>3, <2>1 DEF Taken
<1>9. /\ pc'[p] \in {"root", "validate", "undo", "settle"}
      /\ pc'[p] = "validate" => left'[p] = locked[p]
  BY <1>2 DEF Loop, Goto, Fail
<1>10. Checked(p)' = {} /\ Replaced(p)' = {} /\ PutBackOnes(p)' = {}
  BY <1>1, <1>9 DEF Checked, Replaced, PutBackOnes, Promoting
<1>11. Taken(p) \subseteq locked[p]
  BY DEF Taken
<1> QED
  BY <1>1, <1>6, <1>7, <1>8, <1>10, <1>11 DEF OldRecords, Early

(* A validated target has the record that its plan was built on.            *)
LEMMA ValidatedOld ==
    ASSUME IInv, RInv, NEW p \in Applies, OldRecords(p), pc[p] = "validate", NEW t \in locked[p],
           StillCurrent(p, t)
    PROVE  prev[p][t] = SeenRecord(p, t)
<1> USE DEF IInv, TypeOK, TypeOfControl, TypeOfHandles, TypeOfDisk, TypeOfTxn
<1> DEFINE i == fd[p][t]
<1>1. i \in Inodes /\ t \in Taken(p)
  BY DEF LocksHeld, LocksHeldBy, Holds, Taken
<1>2. ns[i].exists /\ Rec(p, t) # NoFile
  BY DEF RInv, Records, Initialized, Early
<1>3. CASE fresh[p][t]
  <2>1. seen[p][t].cache = NoCache
    BY <1>3 DEF StillCurrent, AsReviewed, Current, Scan
  <2>2. prev[p][t] = NoFile
    BY <1>1, <1>3 DEF OldRecords
  <2> QED
    BY <2>1, <2>2 DEF SeenRecord
<1>4. CASE ~fresh[p][t]
  <2>1. Rec(p, t) \in Record
    BY <1>1, <1>2 DEF Rec, Namespace
  <2>2. Current(i).cache = Rec(p, t).cache /\ Current(i).entries = Rec(p, t).entries
    BY <1>2 DEF Current, Scan, RecordedCache, RecordedLinks, HasRecord, Rec
  <2>3. seen[p][t].cache = Current(i).cache /\ seen[p][t].entries = Current(i).entries
    BY <1>4 DEF StillCurrent, AsReviewed, Current, Scan
  <2>4. Rec(p, t).cache # NoCache
    BY <2>1, PlannerAssumption DEF Record
  <2>5. SeenRecord(p, t) = [cache |-> Rec(p, t).cache, entries |-> Rec(p, t).entries]
    BY <2>2, <2>3, <2>4 DEF SeenRecord
  <2>6. SeenRecord(p, t) = Rec(p, t)
    BY <2>1, <2>5 DEF Record
  <2>7. Rec(p, t) = prev[p][t]
    BY <1>1, <1>4 DEF OldRecords, Early
  <2> QED
    BY <2>6, <2>7
<1> QED
  BY <1>3, <1>4

LEMMA ValidateOld ==
    ASSUME IInv, RInv, NEW p \in Applies, OldRecords(p), Validate(p)
    PROVE  OldRecords(p)'
<1> USE DEF IInv, TypeOK, TypeOfControl
<1>1. /\ sel' = sel /\ seen' = seen /\ want' = want /\ fd' = fd /\ locked' = locked
      /\ ns' = ns /\ fresh' = fresh /\ prev' = prev /\ pc[p] = "validate"
  BY DEF Validate, disk, plan, handles, txn
<1>2. PICK t \in Targets :
         /\ First(p, t)
         /\ (StillCurrent(p, t) /\ Loop(p, t, "validate", "stage", {})) \/ Fail(p)
  BY DEF Validate
<1>3. t \in locked[p]
  BY <1>1, <1>2 DEF TargetsTracked, Tracked, Looping, First
<1>4. /\ pc'[p] \in {"validate", "stage", "undo", "settle"}
      /\ Fail(p) => pc'[p] \in {"undo", "settle"}
  BY <1>2 DEF Loop, Goto, Fail
<1>5. /\ Replaced(p)' = {} /\ PutBackOnes(p)' = {}
      /\ Fail(p) => Checked(p)' = {}
  BY <1>1, <1>4 DEF Checked, Replaced, PutBackOnes, Promoting
<1>6. ~Fail(p) => Checked(p)' \subseteq Checked(p) \cup {t}
  <2>1. \A u \in locked[p] : u \notin left[p] => u \in Checked(p)
    BY <1>1 DEF Checked
  <2>2. Checked(p)' \subseteq locked[p] /\ \A u \in Checked(p)' : pc'[p] = "validate" => u \notin left'[p]
    BY <1>1 DEF Checked, Promoting
  <2>3. ~Fail(p) => \/ pc'[p] = "validate" /\ left'[p] = left[p] \ {t}
                    \/ left[p] = {t}
    BY <1>2 DEF Loop, Goto
  <2> QED
    BY <2>1, <2>2, <2>3
<1>7. Taken(p) = locked[p] /\ Taken(p)' = locked[p]
  BY <1>1, <1>4 DEF Taken
<1>8. ~Fail(p) => prev[p][t] = SeenRecord(p, t)
  BY <1>1, <1>2, <1>3, ValidatedOld
<1>9. \A u : SeenRecord(p, u)' = SeenRecord(p, u) /\ Rec(p, u)' = Rec(p, u)
  BY <1>1 DEF SeenRecord, Rec
<1> QED
  BY <1>1, <1>4, <1>5, <1>7, <1>8, <1>9, <1>6 DEF OldRecords, Early

LEMMA PromotionOld ==
    ASSUME IInv, NEW p \in Applies, OldRecords(p),
           Stage(p) \/ Promote(p) \/ MoveAside(p) \/ Install(p) \/ CleanStaging(p)
    PROVE  OldRecords(p)'
<1> USE DEF IInv, TypeOK, TypeOfControl
<1>1. /\ sel' = sel /\ seen' = seen /\ want' = want /\ fd' = fd /\ locked' = locked
      /\ ns' = ns /\ fresh' = fresh /\ prev' = prev
      /\ pc[p] \in {"stage", "promote", "move", "install", "clean"}
  BY DEF Stage, Promote, MoveAside, Install, CleanStaging, disk, plan, handles, txn
<1>2. \/ pc'[p] \in {"promote", "move", "install", "clean", "undo", "settle"}
      \/ pc'[p] = "publish" /\ left'[p] = locked[p]
  <2>1. CASE Stage(p) \/ Promote(p)
    BY <2>1 DEF Stage, Promote, Fail, Goto
  <2>2. CASE MoveAside(p) \/ Install(p)
    <3>1. PICK o : Journaled(p, o) \/ Fail(p) \/ Goto(p, "install")
      BY <2>2 DEF MoveAside, Install, PutAside, PutLink, PutNoLink
    <3> QED
      BY <3>1 DEF Journaled, Fail, Goto
  <2>3. CASE CleanStaging(p)
    BY <2>3 DEF CleanStaging, Fail, Goto
  <2> QED
    BY <2>1, <2>2, <2>3
<1>3. Checked(p) = locked[p] /\ Checked(p)' \subseteq locked[p]
  BY <1>1 DEF Checked, Promoting
<1>4. Replaced(p)' = {} /\ PutBackOnes(p)' = {}
  BY <1>1, <1>2 DEF Replaced, PutBackOnes
<1>5. \A t : Rec(p, t)' = Rec(p, t)
  BY <1>1 DEF Rec
<1> QED
  BY <1>1, <1>2, <1>3, <1>4, <1>5, SameOld DEF Early, Preparing

LEMMA PublishOld ==
    ASSUME IInv, NEW p \in Applies, OldRecords(p), Publish(p)
    PROVE  OldRecords(p)'
<1> USE DEF IInv, TypeOK, TypeOfControl, TypeOfHandles, TypeOfDisk
<1>1. /\ sel' = sel /\ seen' = seen /\ want' = want /\ fd' = fd /\ locked' = locked
      /\ fresh' = fresh /\ prev' = prev /\ pc[p] = "publish"
  BY DEF Publish, plan, handles, txn
<1>2. PICK t \in Targets :
         /\ First(p, t)
         /\ \/ ns' = [ns EXCEPT ![fd[p][t]].managed = Published(p, t)]
            \/ ns' = ns /\ Fail(p)
         /\ Loop(p, t, "publish", "drop", locked[p]) \/ Fail(p)
  BY DEF Publish
<1>3. t \in locked[p] /\ \A u \in locked[p] : fd[p][u] \in Inodes /\ u \in Targets
  BY <1>1, <1>2 DEF LocksHeld, LocksHeldBy, Holds, TargetsTracked, Tracked, Looping, First
<1>4. \/ pc'[p] \in {"drop", "undo", "settle"}
      \/ pc'[p] = "publish" /\ left'[p] = left[p] \ {t} /\ ~Fail(p)
  BY <1>2 DEF Loop, Goto, Fail
<1>5. Taken(p) = locked[p] /\ Taken(p)' = locked[p]
  BY <1>1, <1>4 DEF Taken
<1>6. Checked(p) = locked[p] /\ Checked(p)' \subseteq locked[p] /\ PutBackOnes(p)' = {}
  BY <1>1, <1>4 DEF Checked, PutBackOnes, Promoting
<1>7. Replaced(p)' \subseteq Replaced(p) \cup {t} /\ (Replaced(p)' # {} => ~Fail(p))
  BY <1>1, <1>4 DEF Replaced
<1>8. \A u \in locked[p] : u # t => Rec(p, u)' = Rec(p, u)
  <2>1. \A u \in locked[p] : u # t => fd[p][u] # fd[p][t]
    BY <1>3, ReconcilerAssumption DEF InodesApart
  <2> QED
    BY <1>1, <1>2, <1>3, <2>1 DEF Rec
<1>9. ~Fail(p) => Rec(p, t)' = Published(p, t)
  BY <1>1, <1>2, <1>3 DEF Rec, Namespace
<1>10. \A u : SeenRecord(p, u)' = SeenRecord(p, u) /\ Published(p, u)' = Published(p, u)
  BY <1>1 DEF SeenRecord, Published
<1>11. pc'[p] \notin Early /\ Replaced(p) \subseteq locked[p]
  BY <1>4 DEF Early, Preparing, Replaced
<1> QED
  BY <1>1, <1>5, <1>6, <1>7, <1>8, <1>9, <1>10, <1>11 DEF OldRecords

(* After the last record no record is written, and a rollback writes the    *)
(* remembered ones.                                                         *)
LEMMA AftermathKeepsRecords ==
    ASSUME IInv, RootsStay, NEW p \in Applies,
           \/ DropBackup(p) \/ Settle(p) \/ Undo(p) \/ PutBackup(p) \/ Discard(p)
           \/ Prune(p) \/ Report(p)
    PROVE  \A i \in Inodes : ns'[i].managed = ns[i].managed
<1> USE DEF IInv, TypeOK, TypeOfDisk
<1>1. ns' = ns \/ \E j : ns' = [ns EXCEPT ![j].failure = TRUE]
  <2>1. CASE Settle(p)
    BY <2>1 DEF Settle
  <2>2. CASE Report(p)
    BY <2>2 DEF Report, RootsStay
  <2>3. CASE ~Settle(p) /\ ~Report(p)
    BY <2>3 DEF DropBackup, Undo, PutBackup, Discard, Prune, disk
  <2> QED
    BY <2>1, <2>2, <2>3
<1>2. ASSUME NEW i \in Inodes PROVE ns'[i].managed = ns[i].managed
  <2>1. ns[i] \in Namespace /\ (ns'[i] = ns[i] \/ ns'[i] = [ns[i] EXCEPT !.failure = TRUE])
    BY <1>1
  <2> QED
    BY <2>1 DEF Namespace
<1> QED
  BY <1>2

LEMMA AftermathOld ==
    ASSUME IInv, RootsStay, NEW p \in Applies, OldRecords(p), Course(p), Course(p)',
           \/ DropBackup(p) \/ Settle(p) \/ Undo(p) \/ PutBackup(p) \/ Discard(p)
           \/ Prune(p) \/ Report(p)
    PROVE  OldRecords(p)'
<1> USE DEF IInv, TypeOK, TypeOfControl, TypeOfHandles
<1>1. /\ sel' = sel /\ seen' = seen /\ want' = want /\ fd' = fd /\ locked' = locked
      /\ fresh' = fresh /\ prev' = prev /\ phase' = phase
      /\ pc[p] \in {"drop", "settle", "undo", "putback", "discard", "prune", "report"}
  BY DEF DropBackup, Settle, Undo, PutBackup, Discard, Prune, Report, plan, handles, txn
<1>2. \A t \in locked[p] : Rec(p, t)' = Rec(p, t)
  BY <1>1, AftermathKeepsRecords DEF Rec, LocksHeld, LocksHeldBy, Holds
<1>3. Checked(p)' = {} /\ Replaced(p)' = {} /\ pc'[p] \notin Early
  <2>1. pc'[p] \in {"drop", "settle", "undo", "putback", "restore", "discard", "prune", "report",
                    "release"}
    BY DEF DropBackup, Settle, Undo, PutBackup, Discard, Prune, Report, Loop, Goto, Fail
  <2> QED
    BY <2>1 DEF Checked, Replaced, Early, Preparing, Promoting
<1>4. PutBackOnes(p)' \subseteq PutBackOnes(p)
  <2>1. CASE DropBackup(p) \/ Settle(p)
    <3>1. phase'[p] = "committed"
      BY <1>1, <2>1 DEF DropBackup, Settle, Course
    <3>2. pc'[p] \in {"drop", "settle", "release"}
      BY <2>1, <3>1, <1>1 DEF DropBackup, Settle, Loop, Goto, Fail
    <3>3. pc'[p] = "release" => outcome'[p] # "failed"
      BY <3>1 DEF Course, RolledBack, Settled
    <3> QED
      BY <3>2, <3>3 DEF PutBackOnes
  <2>2. CASE Undo(p) \/ PutBackup(p)
    <3>1. pc'[p] \in {"undo", "putback"} \/ (pc'[p] = "release" /\ locked[p] = {})
          \/ (pc'[p] = "restore" /\ left'[p] = locked[p])
      <4>1. pc[p] \in Turning /\ left' = left
        BY <2>2 DEF Undo, PutBackup, Turning
      <4>2. left[p] = locked[p]
        BY <4>1 DEF TargetsTracked, Tracked
      <4> QED
        BY <2>2, <4>1, <4>2 DEF Undo, PutBackup, Goto
    <3> QED
      BY <1>1, <3>1 DEF PutBackOnes
  <2>3. CASE Discard(p) \/ Prune(p) \/ Report(p)
    <3>1. PutBackOnes(p) = locked[p]
      BY <2>3 DEF Discard, Prune, Report, PutBackOnes
    <3> QED
      BY <1>1, <3>1 DEF PutBackOnes
  <2> QED
    BY <2>1, <2>2, <2>3
<1> QED
  BY <1>1, <1>2, <1>3, <1>4, SameOld DEF Early, Preparing

LEMMA RestoreOld ==
    ASSUME IInv, Sheltered, NEW p \in Applies, OldRecords(p), RestoreMetadata(p)
    PROVE  OldRecords(p)'
<1> USE DEF IInv, TypeOK, TypeOfControl, TypeOfHandles, TypeOfDisk
<1>1. /\ sel' = sel /\ seen' = seen /\ want' = want /\ fd' = fd /\ locked' = locked
      /\ fresh' = fresh /\ prev' = prev /\ pc[p] = "restore" /\ outcome' = outcome
  BY DEF RestoreMetadata, plan, handles
<1>2. PICK t \in Targets : /\ First(p, t)
                           /\ ns' = [ns EXCEPT ![fd[p][t]].managed = prev[p][t]]
                           /\ Loop(p, t, "restore", "discard", locked[p])
  BY DEF RestoreMetadata, OldRecord, Fault, Sheltered
<1>3. t \in locked[p] /\ \A u \in locked[p] : fd[p][u] \in Inodes /\ u \in Targets
  BY <1>1, <1>2 DEF LocksHeld, LocksHeldBy, Holds, TargetsTracked, Tracked, Looping, First
<1>4. \/ pc'[p] = "restore" /\ left'[p] = left[p] \ {t}
      \/ pc'[p] = "discard" /\ left[p] = {t}
  BY <1>2 DEF Loop, Goto
<1>5. PutBackOnes(p)' \subseteq PutBackOnes(p) \cup {t}
  <2>1. \A u \in locked[p] : u \notin left[p] => u \in PutBackOnes(p)
    BY <1>1 DEF PutBackOnes
  <2> QED
    BY <1>1, <1>4, <2>1 DEF PutBackOnes
<1>6. \A u \in locked[p] : u # t => Rec(p, u)' = Rec(p, u)
  <2>1. \A u \in locked[p] : u # t => fd[p][u] # fd[p][t]
    BY <1>3, ReconcilerAssumption DEF InodesApart
  <2> QED
    BY <1>1, <1>2, <1>3, <2>1 DEF Rec
<1>7. Rec(p, t)' = prev[p][t]
  BY <1>1, <1>2, <1>3 DEF Rec, Namespace
<1>8. Taken(p)' = locked[p] /\ Taken(p) = locked[p] /\ pc'[p] \notin Early
  BY <1>1, <1>4 DEF Taken, Early, Preparing
<1>9. Checked(p)' = {} /\ Replaced(p)' = {} /\ PutBackOnes(p) \subseteq locked[p]
  BY <1>4 DEF Checked, Replaced, PutBackOnes, Promoting
<1> QED
  BY <1>1, <1>3, <1>5, <1>6, <1>7, <1>8, <1>9 DEF OldRecords

(* A run gives its targets up one by one.                                   *)
LEMMA ReleaseOld ==
    ASSUME IInv, NEW p \in Applies, OldRecords(p), Release(p)
    PROVE  OldRecords(p)'
<1> USE DEF IInv, TypeOK, TypeOfControl, TypeOfHandles
<1>1. pc[p] = "release" /\ ns' = ns /\ outcome' = outcome
  BY DEF Release, disk
<1>2. CASE pc'[p] = "done"
  <2>1. left[p] = {} /\ locked' = locked
    BY <1>1, <1>2 DEF Release, handles
  <2>2. locked'[p] = {}
    BY <1>1, <2>1 DEF TargetsTracked, Tracked, Turning
  <2> QED
    BY <2>2, NothingLocked
<1>3. CASE pc'[p] # "done"
  <2>1. PICK t \in Targets : /\ fd' = [fd EXCEPT ![p][t] = NoInode]
                             /\ locked' = [locked EXCEPT ![p] = @ \ {t}]
                             /\ pc' = pc /\ plan' = plan /\ fresh' = fresh /\ prev' = prev
    BY <1>3 DEF Release, Goto
  <2>2. \A u \in locked'[p] : u \in locked[p] /\ u \in Targets /\ fd'[p][u] = fd[p][u]
    BY <2>1
  <2>3. \A u \in locked'[p] : Rec(p, u)' = Rec(p, u)
    BY <1>1, <2>2 DEF Rec
  <2>4. Taken(p)' = locked'[p] /\ Taken(p) = locked[p] /\ pc'[p] = "release"
    BY <1>1, <2>1 DEF Taken
  <2>5. Checked(p)' = {} /\ Replaced(p)' = {}
    BY <2>4 DEF Checked, Replaced, Promoting
  <2>6. PutBackOnes(p)' \subseteq PutBackOnes(p) /\ PutBackOnes(p)' \subseteq locked'[p]
    BY <1>1, <2>2, <2>4 DEF PutBackOnes
  <2>7. sel' = sel
    BY <2>1 DEF plan
  <2> QED
    BY <2>1, <2>2, <2>3, <2>4, <2>5, <2>6, <2>7 DEF OldRecords, Early, Preparing
<1> QED
  BY <1>2, <1>3

LEMMA ScanOld ==
    ASSUME IInv, NEW p \in Applies, Begin(p) \/ ReadRecord(p) \/ WalkTree(p) \/ BuildPlan(p)
    PROVE  OldRecords(p)'
<1>1. locked' = locked /\ pc[p] \in Unlocked
  BY DEF Begin, ReadRecord, WalkTree, BuildPlan, handles, Unlocked
<1>2. locked'[p] = {}
  BY <1>1 DEF IInv, TargetsTracked, Tracked
<1> QED
  BY <1>2, NothingLocked

(* Nobody is killed.                                                        *)
LEMMA NobodyKilled ==
    ASSUME IInv, Sheltered, NEW p \in Applies PROVE ~Crash(p) /\ ~UserStep
BY DEF IInv, TypeOK, TypeOfBudget, Sheltered, Crash, UserStep

LEMMA LedgerInvariantStep ==
    ASSUME IInv, RInv, LInv, Sheltered, NEW p \in Applies, Begin(p) \/ Step(p)
    PROVE  LInv' /\ at' = at /\ OthersUntouched(p) /\ OwnRootsOnly(p)
<1>1. RootsStay' /\ at' = at
  BY RootsStayStep DEF LInv
<1>2. OthersUntouched(p) /\ OwnRootsOnly(p)
  BY ScanFrame, PrepareFrame, NamespaceFrame, WorkFrame, TreeFrame, EndFrame DEF Step
<1>3. \A q \in Applies \ {p} : phase'[q] = phase[q] /\ outcome'[q] = outcome[q]
  BY OthersCourse
<1>4. Course(p)'
  BY CourseStep DEF LInv
<1>5. OldRecords(p)'
  <2>1. OldRecords(p) /\ Course(p) /\ RootsStay
    BY DEF LInv
  <2> QED
    BY <1>4, <2>1, ScanOld, PrepareOld, OpenNamespaceOld, InitMetadataOld, ValidateOld,
       PromotionOld, PublishOld, RestoreOld, AftermathOld, ReleaseOld DEF Step
<1>6. ASSUME NEW q \in Applies \ {p} PROVE Course(q)' /\ OldRecords(q)'
  <2>1. Course(q)'
    BY <1>2, <1>3 DEF OthersUntouched, LInv, Course, RolledBack, Settled
  <2>2. OldRecords(q)'
    BY <1>2, <1>3, OthersOld DEF LInv
  <2> QED
    BY <2>1, <2>2
<1> QED
  BY <1>1, <1>2, <1>4, <1>5, <1>6 DEF LInv

LEMMA LedgerInvariantInit == ASSUME Init, Sheltered PROVE LInv
<1>1. RootsStay
  <2>1. PICK w \in [Targets -> Priors] :
           at = [t \in Targets |-> IF w[t].present THEN Home[t] ELSE NoInode]
    BY DEF Init
  <2>2. \A t \in Targets : at[t] = Home[t] /\ Home[t] \in Inodes
    BY <2>1, ReconcilerAssumption DEF Sheltered
  <2> QED
    BY <2>2, ReconcilerAssumption DEF Init, RootsStay
<1>2. \A p \in Applies : Course(p)
  BY DEF Init, Course, Early, Preparing, Promoting
<1>3. \A p \in Applies : OldRecords(p)
  BY DEF Init, OldRecords, Taken, Checked, Replaced, PutBackOnes
<1> QED
  BY <1>1, <1>2, <1>3 DEF LInv

LEMMA LedgerInvariantNext == ASSUME IInv, RInv, LInv, Sheltered, [Next]_vars PROVE LInv'
<1>1. CASE \E p \in Applies : Begin(p) \/ Step(p)
  BY <1>1, LedgerInvariantStep
<1>2. CASE UNCHANGED vars
  BY <1>2 DEF vars, disk, plan, control, handles, txn, LInv, RootsStay, Course, RolledBack, Settled,
     OldRecords, Taken, Checked, Replaced, PutBackOnes, First, Rec, SeenRecord, Published
<1>3. CASE (\E p \in Applies : Crash(p)) \/ UserStep
  <2>1. Applies # {} => FALSE
    BY <1>3, NobodyKilled
  <2>2. ~UserStep
    BY DEF IInv, TypeOK, TypeOfBudget, Sheltered, UserStep
  <2> QED
    BY <1>3, <2>1, <2>2
<1> QED
  BY <1>1, <1>2, <1>3 DEF Next, Finished

------------------------------------------------------------------------------
(* The record the ledger shows of a target is the one that its only pending *)
(* run remembers, or the one that is there.                                 *)
Shown(p, t) == IF Pending(p, t) THEN prev[p][t] ELSE ns[at[t]].managed
Legible ==
    \A p \in Applies : \A t \in Targets :
        /\ Pending(p, t) => TargetRecord(t) = prev[p][t]
        /\ (\A q \in Applies \ {p} : ~Pending(q, t)) => TargetRecord(t) = Shown(p, t)

LEMMA LedgerLegible == IInv /\ RootsStay => Legible
<1> SUFFICES ASSUME IInv, RootsStay, NEW p \in Applies, NEW t \in Targets
             PROVE  /\ Pending(p, t) => TargetRecord(t) = prev[p][t]
                    /\ (\A q \in Applies \ {p} : ~Pending(q, t)) => TargetRecord(t) = Shown(p, t)
  BY DEF Legible
<1>1. ASSUME Pending(p, t) PROVE TargetRecord(t) = prev[p][t]
  <2>1. ASSUME NEW q \in Applies, Pending(q, t) PROVE q = p
    BY <1>1, <2>1 DEF Pending, IInv, LocksHeld, LocksHeldBy, Holds
  <2> QED
    BY <1>1, <2>1 DEF TargetRecord
<1>2. (\A q \in Applies : ~Pending(q, t)) => TargetRecord(t) = ns[at[t]].managed
  BY DEF TargetRecord, RootsStay
<1> QED
  BY <1>1, <1>2 DEF Shown

LEMMA LedgerStaysLegible == IInv' /\ RootsStay' => Legible'
BY LedgerLegible, PTL

(* A step of a run leaves what the other runs have pending.                 *)
LEMMA OwnStepShows ==
    ASSUME IInv, IInv', LInv, LInv', at' = at, NEW p \in Applies, OthersUntouched(p),
           \A q \in Applies \ {p} : phase'[q] = phase[q],
           NEW t \in Targets, Shown(p, t)' = Shown(p, t)
    PROVE  TargetRecord(t)' = TargetRecord(t)
<1>1. \A q \in Applies \ {p} : Pending(q, t)' = Pending(q, t) /\ prev'[q][t] = prev[q][t]
  BY DEF OthersUntouched, Pending
<1>2. CASE \E q \in Applies \ {p} : Pending(q, t)
  <2>1. PICK q \in Applies \ {p} : Pending(q, t)
    BY <1>2
  <2>2. TargetRecord(t) = prev[q][t]
    BY <2>1, LedgerLegible DEF Legible, LInv
  <2>3. TargetRecord(t)' = prev'[q][t]
    BY <1>1, <2>1, LedgerStaysLegible DEF Legible, LInv
  <2> QED
    BY <1>1, <2>2, <2>3
<1>3. CASE \A q \in Applies \ {p} : ~Pending(q, t)
  <2>1. TargetRecord(t) = Shown(p, t)
    BY <1>3, LedgerLegible DEF Legible, LInv
  <2>2. \A q \in Applies \ {p} : ~Pending(q, t)'
    BY <1>1, <1>3
  <2>3. TargetRecord(t)' = Shown(p, t)'
    BY <2>2, LedgerStaysLegible DEF Legible, LInv
  <2> QED
    BY <2>1, <2>3
<1> QED
  BY <1>2, <1>3

(* What a run has pending once its records are initialized.                 *)
LEMMA LockedRoots ==
    ASSUME IInv, LInv, NEW p \in Applies, NEW t \in locked[p]
    PROVE  t \in Targets /\ fd[p][t] = at[t] /\ at[t] \in Inodes /\ flock[at[t]] = p
<1>1. t \in Targets /\ fd[p][t] \in Inodes /\ flock[fd[p][t]] = p
  BY DEF IInv, TypeOK, TypeOfHandles, LocksHeld, LocksHeldBy, Holds
<1> QED
  BY <1>1, ReconcilerAssumption DEF LInv, RootsStay

LEMMA TakenPending ==
    ASSUME IInv, LInv, NEW p \in Applies, phase[p] # "committed", NEW t \in Taken(p)
    PROVE  Pending(p, t)
<1>1. t \in locked[p]
  BY DEF Taken
<1> QED
  BY <1>1, LockedRoots DEF Pending, LInv, OldRecords

(* A step that writes no record and neither commits nor remembers or        *)
(* releases anything shows nothing new.                                     *)
LEMMA QuietShows ==
    ASSUME IInv, LInv, at' = at, NEW p \in Applies, NEW t \in Targets,
           t \in locked[p] => fd'[p][t] = fd[p][t], locked'[p] = locked[p],
           fresh'[p] = fresh[p], prev'[p] = prev[p],
           phase'[p] = "committed" <=> phase[p] = "committed",
           ns'[at[t]].managed = ns[at[t]].managed
    PROVE  Shown(p, t)' = Shown(p, t)
BY DEF Shown, Pending

LEMMA ScanShows ==
    ASSUME IInv, LInv, NEW p \in Applies, NEW t \in Targets,
           Begin(p) \/ ReadRecord(p) \/ WalkTree(p) \/ BuildPlan(p)
    PROVE  Shown(p, t)' = Shown(p, t)
<1>1. UNCHANGED <<disk, handles, txn, phase>>
  BY DEF Begin, ReadRecord, WalkTree, BuildPlan
<1> QED
  BY <1>1, QuietShows DEF disk, handles, txn

LEMMA PrepareShows ==
    ASSUME IInv, LInv, at' = at, NEW p \in Applies, NEW t \in Targets,
           \/ LookAtRoot(p) \/ MakeRoot(p) \/ OpenRoot(p) \/ LockRoot(p) \/ LockExpires(p)
           \/ Abandon(p) \/ Unchain(p)
    PROVE  Shown(p, t)' = Shown(p, t)
<1> USE DEF IInv, TypeOK, TypeOfHandles
<1>1. /\ ns' = ns /\ locked' = locked /\ fresh' = fresh /\ prev' = prev /\ phase' = phase
      /\ pc[p] \in Preparing
  BY DEF LookAtRoot, MakeRoot, OpenRoot, LockRoot, LockExpires, Abandon, Unchain, disk, handles,
     txn, Preparing
<1>2. t \in locked[p] => fd'[p][t] = fd[p][t]
  <2>1. fd' = fd \/ \E u \in Targets : \E i : First(p, u) /\ fd' = [fd EXCEPT ![p][u] = i]
    BY DEF LookAtRoot, MakeRoot, OpenRoot, LockRoot, LockExpires, Abandon, Unchain, handles
  <2>2. \A u \in Targets : First(p, u) => u \notin locked[p]
    BY <1>1 DEF TargetsTracked, Tracked, First
  <2> QED
    BY <2>1, <2>2
<1> QED
  BY <1>1, <1>2, QuietShows

(* A target that is locked becomes pending when its record is initialized,  *)
(* and the record it shows is the one found.                                *)
LEMMA OpenNamespaceShows ==
    ASSUME IInv, RInv, LInv, at' = at, NEW p \in Applies, NEW t \in Targets, OpenNamespace(p)
    PROVE  Shown(p, t)' = Shown(p, t)
<1> USE DEF IInv, TypeOK, TypeOfControl, TypeOfHandles, TypeOfDisk
<1>1. /\ fresh' = fresh /\ prev' = prev /\ phase' = phase /\ fd' = fd /\ pc[p] = "ns"
  BY DEF OpenNamespace, txn
<1>2. PICK u \in Targets :
         /\ First(p, u)
         /\ \/ /\ ns' = [ns EXCEPT ![fd[p][u]].exists = TRUE]
               /\ locked' = [locked EXCEPT ![p] = @ \cup {u}]
            \/ ns' = ns /\ locked' = locked
  BY DEF OpenNamespace
<1>3. u \notin locked[p] /\ at[t] \in Inodes
  BY <1>1, <1>2 DEF TargetsTracked, Tracked, Preparing, First, LInv, RootsStay
<1>4. ~fresh[p][u] /\ prev[p][u] = NoFile
  BY <1>1, <1>3 DEF RInv, Records, Remembers
<1>5. ns'[at[t]].managed = ns[at[t]].managed
  <2>1. \/ ns'[at[t]] = ns[at[t]]
        \/ ns'[at[t]] = [ns[at[t]] EXCEPT !.exists = TRUE]
    BY <1>2, <1>3
  <2> QED
    BY <1>3, <2>1 DEF Namespace
<1>6. t # u => (t \in locked'[p] <=> t \in locked[p])
  BY <1>2
<1> QED
  BY <1>1, <1>3, <1>4, <1>5, <1>6 DEF Shown, Pending

LEMMA InitMetadataShows ==
    ASSUME IInv, RInv, LInv, at' = at, NEW p \in Applies, Course(p)', NEW t \in Targets,
           Sheltered, InitMetadata(p)
    PROVE  Shown(p, t)' = Shown(p, t)
<1> USE DEF IInv, TypeOK, TypeOfControl, TypeOfHandles, TypeOfDisk, TypeOfTxn
<1>1. /\ fd' = fd /\ locked' = locked /\ pc[p] = "init"
  BY DEF InitMetadata, handles
<1>2. PICK u \in Targets :
         /\ First(p, u)
         /\ \/ /\ ns[fd[p][u]].managed # NoFile
               /\ ns' = ns /\ fresh' = fresh
               /\ prev' = [prev EXCEPT ![p][u] = ns[fd[p][u]].managed]
            \/ /\ ns[fd[p][u]].managed = NoFile
               /\ ns' = [ns EXCEPT ![fd[p][u]].managed = EmptyRecord(p)]
               /\ prev' = prev
               /\ fresh' = [fresh EXCEPT ![p][u] = TRUE]
         /\ Loop(p, u, "root", "validate", locked[p]) \/ Fail(p)
  BY DEF InitMetadata, Fault, Sheltered
<1>3. u \in locked[p] /\ fd[p][u] = at[u] /\ at[u] \in Inodes
  <2>1. u \in locked[p]
    BY <1>1, <1>2 DEF TargetsTracked, Tracked
  <2> QED
    BY <2>1, LockedRoots
<1>4. prev[p][u] = NoFile /\ ~fresh[p][u]
  BY <1>1, <1>2 DEF RInv, Records, Remembers
<1>5. phase[p] # "committed" /\ phase'[p] # "committed"
  <2>1. phase[p] # "committed"
    BY <1>1 DEF LInv, Course, Early
  <2>2. pc'[p] \in {"root", "validate", "undo"}
    BY <1>2, <2>1 DEF Loop, Goto, Fail
  <2> QED
    BY <2>1, <2>2 DEF Course, RolledBack, Early, Preparing
<1>6. CASE t = u
  <2>1. Shown(p, t) = ns[at[t]].managed
    BY <1>4, <1>6 DEF Shown, Pending
  <2>2. prev'[p][t] = ns[at[t]].managed /\ (fresh'[p][t] \/ prev'[p][t] # NoFile)
    BY <1>2, <1>3, <1>4, <1>6
  <2>3. Pending(p, t)'
    BY <1>1, <1>3, <1>5, <1>6, <2>2 DEF Pending
  <2> QED
    BY <2>1, <2>2, <2>3 DEF Shown
<1>7. CASE t # u
  <2>1. at[t] \in Inodes /\ at[t] # at[u]
    BY <1>7 DEF LInv, RootsStay, InodesApart
  <2>2. ns'[at[t]] = ns[at[t]] /\ prev'[p][t] = prev[p][t] /\ fresh'[p][t] = fresh[p][t]
    BY <1>2, <1>3, <1>7, <2>1
  <2> QED
    BY <1>1, <1>5, <2>2, QuietShows DEF Shown, Pending
<1> QED
  BY <1>6, <1>7

(* Promotion writes no record, and does not commit.                         *)
LEMMA PromotionShows ==
    ASSUME IInv, LInv, NEW p \in Applies, Course(p)', NEW t \in Targets,
           \/ Validate(p) \/ Stage(p) \/ Promote(p) \/ MoveAside(p) \/ Install(p)
           \/ CleanStaging(p)
    PROVE  Shown(p, t)' = Shown(p, t)
<1> USE DEF IInv, TypeOK, TypeOfControl
<1>1. /\ at' = at /\ fd' = fd /\ locked' = locked
      /\ ns' = ns /\ fresh' = fresh /\ prev' = prev
      /\ pc[p] \in {"validate", "stage", "promote", "move", "install", "clean"}
  BY DEF Validate, Stage, Promote, MoveAside, Install, CleanStaging, disk, handles, txn
<1>2. phase[p] # "committed"
  BY <1>1 DEF LInv, Course, Early, Promoting
<1>3. pc'[p] \in Early \cup Promoting \cup {"undo"}
  <2>1. CASE Validate(p)
    BY <1>2, <2>1 DEF Validate, Loop, Goto, Fail, Early, Promoting
  <2>2. CASE Stage(p) \/ Promote(p) \/ CleanStaging(p)
    BY <1>2, <2>2 DEF Stage, Promote, CleanStaging, Goto, Fail, Promoting
  <2>3. CASE MoveAside(p) \/ Install(p)
    <3>1. PICK o : Journaled(p, o) \/ Fail(p) \/ Goto(p, "install")
      BY <2>3 DEF MoveAside, Install, PutAside, PutLink, PutNoLink
    <3> QED
      BY <1>2, <3>1 DEF Journaled, Goto, Fail, Promoting
  <2> QED
    BY <2>1, <2>2, <2>3
<1>4. phase'[p] # "committed"
  BY <1>3 DEF Course, RolledBack
<1> QED
  BY <1>1, <1>2, <1>4, QuietShows

(* While a run has a target pending, what it writes there does not show.    *)
LEMMA PendingHides ==
    ASSUME IInv, LInv, at' = at, NEW p \in Applies, NEW t \in Targets, NEW u \in locked[p],
           pc[p] # "init", phase[p] # "committed", phase'[p] # "committed",
           fd' = fd, locked' = locked, fresh' = fresh, prev' = prev,
           \A i \in Inodes : i # fd[p][u] => ns'[i] = ns[i]
    PROVE  Shown(p, t)' = Shown(p, t)
<1>1. CASE t \in locked[p]
  <2>1. Pending(p, t)
    BY <1>1, TakenPending DEF Taken
  <2>2. Pending(p, t)'
    BY <2>1 DEF Pending
  <2> QED
    BY <2>1, <2>2 DEF Shown
<1>2. CASE t \notin locked[p]
  <2>1. u \in Targets /\ fd[p][u] = at[u] /\ at[t] \in Inodes /\ at[t] # at[u]
    BY <1>2, LockedRoots, ReconcilerAssumption DEF LInv, RootsStay, IInv, InodesApart, TypeOK, TypeOfDisk
  <2> QED
    BY <1>2, <2>1 DEF Shown, Pending
<1> QED
  BY <1>1, <1>2

LEMMA PublishShows ==
    ASSUME IInv, LInv, at' = at, NEW p \in Applies, Course(p)', NEW t \in Targets,
           Publish(p), pc'[p] # "drop"
    PROVE  Shown(p, t)' = Shown(p, t)
<1> USE DEF IInv, TypeOK, TypeOfControl, TypeOfDisk
<1>1. /\ fd' = fd /\ locked' = locked /\ fresh' = fresh /\ prev' = prev /\ pc[p] = "publish"
  BY DEF Publish, handles, txn
<1>2. PICK u \in Targets :
         /\ First(p, u)
         /\ ns' = [ns EXCEPT ![fd[p][u]].managed = Published(p, u)] \/ ns' = ns
         /\ Loop(p, u, "publish", "drop", locked[p]) \/ Fail(p)
  BY DEF Publish
<1>3. u \in locked[p]
  BY <1>1, <1>2 DEF TargetsTracked, Tracked, Looping, First
<1>4. phase[p] # "committed" /\ phase'[p] # "committed"
  <2>1. phase[p] # "committed"
    BY <1>1 DEF LInv, Course, Promoting
  <2>2. pc'[p] \in {"publish", "undo"}
    BY <1>2, <2>1 DEF Loop, Goto, Fail
  <2> QED
    BY <2>1, <2>2 DEF Course, RolledBack, Promoting
<1>5. \A i \in Inodes : i # fd[p][u] => ns'[i] = ns[i]
  BY <1>2
<1> QED
  BY <1>1, <1>3, <1>4, <1>5, PendingHides

LEMMA RestoreShows ==
    ASSUME IInv, LInv, at' = at, NEW p \in Applies, NEW t \in Targets, RestoreMetadata(p)
    PROVE  Shown(p, t)' = Shown(p, t)
<1> USE DEF IInv, TypeOK, TypeOfControl, TypeOfDisk
<1>1. /\ fd' = fd /\ locked' = locked /\ fresh' = fresh /\ prev' = prev /\ phase' = phase
      /\ pc[p] = "restore"
  BY DEF RestoreMetadata, handles
<1>2. PICK u \in Targets : First(p, u) /\ (ns' = [ns EXCEPT ![fd[p][u]].managed = OldRecord(p, u)]
                                            \/ ns' = ns)
  BY DEF RestoreMetadata
<1>3. u \in locked[p]
  BY <1>1, <1>2 DEF TargetsTracked, Tracked, Looping, First
<1>4. phase[p] # "committed"
  BY <1>1 DEF LInv, Course, RolledBack
<1>5. \A i \in Inodes : i # fd[p][u] => ns'[i] = ns[i]
  BY <1>2
<1> QED
  BY <1>1, <1>3, <1>4, <1>5, PendingHides

LEMMA AftermathShows ==
    ASSUME IInv, LInv, at' = at, NEW p \in Applies, NEW t \in Targets,
           \/ DropBackup(p) \/ Settle(p) \/ Undo(p) \/ PutBackup(p) \/ Discard(p)
           \/ Prune(p) \/ Report(p)
    PROVE  Shown(p, t)' = Shown(p, t)
<1>1. /\ fd' = fd /\ locked' = locked /\ fresh' = fresh /\ prev' = prev /\ phase' = phase
  BY DEF DropBackup, Settle, Undo, PutBackup, Discard, Prune, Report, handles, txn
<1>2. ns'[at[t]].managed = ns[at[t]].managed
  <2>1. at[t] \in Inodes
    BY DEF LInv, RootsStay, IInv, TypeOK, TypeOfDisk
  <2> QED
    BY <2>1, AftermathKeepsRecords DEF LInv
<1> QED
  BY <1>1, <1>2, QuietShows

(* A target is given up when its old record is back, or the new one stays.  *)
LEMMA ReleaseShows ==
    ASSUME IInv, LInv, NEW p \in Applies, NEW t \in Targets, Release(p)
    PROVE  Shown(p, t)' = Shown(p, t)
<1> USE DEF IInv, TypeOK, TypeOfControl, TypeOfHandles
<1>1. pc[p] = "release" /\ ns' = ns /\ at' = at
  BY DEF Release, disk
<1>2. CASE pc'[p] = "done"
  <2>1. left[p] = {} /\ locked' = locked
    BY <1>1, <1>2 DEF Release, handles
  <2>2. t \notin locked[p] /\ t \notin locked'[p]
    BY <1>1, <2>1 DEF TargetsTracked, Tracked, Turning
  <2> QED
    BY <1>1, <2>2 DEF Shown, Pending
<1>3. CASE pc'[p] # "done"
  <2>1. PICK u \in Targets : /\ fd' = [fd EXCEPT ![p][u] = NoInode]
                             /\ locked' = [locked EXCEPT ![p] = @ \ {u}]
                             /\ phase' = phase /\ fresh' = fresh /\ prev' = prev
    BY <1>3 DEF Release, Goto
  <2>2. CASE t # u
    BY <1>1, <2>1, <2>2 DEF Shown, Pending
  <2>3. CASE t = u
    <3>1. ~Pending(p, t)'
      BY <2>1, <2>3 DEF Pending
    <3>2. Pending(p, t) => prev[p][t] = ns[at[t]].managed
      <4>1. SUFFICES ASSUME Pending(p, t) PROVE prev[p][t] = ns[at[t]].managed
        OBVIOUS
      <4>2. t \in PutBackOnes(p)
        BY <1>1, <4>1 DEF LInv, Course, RolledBack, Settled, Pending, PutBackOnes
      <4> QED
        BY <4>1, <4>2 DEF LInv, OldRecords, Rec, Pending
    <3> QED
      BY <1>1, <3>1, <3>2 DEF Shown
  <2> QED
    BY <2>2, <2>3
<1> QED
  BY <1>2, <1>3

(* Only the last record that is published shows.                            *)
LEMMA StepShows ==
    ASSUME IInv, RInv, LInv, LInv', at' = at, Sheltered, NEW p \in Applies, Begin(p) \/ Step(p),
           ~(pc[p] = "publish" /\ pc'[p] = "drop"), NEW t \in Targets
    PROVE  Shown(p, t)' = Shown(p, t)
<1>1. Course(p)'
  BY DEF LInv
<1>2. Publish(p) => pc'[p] # "drop"
  BY DEF Publish
<1> QED
  BY <1>1, <1>2, ScanShows, PrepareShows, OpenNamespaceShows, InitMetadataShows, PromotionShows,
     PublishShows, RestoreShows, AftermathShows, ReleaseShows DEF Step

------------------------------------------------------------------------------
(* How far a run is follows from where it is.                               *)
Transacting(p) == pc[p] \in Early \cup Promoting
StatusThere(p) ==
    CASE Transacting(p) -> "proposed"
      [] pc[p] \in {"drop", "settle"} -> "committed"
      [] pc[p] \in {"undo", "putback", "restore", "discard", "prune", "report"} -> "aborted"
      [] pc[p] \in {"release", "done"} /\ outcome[p] \in {"ok", "committed"} -> "committed"
      [] pc[p] \in {"release", "done"} /\ outcome[p] = "failed" -> "aborted"
      [] OTHER -> "idle"

LEMMA StatusByPlace ==
    ASSUME IInv, NEW p \in Applies, Course(p)
    PROVE  RunStatus(p) = StatusThere(p) /\ (Proposing(p) <=> Transacting(p))
<1> USE DEF IInv, TypeOK, TypeOfControl
<1>1. CASE Transacting(p)
  <2>1. Proposing(p)
    BY <1>1 DEF Transacting, Course, Proposing, Early, Preparing, Promoting
  <2> QED
    BY <1>1, <2>1 DEF RunStatus, StatusThere
<1>2. CASE ~Transacting(p)
  <2>1. ~Proposing(p)
    BY <1>2 DEF Transacting, Course, Proposing, Early, Preparing, Promoting, Steps, RolledBack,
       Settled
  <2>2. RunStatus(p) = StatusThere(p)
    <3>1. CASE pc[p] \in {"idle", "scan", "walk", "plan"}
      BY <1>2, <2>1, <3>1 DEF RunStatus, StatusThere, Course
    <3>2. CASE pc[p] \in {"drop", "settle"}
      BY <1>2, <2>1, <3>2 DEF RunStatus, StatusThere, Course
    <3>3. CASE pc[p] \in {"undo", "putback", "restore", "discard", "prune", "report"}
      BY <1>2, <2>1, <3>3 DEF RunStatus, StatusThere, Course, RolledBack
    <3>4. CASE pc[p] = "release"
      BY <1>2, <2>1, <3>4 DEF RunStatus, StatusThere, Course, RolledBack, Settled
    <3>5. CASE pc[p] = "done"
      BY <1>2, <2>1, <3>5 DEF RunStatus, StatusThere, Course
    <3> QED
      BY <1>2, <3>1, <3>2, <3>3, <3>4, <3>5 DEF Transacting, Steps, Early, Preparing, Promoting
  <2> QED
    BY <1>2, <2>1, <2>2
<1> QED
  BY <1>1, <1>2

ByPlace ==
    \A p \in Applies :
        Course(p) => RunStatus(p) = StatusThere(p) /\ (Proposing(p) <=> Transacting(p))

LEMMA StatusStaysByPlace == IInv' => ByPlace'
<1>1. IInv => ByPlace
  BY StatusByPlace DEF ByPlace
<1> QED
  BY <1>1, PTL

(* What a step of a run is for the ledger: a proposal, a commit, an abort   *)
(* or nothing.                                                              *)
Proposes(p) == pc[p] = "plan" /\ pc'[p] = "root" /\ BuildPlan(p)
Commits(p) == pc[p] = "publish" /\ pc'[p] = "drop" /\ Publish(p)
Aborts(p) == Transacting(p) /\ pc'[p] = "undo"
Rests(p) == \/ /\ Transacting(p) /\ Transacting(p)'
               /\ sel' = sel /\ seen' = seen /\ want' = want
            \/ ~Transacting(p) /\ ~Transacting(p)' /\ StatusThere(p)' = StatusThere(p)

LEMMA StepKinds ==
    ASSUME IInv, LInv, NEW p \in Applies, Course(p)', Begin(p) \/ Step(p)
    PROVE  Proposes(p) \/ Commits(p) \/ Aborts(p) \/ Rests(p)
<1> USE DEF IInv, TypeOK, TypeOfControl
<1>0. Course(p)
  BY DEF LInv
<1>1. CASE Begin(p) \/ ReadRecord(p) \/ WalkTree(p) \/ BuildPlan(p)
  <2>1. pc[p] \in {"idle", "scan", "walk", "plan"} /\ outcome[p] = "none"
    BY <1>0, <1>1 DEF Begin, ReadRecord, WalkTree, BuildPlan, Course
  <2>2. \/ pc'[p] \in {"scan", "walk", "plan"} /\ outcome' = outcome
        \/ pc'[p] = "done" /\ outcome'[p] \in {"unscannable", "blocked", "refused", "converged"}
        \/ Proposes(p)
    BY <1>1 DEF Begin, ReadRecord, WalkTree, BuildPlan, Loop, Goto, Leave, Proposes
  <2>3. StatusThere(p) = "idle" /\ ~Transacting(p)
    BY <2>1 DEF StatusThere, Transacting, Early, Preparing, Promoting
  <2>4. ~Proposes(p) => StatusThere(p)' = "idle" /\ ~Transacting(p)'
    BY <2>1, <2>2 DEF StatusThere, Transacting, Early, Preparing, Promoting
  <2> QED
    BY <2>3, <2>4 DEF Rests
<1>2. CASE \/ LookAtRoot(p) \/ MakeRoot(p) \/ OpenRoot(p) \/ LockRoot(p) \/ LockExpires(p)
           \/ OpenNamespace(p) \/ Abandon(p) \/ Unchain(p) \/ InitMetadata(p) \/ Validate(p)
           \/ Stage(p) \/ Promote(p) \/ MoveAside(p) \/ Install(p) \/ CleanStaging(p)
  <2>1. Transacting(p) /\ sel' = sel /\ seen' = seen /\ want' = want
    BY <1>2 DEF LookAtRoot, MakeRoot, OpenRoot, LockRoot, LockExpires, OpenNamespace, Abandon,
       Unchain, InitMetadata, Validate, Stage, Promote, MoveAside, Install, CleanStaging, plan,
       Transacting, Early, Preparing, Promoting
  <2>2. phase[p] # "committed"
    BY <1>0, <2>1 DEF Course, Transacting
  <2>3. pc'[p] = "undo" \/ Transacting(p)'
    <3>1. CASE \/ LookAtRoot(p) \/ MakeRoot(p) \/ OpenRoot(p) \/ LockRoot(p) \/ LockExpires(p)
               \/ OpenNamespace(p) \/ Abandon(p) \/ Unchain(p)
      BY <2>2, <3>1 DEF LookAtRoot, MakeRoot, OpenRoot, LockRoot, LockExpires, OpenNamespace,
         Abandon, Unchain, Goto, Fail, Transacting, Early, Preparing
    <3>2. CASE InitMetadata(p) \/ Validate(p)
      <4>1. \E t \in Targets : \/ Loop(p, t, "root", "validate", locked[p])
                               \/ Loop(p, t, "validate", "stage", {})
                               \/ Fail(p)
        BY <3>2 DEF InitMetadata, Validate
      <4> QED
        BY <2>2, <4>1 DEF Loop, Goto, Fail, Transacting, Early, Preparing, Promoting
    <3>3. CASE Stage(p) \/ Promote(p) \/ CleanStaging(p)
      BY <2>2, <3>3 DEF Stage, Promote, CleanStaging, Goto, Fail, Transacting, Promoting
    <3>4. CASE MoveAside(p) \/ Install(p)
      <4>1. PICK o : Journaled(p, o) \/ Fail(p) \/ Goto(p, "install")
        BY <3>4 DEF MoveAside, Install, PutAside, PutLink, PutNoLink
      <4> QED
        BY <2>2, <4>1 DEF Journaled, Goto, Fail, Transacting, Promoting
    <3> QED
      BY <1>2, <3>1, <3>2, <3>3, <3>4
  <2> QED
    BY <2>1, <2>3 DEF Aborts, Rests
<1>3. CASE Publish(p)
  <2>1. Transacting(p) /\ sel' = sel /\ seen' = seen /\ want' = want /\ pc[p] = "publish"
    BY <1>3 DEF Publish, plan, Transacting, Promoting
  <2>2. phase[p] # "committed"
    BY <1>0, <2>1 DEF Course, Transacting
  <2>3. pc'[p] \in {"undo", "publish", "drop"}
    BY <1>3, <2>2 DEF Publish, Loop, Goto, Fail
  <2> QED
    BY <1>3, <2>1, <2>3 DEF Aborts, Rests, Commits, Transacting, Promoting
<1>4. CASE \/ DropBackup(p) \/ Settle(p) \/ Undo(p) \/ PutBackup(p) \/ RestoreMetadata(p)
           \/ Discard(p) \/ Prune(p) \/ Report(p) \/ Release(p)
  <2>1. ~Transacting(p) /\ ~Transacting(p)'
    <3>1. pc[p] \in {"drop", "settle", "undo", "putback", "restore", "discard", "prune", "report",
                     "release"}
      BY <1>4 DEF DropBackup, Settle, Undo, PutBackup, RestoreMetadata, Discard, Prune, Report, Release
    <3>2. pc'[p] \in {"drop", "settle", "undo", "putback", "restore", "discard", "prune", "report",
                      "release", "done"}
      BY <1>4 DEF DropBackup, Settle, Undo, PutBackup, RestoreMetadata, Discard, Prune, Report,
         Release, Loop, Goto, Fail
    <3> QED
      BY <3>1, <3>2 DEF Transacting, Early, Preparing, Promoting
  <2>2. StatusThere(p)' = StatusThere(p)
    <3>1. CASE DropBackup(p)
      <4>1. pc[p] = "drop" /\ phase[p] = "committed"
        BY <1>0, <3>1 DEF DropBackup, Course
      <4>2. \/ pc'[p] \in {"drop", "settle"}
            \/ pc'[p] = "release" /\ outcome'[p] = "ok"
        BY <3>1, <4>1 DEF DropBackup, Loop, Goto, Fail
      <4> QED
        BY <4>1, <4>2, <2>1 DEF StatusThere
    <3>2. CASE Settle(p)
      <4>1. pc[p] = "settle" /\ outcome[p] = "committed" /\ outcome' = outcome
        BY <1>0, <3>2 DEF Settle, Course
      <4>2. pc'[p] \in {"settle", "release"}
        BY <3>2 DEF Settle, Loop, Goto
      <4> QED
        BY <4>1, <4>2, <2>1 DEF StatusThere
    <3>3. CASE \/ Undo(p) \/ PutBackup(p) \/ RestoreMetadata(p) \/ Discard(p) \/ Prune(p)
               \/ Report(p)
      <4>1. /\ pc[p] \in {"undo", "putback", "restore", "discard", "prune", "report"}
            /\ outcome' = outcome
        BY <3>3 DEF Undo, PutBackup, RestoreMetadata, Discard, Prune, Report
      <4>2. outcome[p] = "failed"
        BY <1>0, <4>1 DEF Course, RolledBack
      <4>3. pc'[p] \in {"undo", "putback", "restore", "discard", "prune", "report", "release"}
        BY <3>3 DEF Undo, PutBackup, RestoreMetadata, Discard, Prune, Report, Loop, Goto
      <4> QED
        BY <4>1, <4>2, <4>3, <2>1 DEF StatusThere
    <3>4. CASE Release(p)
      <4>1. pc[p] = "release" /\ outcome' = outcome /\ pc'[p] \in {"release", "done"}
        BY <3>4 DEF Release, Goto
      <4> QED
        BY <4>1, <2>1 DEF StatusThere
    <3> QED
      BY <1>4, <3>1, <3>2, <3>3, <3>4
  <2> QED
    BY <2>1, <2>2 DEF Rests
<1> QED
  BY <1>1, <1>2, <1>3, <1>4 DEF Step

(* The other runs keep their status and their intent.                       *)
LEMMA OthersKeepIntent ==
    ASSUME IInv, NEW p \in Applies, Begin(p) \/ Step(p), OthersUntouched(p),
           NEW q \in Applies \ {p}
    PROVE  RunStatus(q)' = RunStatus(q) /\ RunIntent(q)' = RunIntent(q)
<1>1. phase'[q] = phase[q] /\ outcome'[q] = outcome[q]
  BY OthersCourse
<1>2. Proposing(q)' = Proposing(q)
  BY <1>1 DEF OthersUntouched, Proposing
<1>3. sel'[q] = sel[q] /\ \A t : SeenRecord(q, t)' = SeenRecord(q, t) /\ Published(q, t)' = Published(q, t)
  BY DEF OthersUntouched, SeenRecord, Published
<1> QED
  BY <1>1, <1>2, <1>3 DEF RunStatus, RunIntent

Contentful ==
    \A p \in Applies : \A t \in Targets :
        /\ SeenRecord(p, t) \in Record \cup {NoFile}
        /\ Published(p, t) \in Record \cup {NoFile}

LEMMA LedgerContentful == IInv => Contentful
<1> SUFFICES ASSUME IInv, NEW p \in Applies, NEW t \in Targets
             PROVE  /\ SeenRecord(p, t) \in Record \cup {NoFile}
                    /\ Published(p, t) \in Record \cup {NoFile}
  BY DEF Contentful
<1>1. seen[p][t] \in View /\ want[p][t] \in Links /\ CacheRoot[p] \in Caches
  BY ReconcilerAssumption DEF IInv, TypeOK, TypeOfPlan
<1> QED
  BY <1>1 DEF View, SeenRecord, Published, Record

LEMMA LedgerStaysContentful == IInv' => Contentful'
BY LedgerContentful, PTL

LEMMA LedgerStays ==
    ASSUME IInv, IInv', RInv, LInv, Sheltered, NEW p \in Applies, Begin(p) \/ Step(p), ~Commits(p),
           NEW t \in Targets
    PROVE  TargetRecord(t)' = TargetRecord(t)
<1>1. LInv' /\ at' = at /\ OthersUntouched(p)
  BY LedgerInvariantStep
<1>2. ~(pc[p] = "publish" /\ pc'[p] = "drop")
  <2>1. pc[p] = "publish" => Publish(p)
    BY DEF Step, Begin, ReadRecord, WalkTree, BuildPlan, LookAtRoot, MakeRoot, OpenRoot, LockRoot,
       LockExpires, OpenNamespace, Abandon, Unchain, InitMetadata, Validate, Stage, Promote,
       MoveAside, Install, CleanStaging, DropBackup, Settle, Undo, PutBackup, RestoreMetadata,
       Discard, Prune, Report, Release
  <2> QED
    BY <2>1 DEF Commits
<1>3. Shown(p, t)' = Shown(p, t)
  BY <1>1, <1>2, StepShows
<1> QED
  BY <1>1, <1>3, OwnStepShows, OthersCourse

(* The last record that is published: every selected target still showed    *)
(* the record that the plan was built on, and now shows its new one.        *)
LEMMA CommitShows ==
    ASSUME IInv, IInv', RInv, LInv, Sheltered, NEW p \in Applies, Commits(p), NEW t \in Targets
    PROVE  /\ t \in sel[p] => TargetRecord(t) = SeenRecord(p, t)
           /\ TargetRecord(t)' = IF t \in sel[p] THEN Published(p, t) ELSE TargetRecord(t)
<1> USE DEF IInv, TypeOK, TypeOfControl, TypeOfDisk, TypeOfHandles
<1>1. Publish(p) /\ pc[p] = "publish" /\ pc'[p] = "drop"
  BY DEF Commits
<1>2. LInv' /\ at' = at /\ OthersUntouched(p)
  BY <1>1, LedgerInvariantStep DEF Step
<1>3. locked[p] = sel[p]
  <2>1. sel[p] \subseteq locked[p]
    BY <1>1 DEF TargetsTracked, Tracked, Working
  <2>2. locked[p] \subseteq sel[p]
    BY DEF LInv, OldRecords
  <2> QED
    BY <2>1, <2>2
<1>4. phase[p] # "committed" /\ phase'[p] = "committed"
  BY <1>1, <1>2 DEF LInv, Course, Promoting
<1>5. PICK u \in Targets : /\ ns' = [ns EXCEPT ![fd[p][u]].managed = Published(p, u)]
                           /\ left[p] = {u}
  <2>1. PICK u \in Targets :
           /\ ns' = [ns EXCEPT ![fd[p][u]].managed = Published(p, u)] \/ Fail(p)
           /\ Loop(p, u, "publish", "drop", locked[p]) \/ Fail(p)
    BY <1>1 DEF Publish
  <2>2. ~Fail(p)
    BY <1>1, <1>4 DEF Fail, Goto
  <2>3. left[p] = {u}
    BY <1>1, <2>1, <2>2 DEF Loop, Goto
  <2> QED
    BY <2>1, <2>2, <2>3
<1>6. u \in locked[p] /\ fd[p][u] = at[u] /\ at[u] \in Inodes
  <2>1. u \in locked[p]
    BY <1>1, <1>5 DEF TargetsTracked, Tracked, Looping
  <2> QED
    BY <2>1, LockedRoots
<1>7. CASE t \in sel[p]
  <2>1. t \in locked[p] /\ t \in Checked(p) /\ t \in Taken(p)
    BY <1>1, <1>3, <1>7 DEF Checked, Taken, Promoting
  <2>2. Pending(p, t)
    BY <1>4, <2>1, TakenPending
  <2>3. TargetRecord(t) = prev[p][t]
    BY <2>2, LedgerLegible DEF Legible, LInv
  <2>4. prev[p][t] = SeenRecord(p, t)
    BY <2>1 DEF LInv, OldRecords
  <2>5. \A q \in Applies \ {p} : ~Pending(q, t)'
    <3>1. ASSUME NEW q \in Applies \ {p}, Pending(q, t)' PROVE FALSE
      <4>1. t \in locked[q]
        BY <3>1, <1>2 DEF Pending, OthersUntouched
      <4>2. flock[at[t]] = q /\ flock[at[t]] = p
        BY <2>1, <4>1, LockedRoots
      <4> QED
        BY <4>2
    <3> QED
      BY <3>1
  <2>6. TargetRecord(t)' = Shown(p, t)'
    BY <1>2, <2>5, LedgerStaysLegible DEF Legible, LInv
  <2>7. Shown(p, t)' = ns'[at[t]].managed
    BY <1>2, <1>4 DEF Shown, Pending
  <2>8. ns'[at[t]].managed = Published(p, t)
    <3>1. CASE t = u
      BY <1>5, <1>6, <3>1 DEF Namespace
    <3>2. CASE t # u
      <4>1. at[t] # at[u] /\ fd[p][t] = at[t] /\ at[t] \in Inodes
        BY <1>6, <2>1, <3>2, LockedRoots, ReconcilerAssumption DEF InodesApart
      <4>2. t \in Replaced(p)
        BY <1>1, <1>5, <2>1, <3>2 DEF Replaced
      <4>3. ns[at[t]].managed = Published(p, t)
        BY <4>1, <4>2 DEF LInv, OldRecords, Rec
      <4> QED
        BY <1>5, <1>6, <4>1, <4>3
    <3> QED
      BY <3>1, <3>2
  <2> QED
    BY <1>7, <2>3, <2>4, <2>6, <2>7, <2>8
<1>8. CASE t \notin sel[p]
  <2>1. at[t] \in Inodes /\ at[t] # at[u]
    BY <1>3, <1>6, <1>8, ReconcilerAssumption DEF LInv, RootsStay, InodesApart
  <2>2. ns'[at[t]] = ns[at[t]]
    BY <1>5, <1>6, <2>1
  <2>3. locked' = locked
    BY <1>1 DEF Publish, handles
  <2>4. Shown(p, t)' = Shown(p, t)
    BY <1>2, <1>3, <1>8, <2>2, <2>3 DEF Shown, Pending
  <2>5. TargetRecord(t)' = TargetRecord(t)
    BY <1>1, <1>2, <2>4, OwnStepShows, OthersCourse DEF Step
  <2> QED
    BY <1>8, <2>5
<1> QED
  BY <1>7, <1>8

------------------------------------------------------------------------------
(* Every step is a step of RecordLedger, or changes nothing it shows.       *)
LEMMA LedgerProposal ==
    ASSUME IInv, IInv', RInv, LInv, Sheltered, NEW p \in Applies, Proposes(p)
    PROVE  Ledger!Propose(p)
<1> USE DEF IInv, TypeOK, TypeOfControl, TypeOfPlan
<1>1. BuildPlan(p) /\ pc[p] = "plan" /\ pc'[p] = "root"
  BY DEF Proposes
<1>2. LInv' /\ OthersUntouched(p) /\ (Begin(p) \/ Step(p))
  BY <1>1, LedgerInvariantStep DEF Step
<1>3. RunStatus(p) = "idle" /\ ~Proposing(p)
  BY <1>1, StatusByPlace DEF LInv, StatusThere, Transacting, Early, Preparing, Promoting
<1>4. Proposing(p)' /\ RunStatus(p)' = "proposed"
  <2>1. outcome'[p] = "none" /\ phase'[p] # "committed"
    BY <1>1, <1>2 DEF LInv, Course, Early, Preparing
  <2>2. Proposing(p)'
    BY <1>1, <2>1 DEF Proposing
  <2> QED
    BY <2>1, <2>2 DEF RunStatus, Proposing
<1>5. \A t \in Targets : TargetRecord(t)' = TargetRecord(t)
  BY <1>1, <1>2, LedgerStays DEF Commits
<1>6. \A q \in Applies \ {p} : RunStatus(q)' = RunStatus(q) /\ RunIntent(q)' = RunIntent(q)
  BY <1>2, OthersKeepIntent
<1>7. Ledger!IsIntent(RunIntent(p)')
  <2>1. RunIntent(p)' = [base |-> [t \in sel'[p] |-> SeenRecord(p, t)'],
                         next |-> [t \in sel'[p] |-> Published(p, t)']]
    BY <1>4 DEF RunIntent
  <2>2. sel'[p] \in SUBSET Targets
    OBVIOUS
  <2>3. \A t \in sel'[p] : /\ SeenRecord(p, t)' \in Record \cup {NoFile}
                           /\ Published(p, t)' \in Record \cup {NoFile}
    BY <2>2, LedgerStaysContentful DEF Contentful
  <2>4. RunIntent(p)' \in [base : [sel'[p] -> Record \cup {NoFile}],
                           next : [sel'[p] -> Record \cup {NoFile}]]
    BY <2>1, <2>3
  <2> QED
    BY <2>2, <2>4 DEF Ledger!IsIntent
<1> QED
  BY <1>3, <1>4, <1>5, <1>6, <1>7 DEF Ledger!Propose

LEMMA LedgerCommit ==
    ASSUME IInv, IInv', RInv, LInv, Sheltered, NEW p \in Applies, Commits(p)
    PROVE  Ledger!Commit(p)
<1> USE DEF IInv, TypeOK, TypeOfControl, TypeOfPlan
<1>1. Publish(p) /\ pc[p] = "publish" /\ pc'[p] = "drop"
  BY DEF Commits
<1>2. LInv' /\ OthersUntouched(p) /\ (Begin(p) \/ Step(p))
  BY <1>1, LedgerInvariantStep DEF Step
<1>3. RunStatus(p) = "proposed" /\ Proposing(p)
  BY <1>1, StatusByPlace DEF LInv, StatusThere, Transacting, Promoting
<1>4. RunStatus(p)' = "committed" /\ ~Proposing(p)'
  <2>1. phase'[p] = "committed" /\ outcome'[p] = "none"
    BY <1>1, <1>2 DEF LInv, Course
  <2> QED
    BY <2>1 DEF RunStatus, Proposing
<1>5. RunIntent(p) = [base |-> [t \in sel[p] |-> SeenRecord(p, t)],
                      next |-> [t \in sel[p] |-> Published(p, t)]]
  BY <1>3 DEF RunIntent
<1>6. RunIntent(p)' = NoIntent
  BY <1>4 DEF RunIntent, NoIntent
<1>7. \A t \in Targets : /\ t \in sel[p] => TargetRecord(t) = SeenRecord(p, t)
                         /\ TargetRecord(t)' = IF t \in sel[p] THEN Published(p, t)
                                               ELSE TargetRecord(t)
  BY CommitShows
<1>8. \A q \in Applies \ {p} : RunStatus(q)' = RunStatus(q) /\ RunIntent(q)' = RunIntent(q)
  BY <1>2, OthersKeepIntent
<1>9. sel[p] \subseteq Targets
  OBVIOUS
<1>10. \A t \in DOMAIN RunIntent(p).base : TargetRecord(t) = RunIntent(p).base[t]
  BY <1>5, <1>7, <1>9
<1>11. DOMAIN RunIntent(p).next = sel[p] /\ \A t \in sel[p] : RunIntent(p).next[t] = Published(p, t)
  BY <1>5
<1>12. [t \in Targets |-> TargetRecord(t)]'
         = [t \in Targets |-> IF t \in DOMAIN RunIntent(p).next THEN RunIntent(p).next[t]
                              ELSE TargetRecord(t)]
  BY <1>7, <1>11
<1>13. [q \in Applies |-> RunStatus(q)]'
         = [[q \in Applies |-> RunStatus(q)] EXCEPT ![p] = "committed"]
  BY <1>4, <1>8
<1>14. [q \in Applies |-> RunIntent(q)]' = [[q \in Applies |-> RunIntent(q)] EXCEPT ![p] = NoIntent]
  BY <1>6, <1>8
<1>15. \A t \in DOMAIN RunIntent(p).base : t \in Targets
  BY <1>5, <1>9
<1> QED
  BY <1>3, <1>10, <1>12, <1>13, <1>14, <1>15 DEF Ledger!Commit

LEMMA LedgerAbort ==
    ASSUME IInv, IInv', RInv, LInv, Sheltered, NEW p \in Applies, Begin(p) \/ Step(p), Aborts(p)
    PROVE  Ledger!Abort(p)
<1>1. LInv' /\ OthersUntouched(p) /\ Transacting(p) /\ pc'[p] = "undo"
  BY LedgerInvariantStep DEF Aborts
<1>2. RunStatus(p) = "proposed"
  BY <1>1, StatusByPlace DEF LInv, StatusThere, Transacting, Early, Preparing, Promoting
<1>3. RunStatus(p)' = "aborted" /\ ~Proposing(p)'
  <2>1. outcome'[p] = "failed" /\ phase'[p] # "committed"
    BY <1>1 DEF LInv, Course, RolledBack
  <2> QED
    BY <2>1 DEF RunStatus, Proposing
<1>4. RunIntent(p)' = NoIntent
  BY <1>3 DEF RunIntent, NoIntent
<1>5. \A t \in Targets : TargetRecord(t)' = TargetRecord(t)
  BY <1>1, LedgerStays DEF Commits
<1>6. \A q \in Applies \ {p} : RunStatus(q)' = RunStatus(q) /\ RunIntent(q)' = RunIntent(q)
  BY <1>1, OthersKeepIntent
<1> QED
  BY <1>2, <1>3, <1>4, <1>5, <1>6 DEF Ledger!Abort

LEMMA LedgerRest ==
    ASSUME IInv, IInv', RInv, LInv, Sheltered, NEW p \in Applies, Begin(p) \/ Step(p), Rests(p),
           ~Commits(p)
    PROVE  /\ \A t \in Targets : TargetRecord(t)' = TargetRecord(t)
           /\ \A q \in Applies : RunStatus(q)' = RunStatus(q) /\ RunIntent(q)' = RunIntent(q)
<1>1. LInv' /\ OthersUntouched(p)
  BY LedgerInvariantStep
<1>2. Course(p) /\ Course(p)'
  BY <1>1 DEF LInv
<1>3. RunStatus(p) = StatusThere(p) /\ (Proposing(p) <=> Transacting(p))
  BY <1>2, StatusByPlace
<1>4. RunStatus(p)' = StatusThere(p)' /\ (Proposing(p) <=> Transacting(p))'
  <2>1. ByPlace'
    BY StatusStaysByPlace
  <2>2. RunStatus(p)' = StatusThere(p)'
    BY <1>2, <2>1 DEF ByPlace
  <2>3. (Proposing(p) <=> Transacting(p))'
    BY <1>2, <2>1 DEF ByPlace
  <2> QED
    BY <2>2, <2>3
<1>5. RunStatus(p)' = RunStatus(p) /\ RunIntent(p)' = RunIntent(p)
  <2>1. CASE ~Transacting(p)
    BY <1>3, <1>4, <2>1 DEF Rests, RunIntent, NoIntent
  <2>2. CASE Transacting(p)
    <3>1. Transacting(p)' /\ sel' = sel /\ seen' = seen /\ want' = want
      BY <2>2 DEF Rests
    <3>2. \A t : SeenRecord(p, t)' = SeenRecord(p, t) /\ Published(p, t)' = Published(p, t)
      BY <3>1 DEF SeenRecord, Published
    <3>3. RunIntent(p)' = RunIntent(p)
      BY <1>3, <1>4, <2>2, <3>1, <3>2 DEF RunIntent
    <3>4. StatusThere(p) = "proposed" /\ StatusThere(p)' = "proposed"
      BY <2>2, <3>1 DEF StatusThere, Transacting, Early, Preparing, Promoting
    <3> QED
      BY <1>3, <1>4, <3>3, <3>4
  <2> QED
    BY <2>1, <2>2
<1>6. \A t \in Targets : TargetRecord(t)' = TargetRecord(t)
  BY LedgerStays
<1>7. \A q \in Applies \ {p} : RunStatus(q)' = RunStatus(q) /\ RunIntent(q)' = RunIntent(q)
  BY <1>1, OthersKeepIntent
<1> QED
  BY <1>5, <1>6, <1>7

LEMMA LedgerStep ==
    ASSUME IInv, IInv', RInv, LInv, Sheltered, [Next]_vars
    PROVE  [Ledger!Next]_<<[t \in Targets |-> TargetRecord(t)],
                           [p \in Applies |-> RunIntent(p)], [p \in Applies |-> RunStatus(p)]>>
<1>1. ASSUME NEW p \in Applies, Begin(p) \/ Step(p)
      PROVE  \/ Ledger!Next
             \/ /\ \A t \in Targets : TargetRecord(t)' = TargetRecord(t)
                /\ \A q \in Applies : RunStatus(q)' = RunStatus(q) /\ RunIntent(q)' = RunIntent(q)
  <2>1. Course(p)'
    BY <1>1, LedgerInvariantStep DEF LInv
  <2>2. Proposes(p) \/ Commits(p) \/ Aborts(p) \/ (Rests(p) /\ ~Commits(p))
    BY <1>1, <2>1, StepKinds
  <2> QED
    BY <1>1, <2>2, LedgerProposal, LedgerCommit, LedgerAbort, LedgerRest DEF Ledger!Next
<1>2. CASE UNCHANGED vars
  <2>1. \A t : TargetRecord(t)' = TargetRecord(t)
    BY <1>2 DEF vars, disk, plan, control, handles, txn, TargetRecord, Pending
  <2>2. \A q : RunStatus(q)' = RunStatus(q) /\ RunIntent(q)' = RunIntent(q)
    BY <1>2 DEF vars, disk, plan, control, handles, txn, RunStatus, RunIntent, Proposing, SeenRecord,
       Published, NoIntent
  <2> QED
    BY <2>1, <2>2
<1>3. ~UserStep /\ \A p \in Applies : ~Crash(p)
  BY NobodyKilled DEF IInv, TypeOK, TypeOfBudget, Sheltered, UserStep
<1> QED
  BY <1>1, <1>2, <1>3 DEF Next, Finished

LEMMA LedgerInit == ASSUME Init, IInv, LInv PROVE Ledger!Init
<1>1. \A p \in Applies : RunStatus(p) = "idle" /\ RunIntent(p) = NoIntent
  BY DEF Init, RunStatus, RunIntent, Proposing, NoIntent
<1>2. ASSUME NEW t \in Targets PROVE TargetRecord(t) \in Record \cup {NoFile}
  <2>1. \A p \in Applies : ~Pending(p, t)
    BY DEF Init, Pending
  <2>2. at[t] \in Inodes
    BY DEF LInv, RootsStay, IInv, TypeOK, TypeOfDisk
  <2>3. TargetRecord(t) = ns[at[t]].managed
    BY <2>1, <2>2, ReconcilerAssumption DEF TargetRecord
  <2>4. ns[at[t]] \in Namespace
    BY <2>2 DEF IInv, TypeOK, TypeOfDisk
  <2> QED
    BY <2>3, <2>4 DEF Namespace
<1> QED
  BY <1>1, <1>2 DEF Ledger!Init

(* Concurrent applies act on the manager records like atomic updates of     *)
(* several targets that compare with what was planned for, as long as       *)
(* nobody is killed or replaces roots, which exist, and records are         *)
(* initialized and put back without errors: apply_plan implements           *)
(* RecordLedger.                                                            *)
THEOREM AppliesAreAtomic == ASSUME Sheltered PROVE Spec => AppliesAtomically
<1>1. Init => IInv /\ RInv /\ LInv /\ Ledger!Init
  BY InvariantInit, RecordsInit, LedgerInvariantInit, LedgerInit
<1>2. IInv /\ RInv /\ LInv /\ [Next]_vars => LInv'
  BY LedgerInvariantNext
<1>3. IInv /\ IInv' /\ RInv /\ LInv /\ [Next]_vars
      => [Ledger!Next]_<<[t \in Targets |-> TargetRecord(t)],
                         [p \in Applies |-> RunIntent(p)], [p \in Applies |-> RunStatus(p)]>>
  BY LedgerStep
<1> QED
  BY <1>1, <1>2, <1>3, Invariance, RecordsAreKnown, PTL DEF Spec, AppliesAtomically, Ledger!Spec
=============================================================================
