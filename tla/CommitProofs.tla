----------------------------- MODULE CommitProofs -----------------------------
(***************************************************************************)
(* What a transaction does to the trees: TInv is inductive beside IInv and *)
(* RInv, a commit converges, a validated run commits, and a run that ends  *)
(* leaves nothing that cannot be scanned.                                  *)
(***************************************************************************)
EXTENDS RefinementProofs, ReconcilerRecovery

(* The steps that open, make, remove or lock roots.                         *)
RootStep(p) ==
    \/ MakeRoot(p) \/ OpenRoot(p) \/ OpenNamespace(p) \/ Abandon(p) \/ Unchain(p)
    \/ Report(p) \/ Release(p) \/ Crash(p)

LEMMA RootsElse ==
    ASSUME NEW p \in Applies, Begin(p) \/ Step(p), ~RootStep(p)
    PROVE  at' = at /\ fd' = fd /\ made' = made /\ locked' = locked
BY DEF RootStep, Step, Begin, ReadRecord, WalkTree, BuildPlan, LookAtRoot, LockRoot, LockExpires,
   InitMetadata, Validate, Stage, Promote, MoveAside, Install, CleanStaging, Publish, DropBackup,
   Settle, Undo, PutBackup, RestoreMetadata, Discard, Prune, disk, handles

(* Paths of roots change when a root is made, and when the run that made it *)
(* takes it away.                                                           *)
LEMMA PathEffects ==
    ASSUME IInv, NEW p \in Applies, Begin(p) \/ Step(p) \/ Crash(p)
    PROVE  \/ at' = at
           \/ \E t \in Targets : \E i \in Inodes :
                 /\ MakeRoot(p) /\ First(p, t) /\ at[t] = NoInode /\ Unused(i)
                 /\ at' = [at EXCEPT ![t] = i] /\ made' = [made EXCEPT ![p][t] = i]
           \/ \E t \in Targets :
                 /\ First(p, t) /\ Removable(p, t) /\ at' = [at EXCEPT ![t] = NoInode]
                 /\ \/ Report(p)
                    \/ /\ Unchain(p) /\ ~ns[made[p][t]].exists
                       /\ made' = [made EXCEPT ![p][t] = NoInode]
<1>1. CASE MakeRoot(p)
  BY <1>1 DEF MakeRoot
<1>2. CASE Unchain(p)
  BY <1>2 DEF Unchain
<1>3. CASE Report(p)
  BY <1>3 DEF Report, Vanishes
<1>4. CASE ~(MakeRoot(p) \/ Unchain(p) \/ Report(p))
  <2>1. CASE RootStep(p)
    BY <1>4, <2>1 DEF RootStep, OpenRoot, OpenNamespace, Abandon, Release, Crash, disk
  <2> QED
    BY <1>4, <2>1, RootsElse DEF RootStep
<1> QED
  BY <1>1, <1>2, <1>3, <1>4

(* Only the maker of a root takes it away, and nobody takes a root that     *)
(* another run has locked and initialized.                                  *)
LEMMA OthersRoots ==
    ASSUME IInv, \A r \in Applies : Roots(r), NEW p \in Applies, Begin(p) \/ Step(p) \/ Crash(p),
           OthersUntouched(p), NEW q \in Applies \ {p}
    PROVE  /\ Roots(q)'
           /\ \A t \in locked[q] : at[t] = fd[q][t] /\ ns[fd[q][t]].exists => at'[t] = at[t]
<1> USE DEF IInv, TypeOK, TypeOfControl, TypeOfHandles, TypeOfDisk
<1>1. /\ pc'[q] = pc[q] /\ left'[q] = left[q] /\ fd'[q] = fd[q] /\ locked'[q] = locked[q]
      /\ made'[q] = made[q]
  BY DEF OthersUntouched
<1>2. Opened(q)'
  BY <1>1 DEF Roots, Opened, First
<1>3. \A t \in locked[q] : t \in Targets /\ fd[q][t] \in Inodes /\ fd[q][t] # NoInode
                           /\ flock[fd[q][t]] = q
  BY ReconcilerAssumption DEF LocksHeld, LocksHeldBy, Holds
<1>4. CASE at' = at /\ made' = made
  BY <1>1, <1>2, <1>4 DEF Roots, MadeRoots
<1>5. ASSUME NEW t \in Targets, NEW i \in Inodes, at[t] = NoInode, Unused(i),
             at' = [at EXCEPT ![t] = i], made' = [made EXCEPT ![p][t] = i]
      PROVE  /\ MadeRoots(q)'
             /\ \A u \in locked[q] : at[u] = fd[q][u] => at'[u] = at[u]
  <2>1. i # NoInode
    BY ReconcilerAssumption
  <2>2. \A u \in Targets \ {t} : at'[u] = at[u]
    BY <1>5
  <2>3. made[q][t] # NoInode => t \in locked[q] /\ made[q][t] = fd[q][t]
    BY <1>3, <1>5 DEF Roots, MadeRoots
  <2>4. made[q][t] # i
    BY <1>5, <2>1, <2>3 DEF Unused
  <2>5. \A u \in Targets : made'[p][u] = IF u = t THEN i ELSE made[p][u]
    BY <1>5
  <2>6. \A r \in Applies \ {p} : made'[r] = made[r]
    BY <1>5
  <2>7. \A u \in Targets : made'[q][u] # NoInode =>
           /\ fd'[q][u] \in {NoInode, made'[q][u]}
           /\ u \notin locked'[q] => at'[u] = made'[q][u]
    BY <1>1, <2>2, <2>3 DEF Roots, MadeRoots
  <2>8. \A u \in Targets : made'[q][u] # NoInode =>
           \A r \in Applies \ {q} : made'[r][u] # made'[q][u]
    <3>1. ASSUME NEW u \in Targets, made[q][u] # NoInode, NEW r \in Applies \ {q}
          PROVE  made[r][u] # made[q][u]
      BY <3>1 DEF Roots, MadeRoots
    <3>2. ASSUME NEW u \in Targets, made'[q][u] # NoInode, NEW r \in Applies \ {q}
          PROVE  made'[r][u] # made'[q][u]
      <4>1. made'[q][u] = made[q][u] /\ made[r][u] # made[q][u]
        BY <1>1, <3>1, <3>2
      <4>2. CASE r = p
        BY <2>4, <2>5, <3>2, <4>1, <4>2
      <4>3. CASE r # p
        BY <2>6, <4>1, <4>3
      <4> QED
        BY <4>2, <4>3
    <3> QED
      BY <3>2
  <2>9. MadeRoots(q)'
    BY <2>7, <2>8 DEF MadeRoots
  <2> QED
    BY <1>3, <1>5, <2>2, <2>9
<1>6. ASSUME NEW t \in Targets, Removable(p, t), at' = [at EXCEPT ![t] = NoInode],
             \A r \in Applies : \A u \in Targets : made'[r][u] \in {made[r][u], NoInode}
      PROVE  MadeRoots(q)'
  <2>1. at[t] = made[p][t] /\ made[p][t] # NoInode
    BY <1>6 DEF Removable
  <2>2. made[q][t] = NoInode \/ made[q][t] # at[t]
    BY <2>1 DEF Roots, MadeRoots
  <2>3. \A u \in Targets \ {t} : at'[u] = at[u]
    BY <1>6
  <2>4. \A u \in Targets : made'[q][u] # NoInode =>
           /\ fd'[q][u] \in {NoInode, made'[q][u]}
           /\ u \notin locked'[q] => at'[u] = made'[q][u]
    BY <1>1, <2>2, <2>3 DEF Roots, MadeRoots
  <2>5. \A u \in Targets : made'[q][u] # NoInode =>
           \A r \in Applies \ {q} : made'[r][u] # made'[q][u]
    BY <1>1, <1>6 DEF Roots, MadeRoots
  <2> QED
    BY <2>4, <2>5 DEF MadeRoots
<1>7. ASSUME NEW t \in Targets, Removable(p, t), First(p, t), Report(p),
             t \in locked[q], at[t] = fd[q][t]
      PROVE  FALSE
  <2>1. t \in locked[p]
    BY <1>7 DEF Report, First, TargetsTracked, Tracked, Looping
  <2>2. fd[p][t] \in Inodes /\ flock[fd[p][t]] = p
    BY <2>1 DEF LocksHeld, LocksHeldBy, Holds
  <2>3. fd[p][t] = made[p][t] /\ made[p][t] = at[t]
    BY <1>7, <2>2, ReconcilerAssumption DEF Removable, Roots, MadeRoots
  <2> QED
    BY <1>3, <1>7, <2>2, <2>3
<1>8. \A r \in Applies : \A u \in Targets : MakeRoot(p) \/ made'[r][u] \in {made[r][u], NoInode}
  <2>1. CASE RootStep(p) /\ ~MakeRoot(p)
    <3>1. \/ made' = made
          \/ \E u \in Targets : made' = [made EXCEPT ![p][u] = NoInode]
          \/ made' = [made EXCEPT ![p] = [u \in Targets |-> NoInode]]
      BY <2>1 DEF RootStep, OpenRoot, OpenNamespace, Abandon, Unchain, Report, Release, Crash, handles
    <3>2. ASSUME NEW u \in Targets, made' = [made EXCEPT ![p][u] = NoInode]
          PROVE  \A r \in Applies : \A v \in Targets : made'[r][v] \in {made[r][v], NoInode}
      BY <3>2
    <3>3. ASSUME made' = [made EXCEPT ![p] = [u \in Targets |-> NoInode]]
          PROVE  \A r \in Applies : \A v \in Targets : made'[r][v] \in {made[r][v], NoInode}
      BY <3>3
    <3> QED
      BY <3>1, <3>2, <3>3
  <2>2. CASE ~RootStep(p)
    BY <2>2, RootsElse DEF RootStep
  <2> QED
    BY <2>1, <2>2
<1>9. CASE at' = at
  <2>1. ~MakeRoot(p) \/ made' = made
    <3> SUFFICES ASSUME MakeRoot(p) PROVE made' = made
      OBVIOUS
    <3>1. \A t \in Targets : \A i \in Inodes : at[t] = NoInode => at' # [at EXCEPT ![t] = i]
      BY <1>9, ReconcilerAssumption
    <3> QED
      BY <3>1 DEF MakeRoot
  <2>2. \A u \in Targets : made'[q][u] # NoInode =>
           \A r \in Applies \ {q} : made'[r][u] # made'[q][u]
    BY <1>1, <1>8, <2>1 DEF Roots, MadeRoots
  <2>3. MadeRoots(q)'
    BY <1>1, <1>9, <2>2 DEF Roots, MadeRoots
  <2> QED
    BY <1>2, <1>9, <2>3 DEF Roots
<1>10. CASE at' # at
  <2>1. CASE \E t \in Targets : \E i \in Inodes :
                 /\ MakeRoot(p) /\ First(p, t) /\ at[t] = NoInode /\ Unused(i)
                 /\ at' = [at EXCEPT ![t] = i] /\ made' = [made EXCEPT ![p][t] = i]
    BY <1>2, <1>5, <2>1 DEF Roots
  <2>2. CASE \E t \in Targets :
                 /\ First(p, t) /\ Removable(p, t) /\ at' = [at EXCEPT ![t] = NoInode]
                 /\ \/ Report(p)
                    \/ /\ Unchain(p) /\ ~ns[made[p][t]].exists
                       /\ made' = [made EXCEPT ![p][t] = NoInode]
    <3>1. PICK t \in Targets :
                 /\ First(p, t) /\ Removable(p, t) /\ at' = [at EXCEPT ![t] = NoInode]
                 /\ Report(p) \/ (Unchain(p) /\ ~ns[made[p][t]].exists)
      BY <2>2
    <3>2. ~MakeRoot(p)
      BY <3>1 DEF MakeRoot, Report, Unchain
    <3>3. MadeRoots(q)'
      BY <1>6, <1>8, <3>1, <3>2
    <3>4. t \in locked[q] => ~(at[t] = fd[q][t] /\ ns[fd[q][t]].exists)
      BY <1>7, <3>1 DEF Removable
    <3> QED
      BY <1>2, <1>3, <3>1, <3>3, <3>4 DEF Roots
  <2> QED
    BY <1>10, <2>1, <2>2, PathEffects
<1> QED
  BY <1>9, <1>10

LEMMA OpenedClosed ==
    ASSUME NEW p \in Applies, Opened(p), pc[p] \notin {"flock", "ns", "abandon"}
    PROVE  \A t \in Targets \ locked[p] : fd[p][t] = NoInode
BY DEF Opened

LEMMA OwnRootsMade ==
    ASSUME IInv, \A r \in Applies : Roots(r), NEW p \in Applies, MakeRoot(p)
    PROVE  Roots(p)'
<1> USE DEF IInv, TypeOK, TypeOfControl, TypeOfHandles, TypeOfDisk
<1>1. /\ fd' = fd /\ locked' = locked /\ pc[p] = "mkdir"
      /\ Roots(p) /\ Opened(p) /\ MadeRoots(p)
  BY DEF MakeRoot, Roots
<1>2. \A t \in Targets \ locked[p] : fd[p][t] = NoInode
  BY <1>1, OpenedClosed
<1>3. Opened(p)'
  BY <1>1, <1>2 DEF Opened
<1>4. ASSUME NEW t \in Targets, NEW i \in Inodes, First(p, t), at[t] = NoInode, Unused(i),
             at' = [at EXCEPT ![t] = i], made' = [made EXCEPT ![p][t] = i]
      PROVE  MadeRoots(p)'
  <2>1. i # NoInode /\ at'[t] = i /\ made'[p][t] = i
    BY <1>4, ReconcilerAssumption
  <2>2. \A u \in Targets \ {t} : at'[u] = at[u] /\ made'[p][u] = made[p][u]
    BY <1>4
  <2>3. \A r \in Applies \ {p} : made'[r] = made[r]
    BY <1>4
  <2>4. fd[p][t] = NoInode
    BY <1>1, <1>2, <1>4 DEF First, TargetsTracked, Tracked, Preparing
  <2>5. ASSUME NEW r \in Applies \ {p} PROVE made[r][t] # i
    <3>1. SUFFICES ASSUME made[r][t] = i PROVE FALSE
      OBVIOUS
    <3>2. MadeRoots(r)
      BY DEF Roots
    <3>3. t \in locked[r] /\ fd[r][t] \in {NoInode, i}
      BY <1>4, <2>1, <3>1, <3>2 DEF MadeRoots
    <3>4. fd[r][t] = i
      BY <3>3, ReconcilerAssumption DEF LocksHeld, LocksHeldBy, Holds
    <3> QED
      BY <1>4, <3>4 DEF Unused
  <2>6. ASSUME NEW u \in Targets, made'[p][u] # NoInode
        PROVE  /\ fd'[p][u] \in {NoInode, made'[p][u]}
               /\ u \notin locked'[p] => at'[u] = made'[p][u]
               /\ \A r \in Applies \ {p} : made'[r][u] # made'[p][u]
    <3>1. CASE u = t
      BY <1>1, <2>1, <2>3, <2>4, <2>5, <3>1
    <3>2. CASE u # t
      BY <1>1, <2>2, <2>3, <2>6, <3>2 DEF MadeRoots
    <3> QED
      BY <3>1, <3>2
  <2> QED
    BY <2>6 DEF MadeRoots
<1>5. ASSUME at' = at, made' = made PROVE MadeRoots(p)'
  BY <1>1, <1>5 DEF MadeRoots
<1> QED
  BY <1>3, <1>4, <1>5 DEF MakeRoot, Roots

LEMMA OwnRootsOpened ==
    ASSUME IInv, \A r \in Applies : Roots(r), NEW p \in Applies,
           OpenRoot(p) \/ OpenNamespace(p) \/ Abandon(p)
    PROVE  Roots(p)'
<1> USE DEF IInv, TypeOK, TypeOfControl, TypeOfHandles, TypeOfDisk
<1>2. Opened(p) /\ MadeRoots(p)
  BY DEF Roots
<1>3. CASE OpenRoot(p)
  <2>1. pc[p] = "open" /\ at' = at /\ made' = made /\ locked' = locked
    BY <1>3 DEF OpenRoot, disk
  <2>2. \A t \in Targets \ locked[p] : fd[p][t] = NoInode
    BY <1>2, <2>1, OpenedClosed
  <2>3. CASE fd' = fd
    BY <1>2, <2>1, <2>2, <2>3 DEF Roots, Opened, MadeRoots
  <2>4. CASE \E t \in Targets : First(p, t) /\ fd' = [fd EXCEPT ![p][t] = at[t]]
                                /\ Goto(p, "flock") /\ left' = left
    <3>1. PICK t \in Targets : First(p, t) /\ fd' = [fd EXCEPT ![p][t] = at[t]]
                                /\ Goto(p, "flock") /\ left' = left
      BY <2>4
    <3>2. pc'[p] = "flock" /\ First(p, t)' /\ t \notin locked[p]
      BY <2>1, <3>1 DEF Goto, First, TargetsTracked, Tracked, Preparing
    <3>3. Opened(p)'
      BY <2>1, <2>2, <3>1, <3>2 DEF Opened
    <3>4. MadeRoots(p)'
      BY <1>2, <2>1, <3>1, <3>2 DEF MadeRoots
    <3> QED
      BY <3>3, <3>4 DEF Roots
  <2> QED
    BY <1>3, <2>3, <2>4 DEF OpenRoot
<1>4. CASE OpenNamespace(p)
  <2>1. /\ pc[p] = "ns" /\ at' = at /\ made' = made /\ fd' = fd /\ left' = left
        /\ \E t \in Targets : /\ First(p, t)
                              /\ \/ locked' = [locked EXCEPT ![p] = @ \cup {t}] /\ Goto(p, "init")
                                 \/ locked' = locked /\ Goto(p, "abandon")
    BY <1>4 DEF OpenNamespace
  <2>2. PICK t \in Targets : /\ First(p, t)
                             /\ \/ locked' = [locked EXCEPT ![p] = @ \cup {t}] /\ Goto(p, "init")
                                \/ locked' = locked /\ Goto(p, "abandon")
    BY <2>1
  <2>3. \A u \in Targets \ locked[p] : fd[p][u] # NoInode => u = t
    BY <1>2, <2>2, FirstUnique DEF Opened
  <2>4. locked[p] \subseteq locked'[p] /\ (locked'[p] # locked[p] => t \in locked'[p])
    BY <2>2
  <2>5. t \in locked'[p] \/ (pc'[p] = "abandon" /\ First(p, t)')
    BY <2>1, <2>2 DEF Goto, First
  <2>6. Opened(p)'
    BY <2>1, <2>3, <2>4, <2>5 DEF Opened
  <2>7. MadeRoots(p)'
    BY <1>2, <2>1, <2>4 DEF MadeRoots
  <2> QED
    BY <2>6, <2>7 DEF Roots
<1>5. CASE Abandon(p)
  <2>1. PICK t \in Targets : First(p, t) /\ fd' = [fd EXCEPT ![p][t] = NoInode]
    BY <1>5 DEF Abandon
  <2>2. at' = at /\ made' = made /\ locked' = locked
    BY <1>5 DEF Abandon, disk
  <2>3. \A u \in Targets \ locked[p] : fd[p][u] # NoInode => u = t
    BY <1>2, <2>1, FirstUnique DEF Opened
  <2>4. Opened(p)'
    BY <2>1, <2>2, <2>3 DEF Opened
  <2>5. MadeRoots(p)'
    BY <1>2, <2>1, <2>2 DEF MadeRoots
  <2> QED
    BY <2>4, <2>5 DEF Roots
<1> QED
  BY <1>3, <1>4, <1>5

LEMMA OwnRootsClosed ==
    ASSUME IInv, \A r \in Applies : Roots(r), NEW p \in Applies,
           Unchain(p) \/ Report(p) \/ Release(p) \/ Crash(p)
    PROVE  Roots(p)'
<1> USE DEF IInv, TypeOK, TypeOfControl, TypeOfHandles, TypeOfDisk
<1>1. Opened(p) /\ MadeRoots(p)
  BY DEF Roots
<1>2. CASE Unchain(p)
  <2>1. PICK t \in Targets :
            /\ First(p, t) /\ made' = [made EXCEPT ![p][t] = NoInode]
            /\ at' = at \/ at' = [at EXCEPT ![t] = NoInode]
    BY <1>2 DEF Unchain
  <2>2. fd' = fd /\ locked' = locked /\ pc[p] = "unchain"
    BY <1>2 DEF Unchain
  <2>3. Opened(p)'
    BY <1>1, <2>2, OpenedClosed DEF Opened
  <2>4. MadeRoots(p)'
    BY <1>1, <2>1, <2>2 DEF MadeRoots
  <2> QED
    BY <2>3, <2>4 DEF Roots
<1>3. CASE Report(p)
  <2>1. PICK t \in Targets : First(p, t) /\ (at' = at \/ at' = [at EXCEPT ![t] = NoInode])
    BY <1>3 DEF Report
  <2>2. fd' = fd /\ locked' = locked /\ made' = made /\ pc[p] = "report"
    BY <1>3 DEF Report, handles
  <2>3. t \in locked[p]
    BY <2>1, <2>2 DEF First, TargetsTracked, Tracked, Looping
  <2>4. Opened(p)'
    BY <1>1, <2>2, OpenedClosed DEF Opened
  <2>5. MadeRoots(p)'
    BY <1>1, <2>1, <2>2, <2>3 DEF MadeRoots
  <2> QED
    BY <2>4, <2>5 DEF Roots
<1>4. CASE Release(p)
  <2>1. at' = at /\ pc[p] = "release"
    BY <1>4 DEF Release, disk
  <2>2. \A t \in Targets \ locked[p] : fd[p][t] = NoInode
    BY <1>1, <2>1, OpenedClosed
  <2>3. CASE UNCHANGED handles
    BY <1>1, <2>1, <2>2, <2>3 DEF Roots, Opened, MadeRoots, handles
  <2>4. CASE \E t \in Targets : /\ fd' = [fd EXCEPT ![p][t] = NoInode]
                                /\ made' = [made EXCEPT ![p][t] = NoInode]
                                /\ locked' = [locked EXCEPT ![p] = @ \ {t}]
    <3>1. PICK t \in Targets : /\ fd' = [fd EXCEPT ![p][t] = NoInode]
                               /\ made' = [made EXCEPT ![p][t] = NoInode]
                               /\ locked' = [locked EXCEPT ![p] = @ \ {t}]
      BY <2>4
    <3>2. Opened(p)'
      BY <2>2, <3>1 DEF Opened
    <3>3. MadeRoots(p)'
      BY <1>1, <2>1, <3>1 DEF MadeRoots
    <3> QED
      BY <3>2, <3>3 DEF Roots
  <2> QED
    BY <1>4, <2>3, <2>4 DEF Release
<1>5. CASE Crash(p)
  BY <1>5 DEF Crash, Roots, Opened, MadeRoots
<1> QED
  BY <1>2, <1>3, <1>4, <1>5

LEMMA OwnRoots ==
    ASSUME IInv, \A r \in Applies : Roots(r), NEW p \in Applies, Begin(p) \/ Step(p) \/ Crash(p)
    PROVE  Roots(p)'
<1>1. CASE ~RootStep(p)
  <2>1. at' = at /\ fd' = fd /\ made' = made /\ locked' = locked
    BY <1>1, RootsElse DEF RootStep
  <2>2. Opened(p) /\ MadeRoots(p)
    BY DEF Roots
  <2>3. MadeRoots(p)'
    BY <2>1, <2>2 DEF MadeRoots
  <2>4. CASE LockRoot(p) \/ LockExpires(p)
    <3>1. pc'[p] \in {"ns", "abandon"} /\ left' = left
      BY <2>4 DEF LockRoot, LockExpires, Goto, IInv, TypeOK, TypeOfControl
    <3> QED
      BY <2>1, <2>2, <2>3, <3>1 DEF Roots, Opened, First
  <2>5. CASE ~(LockRoot(p) \/ LockExpires(p))
    <3>1. pc[p] \notin {"flock", "ns", "abandon"}
      BY <1>1, <2>5 DEF RootStep, Step, Begin, ReadRecord, WalkTree, BuildPlan, LookAtRoot,
         InitMetadata, Validate, Stage, Promote, MoveAside, Install, CleanStaging, Publish,
         DropBackup, Settle, Undo, PutBackup, RestoreMetadata, Discard, Prune
    <3> QED
      BY <2>1, <2>2, <2>3, <3>1 DEF Roots, Opened
  <2> QED
    BY <2>4, <2>5
<1>2. CASE RootStep(p)
  BY <1>2, OwnRootsMade, OwnRootsOpened, OwnRootsClosed DEF RootStep
<1> QED
  BY <1>1, <1>2

------------------------------------------------------------------------------
(* What a transaction relies on is changed by its own run only.             *)
LEMMA OthersTrees ==
    ASSUME IInv, \A r \in Applies : Roots(r), NEW p \in Applies, Begin(p) \/ Step(p) \/ Crash(p),
           OthersUntouched(p), OwnRootsOnly(p), NEW q \in Applies \ {p}, Trees(q)
    PROVE  Trees(q)'
<1>1. /\ pc'[q] = pc[q] /\ left'[q] = left[q] /\ sel'[q] = sel[q] /\ want'[q] = want[q]
      /\ seen'[q] = seen[q] /\ fd'[q] = fd[q] /\ locked'[q] = locked[q]
      /\ journal'[q] = journal[q]
  BY DEF OthersUntouched
<1>2. phase'[q] = phase[q] /\ outcome'[q] = outcome[q]
  BY OthersCourse
<1>3. \A t \in locked[q] : tree'[fd[q][t]] = tree[fd[q][t]] /\ ns'[fd[q][t]] = ns[fd[q][t]]
  BY DEF OwnRootsOnly, IInv, LocksHeld, LocksHeldBy, Holds
<1>4. RootsHeld(q) => RootsHeld(q)'
  BY <1>1, <1>3, OthersRoots DEF RootsHeld
<1>5. /\ Ops(q)' = Ops(q) /\ Todo(q)' = Todo(q)
      /\ \A o : NextOp(q, o)' = NextOp(q, o) /\ Kind(q, o)' = Kind(q, o)
  BY <1>1 DEF Ops, Todo, NextOp, Kind
<1>6. \A t : Now(q, t)' = Now(q, t)
  BY <1>1, <1>5 DEF Now
<1>7. TreesFollow(q) => TreesFollow(q)'
  BY <1>1, <1>3, <1>6 DEF TreesFollow, InPlace, Room, Managed, IsDir, Absent
<1>8. \A o \in Ops(q) : o[1] \in sel[q]
  BY DEF Ops
<1>9. StepsFollow(q) /\ Active(q) => StepsFollow(q)'
  <2>1. pc[q] = "install" => sel[q] \subseteq locked[q]
    BY DEF IInv, TargetsTracked, Tracked, Working
  <2>2. pc[q] = "install" => \A o \in Ops(q) : \A y : IsDir(fd[q][o[1]], y)' = IsDir(fd[q][o[1]], y)
    BY <1>1, <1>3, <1>8, <2>1 DEF IsDir
  <2> QED
    BY <1>1, <1>5, <2>2 DEF StepsFollow
<1>10. RecordsFollow(q) => RecordsFollow(q)'
  BY <1>1, <1>3 DEF RecordsFollow, Rec, Published
<1>11. Planned(q) => Planned(q)'
  BY <1>1 DEF Planned, PlanBlocked
<1>12. Active(q)' = Active(q)
  BY <1>1, <1>2 DEF Active
<1>13. Transaction(q)'
  BY <1>4, <1>7, <1>9, <1>10, <1>11, <1>12 DEF Trees, Transaction
<1>14. Course(q)' /\ NothingDone(q)'
  BY <1>1, <1>2 DEF Trees, Course, NothingDone, RolledBack, Settled
<1> QED
  BY <1>13, <1>14 DEF Trees

(* A run never comes back to where it was before its first change, and       *)
(* journals and makes nothing until then.                                   *)
Unstarted(p) == pc[p] \in Early \cup {"idle", "scan", "walk", "plan", "stage"}

LEMMA UnstartedStep ==
    ASSUME IInv, NEW p \in Applies, Begin(p) \/ Step(p) \/ Crash(p), Unstarted(p)'
    PROVE  Unstarted(p) /\ journal' = journal /\ parents' = parents
<1> USE DEF IInv, TypeOK, TypeOfControl
<1>1. CASE Begin(p) \/ ReadRecord(p) \/ WalkTree(p) \/ BuildPlan(p)
  BY <1>1 DEF Begin, ReadRecord, WalkTree, BuildPlan, txn, Unstarted
<1>2. CASE \/ LookAtRoot(p) \/ MakeRoot(p) \/ OpenRoot(p) \/ LockRoot(p) \/ LockExpires(p)
           \/ OpenNamespace(p) \/ Abandon(p) \/ Unchain(p)
  BY <1>2 DEF LookAtRoot, MakeRoot, OpenRoot, LockRoot, LockExpires, OpenNamespace, Abandon,
     Unchain, txn, Unstarted, Early, Preparing
<1>3. CASE InitMetadata(p) \/ Validate(p)
  BY <1>3 DEF InitMetadata, Validate, txn, Unstarted, Early
<1>4. CASE Stage(p)
  BY <1>4 DEF Stage, txn, Unstarted
<1>5. CASE Promote(p) \/ CleanStaging(p) \/ Publish(p) \/ DropBackup(p) \/ Settle(p)
  <2> DEFINE Later == {"move", "install", "publish", "drop", "settle", "release", "undo"}
  <2>1. ASSUME CleanStaging(p) PROVE pc'[p] \in Later
    <3>1. Goto(p, "publish") \/ Fail(p)
      BY <2>1 DEF CleanStaging
    <3> QED
      BY <3>1 DEF Goto, Fail
  <2>2. ASSUME Promote(p) PROVE pc'[p] \in Later
    <3>1. Goto(p, "install") \/ Goto(p, "move") \/ Fail(p)
      BY <2>2 DEF Promote
    <3> QED
      BY <3>1 DEF Goto, Fail
  <2>3. ASSUME Publish(p) \/ DropBackup(p) \/ Settle(p) PROVE pc'[p] \in Later
    <3>1. \/ Fail(p)
          \/ \E t \in Targets : \/ Loop(p, t, "publish", "drop", locked[p])
                               \/ Loop(p, t, "drop", "release", locked[p])
                               \/ Loop(p, t, "settle", "release", locked[p])
      BY <2>3 DEF Publish, DropBackup, Settle
    <3> QED
      BY <3>1 DEF Loop, Goto, Fail
  <2>4. pc'[p] \in Later
    BY <1>5, <2>1, <2>2, <2>3
  <2> QED
    BY <2>4 DEF Unstarted, Early, Preparing
<1>6. CASE MoveAside(p) \/ Install(p)
  <2>1. PICK o : Journaled(p, o) \/ Fail(p) \/ Goto(p, "install")
    BY <1>6 DEF MoveAside, Install, PutAside, PutLink, PutNoLink
  <2>2. pc'[p] \notin Early \cup {"idle", "scan", "walk", "plan", "stage"}
    BY <2>1 DEF Journaled, Goto, Fail, Early, Preparing
  <2> QED
    BY <2>2 DEF Unstarted
<1>7. CASE \/ Undo(p) \/ PutBackup(p) \/ RestoreMetadata(p) \/ Discard(p) \/ Prune(p) \/ Report(p)
           \/ Release(p) \/ Crash(p)
  <2>1. pc'[p] \in {"undo", "putback", "restore", "discard", "prune", "report", "release", "done"}
    BY <1>7 DEF Undo, PutBackup, RestoreMetadata, Discard, Prune, Report, Release, Crash, Loop, Goto
  <2> QED
    BY <2>1 DEF Unstarted, Early, Preparing
<1> QED
  BY <1>1, <1>2, <1>3, <1>4, <1>5, <1>6, <1>7 DEF Step

(* It gets there in the first two phases.                                   *)
LEMMA OwnNothingDone ==
    ASSUME IInv, NEW p \in Applies, Trees(p), Begin(p) \/ Step(p) \/ Crash(p)
    PROVE  NothingDone(p)'
<1> USE DEF IInv, TypeOK, TypeOfControl, TypeOfTxn
<1>1. Course(p) /\ NothingDone(p)
  BY DEF Trees
<1>2. CASE Begin(p) \/ ReadRecord(p) \/ WalkTree(p) \/ BuildPlan(p)
  <2>1. /\ journal' = journal /\ phase' = phase /\ pc[p] \in {"idle", "scan", "walk", "plan"}
        /\ pc'[p] \in {"scan", "walk", "plan", "root", "done"}
    BY <1>2 DEF Begin, ReadRecord, WalkTree, BuildPlan, Loop, Leave, Goto, txn
  <2> QED
    BY <1>1, <2>1 DEF NothingDone, Course, Early, Preparing
<1>3. CASE \/ LookAtRoot(p) \/ MakeRoot(p) \/ OpenRoot(p) \/ LockRoot(p) \/ LockExpires(p)
           \/ OpenNamespace(p) \/ Abandon(p) \/ Unchain(p)
  <2>1. journal' = journal /\ phase' = phase /\ pc[p] \in Preparing
    BY <1>3 DEF LookAtRoot, MakeRoot, OpenRoot, LockRoot, LockExpires, OpenNamespace, Abandon,
       Unchain, txn, Preparing
  <2> QED
    BY <1>1, <2>1 DEF NothingDone, Early
<1>4. CASE InitMetadata(p) \/ Validate(p)
  <2>1. journal' = journal /\ pc[p] \in {"init", "validate"}
    BY <1>4 DEF InitMetadata, Validate, txn
  <2>2. pc'[p] \in Early => phase'[p] \in {phase[p], "validation"}
    <3>1. CASE InitMetadata(p)
      BY <3>1 DEF InitMetadata
    <3>2. CASE Validate(p)
      BY <3>2 DEF Validate, Loop, Goto, Fail, Early, Preparing
    <3> QED
      BY <1>4, <3>1, <3>2
  <2> QED
    BY <1>1, <2>1, <2>2 DEF NothingDone, Early
<1>5. Unstarted(p)' => journal'[p] = {}
  BY <1>1, UnstartedStep DEF Unstarted, NothingDone
<1>6. CASE pc'[p] \in Early /\ pc[p] # "stage"
  <2>1. Unstarted(p)
    BY <1>6, UnstartedStep DEF Unstarted
  <2>2. \/ Begin(p) \/ ReadRecord(p) \/ WalkTree(p) \/ BuildPlan(p) \/ LookAtRoot(p) \/ MakeRoot(p)
        \/ OpenRoot(p) \/ LockRoot(p) \/ LockExpires(p) \/ OpenNamespace(p) \/ Abandon(p)
        \/ Unchain(p) \/ InitMetadata(p) \/ Validate(p) \/ Crash(p)
    BY <1>6, <2>1 DEF Unstarted, Early, Preparing, Step, Stage, Promote, MoveAside, Install,
       CleanStaging, Publish, DropBackup, Settle, Undo, PutBackup, RestoreMetadata, Discard, Prune,
       Report, Release
  <2>3. ~Crash(p)
    BY <1>6 DEF Crash, Goto, Early, Preparing
  <2> QED
    BY <1>2, <1>3, <1>4, <2>2, <2>3
<1>7. CASE pc'[p] \notin Early
  BY <1>5, <1>7 DEF NothingDone, Unstarted
<1>8. CASE pc[p] = "stage"
  <2>1. Stage(p) \/ Crash(p)
    BY <1>8 DEF Step, Begin, ReadRecord, WalkTree, BuildPlan, LookAtRoot, MakeRoot, OpenRoot,
       LockRoot, LockExpires, OpenNamespace, Abandon, Unchain, InitMetadata, Validate, Promote,
       MoveAside, Install, CleanStaging, Publish, DropBackup, Settle, Undo, PutBackup,
       RestoreMetadata, Discard, Prune, Report, Release
  <2>2. pc'[p] \in {"promote", "undo", "settle", "done"}
    BY <2>1 DEF Stage, Crash, Goto, Fail
  <2> QED
    BY <2>2 DEF NothingDone, Early, Preparing
<1> QED
  BY <1>6, <1>7, <1>8

(* A transaction begins behind the last validated target.                   *)
LEMMA TransactionBegins ==
    ASSUME IInv, NEW p \in Applies, Trees(p), Begin(p) \/ Step(p) \/ Crash(p), ~Active(p), Active(p)'
    PROVE  Validate(p) /\ pc'[p] = "stage"
<1> USE DEF IInv, TypeOK, TypeOfControl
<1>1. Course(p)
  BY DEF Trees
<1>2. CASE Begin(p) \/ ReadRecord(p) \/ WalkTree(p) \/ BuildPlan(p)
  BY <1>2 DEF Begin, ReadRecord, WalkTree, BuildPlan, Loop, Leave, Goto, Active, Promoting
<1>3. CASE \/ LookAtRoot(p) \/ MakeRoot(p) \/ OpenRoot(p) \/ LockRoot(p) \/ LockExpires(p)
           \/ OpenNamespace(p) \/ Abandon(p) \/ Unchain(p)
  <2>1. pc[p] \in Preparing
    BY <1>3 DEF LookAtRoot, MakeRoot, OpenRoot, LockRoot, LockExpires, OpenNamespace, Abandon,
       Unchain, Preparing
  <2>2. phase[p] # "committed"
    BY <1>1, <2>1 DEF Course, Early
  <2>3. pc'[p] \in Early \cup {"undo"}
    BY <1>3, <2>2 DEF LookAtRoot, MakeRoot, OpenRoot, LockRoot, LockExpires, OpenNamespace, Abandon,
       Unchain, Goto, Fail, Early, Preparing
  <2> QED
    BY <2>3 DEF Active, Promoting, Early, Preparing
<1>4. CASE InitMetadata(p)
  <2>1. phase[p] # "committed"
    BY <1>1, <1>4 DEF Course, Early, InitMetadata
  <2>2. PICK t \in Targets : Loop(p, t, "root", "validate", locked[p]) \/ Fail(p)
    BY <1>4 DEF InitMetadata
  <2>3. pc'[p] \in {"root", "validate", "undo"}
    BY <2>1, <2>2 DEF Loop, Goto, Fail
  <2> QED
    BY <2>3 DEF Active, Promoting
<1>5. CASE Validate(p)
  <2>1. phase[p] # "committed"
    BY <1>1, <1>5 DEF Course, Early, Validate
  <2>2. pc'[p] \in {"validate", "stage", "undo"}
    BY <1>5, <2>1 DEF Validate, Loop, Goto, Fail
  <2> QED
    BY <1>5, <2>2 DEF Active, Promoting
<1>6. CASE \/ Stage(p) \/ Promote(p) \/ MoveAside(p) \/ Install(p) \/ CleanStaging(p) \/ Publish(p)
           \/ DropBackup(p) \/ Settle(p)
  <2>1. Active(p)
    BY <1>6 DEF Stage, Promote, MoveAside, Install, CleanStaging, Publish, DropBackup, Settle, Active,
       Promoting
  <2> QED
    BY <2>1
<1>7. CASE Undo(p) \/ PutBackup(p) \/ RestoreMetadata(p) \/ Discard(p) \/ Prune(p) \/ Report(p)
  <2>1. /\ pc[p] \in {"undo", "putback", "restore", "discard", "prune", "report"}
        /\ outcome' = outcome
    BY <1>7 DEF Undo, PutBackup, RestoreMetadata, Discard, Prune, Report
  <2>2. pc'[p] \in {"undo", "putback", "restore", "discard", "prune", "report", "release"}
    BY <1>7 DEF Undo, PutBackup, RestoreMetadata, Discard, Prune, Report, Loop, Goto
  <2> QED
    BY <1>1, <2>1, <2>2 DEF Course, RolledBack, Active, Promoting
<1>8. CASE Release(p) \/ Crash(p)
  BY <1>8 DEF Release, Crash, Goto, Active, Promoting
<1> QED
  BY <1>2, <1>3, <1>4, <1>5, <1>6, <1>7, <1>8 DEF Step

------------------------------------------------------------------------------
(* What a scan under the locks found, as the transaction relies on it: the  *)
(* recorded links are in place, and the plan that was not blocked has room. *)
LEMMA PlannedTrees ==
    ASSUME IInv, NEW p \in Applies, NEW t \in locked[p], AsPlannedFor(p, t),
           ns[fd[p][t]].exists, Rec(p, t) # NoFile, fresh[p][t] => Rec(p, t) = EmptyRecord(p),
           journal[p] = {}, pc[p] # "install", ~Blocked(seen[p][t], want[p][t], CacheRoot[p])
    PROVE  InPlace(p, t) /\ Room(p, t)
<1> DEFINE i == fd[p][t]
           links == ns[i].managed.entries
<1>1. RecordedLinks(ns[i]) = links /\ (fresh[p][t] => links = NoLinks)
  BY DEF RecordedLinks, HasRecord, Rec, EmptyRecord
<1>2. /\ seen[p][t].entries = IF fresh[p][t] THEN NoLinks ELSE links
      /\ seen[p][t].unmanaged = Unmanaged(links, tree[i])
  BY <1>1 DEF AsPlannedFor, AsReviewed, Current, Scan
<1>3. seen[p][t].entries = links
  BY <1>1, <1>2
<1>4. Now(p, t) = [x \in Artifacts |-> links[x]]
  BY <1>3 DEF Now
<1>5. Managed(Now(p, t)) = Managed(links)
  BY <1>4 DEF Managed
<1>6. InPlace(p, t)
  <2>1. LinksSound(links, tree[i])
    BY <1>1 DEF AsPlannedFor, Scannable
  <2> QED
    BY <1>4, <2>1 DEF InPlace, LinksSound, Managed, IsDir
<1>7. ASSUME NEW x \in Managed(want[p][t])
      PROVE  /\ x \notin Managed(links) => tree[i][x].kind = "absent"
             /\ \A y \in Above[x] : tree[i][y].kind \in {"dir", "absent"} \/ y \in Managed(links)
  <2>1. ~Obstructed(seen[p][t], x)
    BY DEF Blocked
  <2>2. x \in Paths /\ Above[x] \subseteq Paths
    BY PlannerAssumption DEF Managed
  <2>3. \A z \in Paths \ Managed(links) : seen[p][t].unmanaged[z].kind = tree[i][z].kind
    BY <1>2 DEF Unmanaged
  <2> QED
    BY <2>1, <2>2, <2>3 DEF Obstructed
<1>8. Room(p, t)
  BY <1>5, <1>7 DEF Room, Absent
<1> QED
  BY <1>6, <1>8

LEMMA NextUnique ==
    ASSUME IInv, NEW p \in Applies, NEW o, NEW q, NextOp(p, o), NextOp(p, q)
    PROVE  o = q
<1> SUFFICES ASSUME o # q PROVE FALSE
  OBVIOUS
<1>1. o \in Operations /\ q \in Operations
  BY OpsTyped DEF NextOp, Todo, IInv, TypeOK
<1>2. Before(o, q) /\ Before(q, o)
  BY DEF NextOp
<1> QED
  BY <1>1, <1>2, ReconcilerAssumption, PlannerAssumption DEF Before, Operations

LEMMA NotNested ==
    ASSUME NEW p \in Applies, Planned(p), NEW t \in locked[p],
           NEW x \in Managed(want[p][t]), NEW y \in Managed(want[p][t])
    PROVE  y \notin Above[x]
BY DEF Planned, PlanBlocked, Blocked, NestedDesired

(* Where neither the trees nor the journal change.                          *)
LEMMA QuietTrees ==
    ASSUME NEW p \in Applies, Planned(p), RootsHeld(p), TreesFollow(p),
           at' = at, tree' = tree, sel'[p] = sel[p], want'[p] = want[p], seen'[p] = seen[p],
           journal'[p] = journal[p], pc[p] # "install", pc'[p] # "install",
           \A t \in locked'[p] : /\ t \in locked[p] /\ fd'[p][t] = fd[p][t]
                                 /\ ns'[fd[p][t]].exists = ns[fd[p][t]].exists
    PROVE  Planned(p)' /\ RootsHeld(p)' /\ TreesFollow(p)' /\ Ops(p)' = Ops(p)
<1>1. Planned(p)'
  BY DEF Planned, PlanBlocked
<1>2. RootsHeld(p)'
  BY DEF RootsHeld
<1>3. \A t : Now(p, t)' = Now(p, t)
  BY DEF Now
<1>4. TreesFollow(p)'
  BY <1>3 DEF TreesFollow, InPlace, Room, Managed, IsDir, Absent
<1>5. Ops(p)' = Ops(p)
  BY DEF Ops
<1> QED
  BY <1>1, <1>2, <1>4, <1>5

(* Validation begins the transaction.                                       *)
LEMMA ValidateTrees ==
    ASSUME IInv, RInv, envs = 0, NEW p \in Applies, Trees(p), Validate(p), pc'[p] = "stage"
    PROVE  Transaction(p)'
<1> USE DEF IInv, TypeOK, TypeOfControl
<1>1. PICK t \in Targets :
         /\ First(p, t) /\ Verified(p) /\ StillCurrent(p, t) /\ left[p] = {t}
  <2>1. pc[p] = "validate"
    BY DEF Validate
  <2> QED
    BY <2>1 DEF Validate, Loop, Goto, Fail
<1>2. /\ UNCHANGED <<disk, plan, handles, txn>> /\ pc[p] = "validate"
  BY DEF Validate
<1>3. /\ at' = at /\ tree' = tree /\ ns' = ns /\ sel' = sel /\ want' = want /\ seen' = seen
      /\ fd' = fd /\ locked' = locked /\ journal' = journal
  BY <1>2 DEF disk, plan, handles, txn
<1>4. Records(p) /\ NothingDone(p)
  BY DEF RInv, Trees
<1>5. locked[p] \subseteq sel[p] /\ ~PlanBlocked(p)
  BY <1>2, <1>4 DEF Records, Unblocked, Early
<1>6. \A u \in locked[p] :
         /\ ns[fd[p][u]].exists /\ Rec(p, u) # NoFile
         /\ fresh[p][u] => Rec(p, u) = EmptyRecord(p)
  BY <1>2, <1>4 DEF Records, Initialized, Early
<1>7. \A u \in locked[p] : AsPlannedFor(p, u)
  <2>1. AsPlannedFor(p, t)
    BY <1>1 DEF StillCurrent, AsPlannedFor
  <2>2. \A u \in locked[p] \ {t} : u \in Checked(p)
    BY <1>1, <1>2 DEF Checked
  <2> QED
    BY <1>2, <1>4, <2>1, <2>2 DEF Records, StillPlanned
<1>8. journal[p] = {}
  BY <1>2, <1>4 DEF NothingDone, Early
<1>9. TreesFollow(p)
  BY <1>2, <1>5, <1>6, <1>7, <1>8, PlannedTrees DEF TreesFollow, PlanBlocked
<1>10. Planned(p) /\ RootsHeld(p)
  BY <1>1, <1>5, <1>6 DEF Planned, RootsHeld, Verified
<1>11. Planned(p)' /\ RootsHeld(p)' /\ TreesFollow(p)'
  BY <1>2, <1>3, <1>9, <1>10, QuietTrees
<1>12. StepsFollow(p)' /\ RecordsFollow(p)'
  BY DEF StepsFollow, RecordsFollow
<1> QED
  BY <1>11, <1>12 DEF Transaction

(* An error before the last record ends the transaction, and one behind it  *)
(* leads to the release of what is committed.                               *)
LEMMA FailEnds ==
    ASSUME IInv, NEW p \in Applies, Course(p), Fail(p)
    PROVE  /\ pc[p] \in Promoting => pc'[p] = "undo" /\ ~Active(p)'
           /\ pc[p] = "drop" => pc'[p] = "settle"
<1> USE DEF IInv, TypeOK, TypeOfControl
<1>1. pc[p] \in Promoting => phase[p] # "committed"
  BY DEF Course
<1>2. pc[p] = "drop" => phase[p] = "committed"
  BY DEF Course
<1>3. pc'[p] = IF phase[p] = "committed" THEN "settle" ELSE "undo"
  BY DEF Fail, Goto
<1> QED
  BY <1>1, <1>2, <1>3 DEF Active, Promoting

(* The steps of a transaction that change no tree.                          *)
LEMMA StagingTrees ==
    ASSUME IInv, NEW p \in Applies, Trees(p), Stage(p) \/ CleanStaging(p)
    PROVE  Transaction(p)'
<1> USE DEF IInv, TypeOK, TypeOfControl
<1>1. /\ pc[p] \in {"stage", "clean"} /\ UNCHANGED <<disk, plan, handles, txn>>
      /\ pc[p] = "clean" => CleanStaging(p)
  BY DEF Stage, CleanStaging
<1>2. Transaction(p) /\ Active(p) /\ Course(p)
  BY <1>1 DEF Trees, Active, Promoting
<1>3. CASE Fail(p)
  BY <1>1, <1>2, <1>3, FailEnds DEF Transaction, Promoting
<1>4. CASE ~Fail(p)
  <2>1. \/ pc'[p] = "promote" /\ pc[p] = "stage"
        \/ pc'[p] = "publish" /\ pc[p] = "clean" /\ left'[p] = locked[p]
    BY <1>4 DEF Stage, CleanStaging, Goto
  <2>2. /\ Planned(p)' /\ RootsHeld(p)' /\ TreesFollow(p)' /\ Ops(p)' = Ops(p)
    BY <1>1, <1>2, <2>1, QuietTrees DEF Transaction, disk, plan, handles, txn
  <2>3. StepsFollow(p)'
    BY <1>1, <1>2, <2>1, <2>2 DEF Transaction, StepsFollow, txn
  <2>4. RecordsFollow(p)'
    BY <1>1, <2>1 DEF RecordsFollow, handles
  <2> QED
    BY <2>2, <2>3, <2>4 DEF Transaction
<1> QED
  BY <1>3, <1>4

LEMMA PublishTrees ==
    ASSUME IInv, NEW p \in Applies, Trees(p), Publish(p)
    PROVE  Transaction(p)'
<1> USE DEF IInv, TypeOK, TypeOfControl, TypeOfDisk
<1>1. pc[p] = "publish" /\ UNCHANGED <<at, alive, tree, plan, handles, txn>>
  BY DEF Publish
<1>2. Transaction(p) /\ Active(p) /\ Course(p) /\ locked[p] \subseteq Targets
  BY <1>1 DEF Trees, Active, Promoting, TypeOfHandles
<1>3. CASE Fail(p)
  BY <1>1, <1>2, <1>3, FailEnds DEF Transaction, Promoting
<1>4. CASE ~Fail(p)
  <2>1. PICK t \in Targets :
           /\ First(p, t) /\ ns' = [ns EXCEPT ![fd[p][t]].managed = Published(p, t)]
           /\ Loop(p, t, "publish", "drop", locked[p])
    BY <1>4 DEF Publish
  <2>2. t \in locked[p]
    BY <1>1, <2>1 DEF First, TargetsTracked, Tracked, Looping
  <2>3. \A u \in locked[p] : fd[p][u] \in Inodes /\ (fd[p][u] = fd[p][t] => u = t)
    BY <1>2, <2>1, ReconcilerAssumption DEF LocksHeld, LocksHeldBy, Holds, InodesApart
  <2>4. \A u \in locked[p] : ns'[fd[p][u]].exists = ns[fd[p][u]].exists
    BY <2>1, <2>2, <2>3
  <2>5. ns'[fd[p][t]].managed = Published(p, t)
        /\ \A u \in locked[p] \ {t} : ns'[fd[p][u]] = ns[fd[p][u]]
    BY <2>1, <2>2, <2>3
  <2>6. \/ pc'[p] = "publish" /\ left'[p] = left[p] \ {t}
        \/ pc'[p] = "drop" /\ left[p] = {t}
    BY <2>1 DEF Loop, Goto
  <2>7. Planned(p)' /\ RootsHeld(p)' /\ TreesFollow(p)' /\ Ops(p)' = Ops(p)
    BY <1>1, <1>2, <2>4, <2>6, QuietTrees DEF Transaction, plan, handles, txn
  <2>8. StepsFollow(p)'
    BY <1>1, <1>2, <2>6, <2>7 DEF Transaction, StepsFollow, txn
  <2>9. \A u \in locked[p] \ {t} : u \notin left[p] => Rec(p, u) = Published(p, u)
    BY <1>1, <1>2 DEF Transaction, RecordsFollow
  <2>10. \A u \in locked[p] : Published(p, u)' = Published(p, u) /\ fd'[p][u] = fd[p][u]
    BY <1>1 DEF Published, plan, handles
  <2>11. \A u \in locked[p] : u = t \/ u \notin left[p] => Rec(p, u)' = Published(p, u)'
    BY <2>5, <2>9, <2>10 DEF Rec
  <2>12. RecordsFollow(p)'
    BY <1>1, <2>6, <2>11 DEF RecordsFollow, handles
  <2> QED
    BY <2>7, <2>8, <2>12 DEF Transaction
<1> QED
  BY <1>3, <1>4

(* Behind the last record the outcome is settled, and roots are released.   *)
LEMMA CommittedTrees ==
    ASSUME IInv, NEW p \in Applies, Trees(p), DropBackup(p) \/ Settle(p)
    PROVE  Transaction(p)'
<1> USE DEF IInv, TypeOK, TypeOfControl, TypeOfDisk
<1>1. pc[p] \in {"drop", "settle"} /\ UNCHANGED <<at, alive, tree, plan, handles, journal>>
  BY DEF DropBackup, Settle, disk
<1>2. Transaction(p) /\ Active(p) /\ Course(p) /\ locked[p] \subseteq Targets
  BY <1>1 DEF Trees, Active, Promoting, TypeOfHandles
<1>3. pc'[p] \in {"drop", "settle", "release"}
  <2>1. CASE Fail(p)
    BY <1>1, <1>2, <2>1, FailEnds DEF DropBackup, Settle, Loop, Fail, Goto, Course
  <2>2. CASE ~Fail(p)
    BY <2>2 DEF DropBackup, Settle, Loop, Goto
  <2> QED
    BY <2>1, <2>2
<1>4. \A i \in Inodes : ns'[i].exists = ns[i].exists /\ ns'[i].managed = ns[i].managed
  <2>1. ns' = ns \/ \E t \in Targets : ns' = [ns EXCEPT ![fd[p][t]].failure = TRUE]
    BY DEF DropBackup, Settle, disk
  <2>2. CASE ns' = ns
    BY <2>2
  <2>3. ASSUME NEW t \in Targets, ns' = [ns EXCEPT ![fd[p][t]].failure = TRUE], NEW i \in Inodes
        PROVE  ns'[i].exists = ns[i].exists /\ ns'[i].managed = ns[i].managed
    <3>1. ns[i] \in Namespace /\ ns'[i] = IF i = fd[p][t] THEN [ns[i] EXCEPT !.failure = TRUE]
                                          ELSE ns[i]
      BY <2>3
    <3> QED
      BY <3>1 DEF Namespace
  <2> QED
    BY <2>1, <2>2, <2>3
<1>5. \A u \in locked[p] : fd[p][u] \in Inodes
  BY DEF LocksHeld, LocksHeldBy, Holds
<1>6. Planned(p)' /\ RootsHeld(p)' /\ TreesFollow(p)' /\ Ops(p)' = Ops(p)
  BY <1>1, <1>2, <1>3, <1>4, <1>5, QuietTrees DEF Transaction, plan, handles
<1>7. StepsFollow(p)'
  BY <1>1, <1>2, <1>3, <1>6 DEF Transaction, StepsFollow
<1>8. RecordsFollow(p)'
  BY <1>1, <1>2, <1>4, <1>5 DEF Transaction, RecordsFollow, Rec, Published, plan, handles
<1> QED
  BY <1>6, <1>7, <1>8 DEF Transaction

LEMMA ReleaseTrees ==
    ASSUME IInv, NEW p \in Applies, Trees(p), Release(p)
    PROVE  Transaction(p)'
<1> USE DEF IInv, TypeOK, TypeOfControl, TypeOfHandles
<1>1. pc[p] = "release" /\ disk' = disk
  BY DEF Release
<1>2. CASE Goto(p, "done")
  BY <1>2 DEF Goto, Transaction, Active, Promoting
<1>3. CASE ~Goto(p, "done")
  <2>1. PICK t \in Targets :
           /\ fd' = [fd EXCEPT ![p][t] = NoInode]
           /\ locked' = [locked EXCEPT ![p] = @ \ {t}]
           /\ UNCHANGED <<pc, plan, journal, outcome>>
    BY <1>3 DEF Release
  <2>2. CASE ~Active(p)
    BY <2>1, <2>2 DEF Transaction, Active
  <2>3. CASE Active(p)
    <3>1. Planned(p) /\ RootsHeld(p) /\ TreesFollow(p) /\ StepsFollow(p) /\ RecordsFollow(p)
      BY <2>3 DEF Trees, Transaction
    <3>2. \A u \in locked'[p] : u \in locked[p] /\ fd'[p][u] = fd[p][u]
      BY <2>1
    <3>3. Planned(p)' /\ RootsHeld(p)' /\ TreesFollow(p)' /\ Ops(p)' = Ops(p)
      BY <1>1, <2>1, <3>1, <3>2, QuietTrees DEF plan, disk
    <3>4. StepsFollow(p)' /\ RecordsFollow(p)'
      BY <1>1, <2>1, <3>1, <3>2, <3>3 DEF StepsFollow, RecordsFollow, Rec, Published, plan, disk
    <3> QED
      BY <3>3, <3>4 DEF Transaction
  <2> QED
    BY <2>2, <2>3
<1> QED
  BY <1>2, <1>3

------------------------------------------------------------------------------
(* The steps that change a tree.  They happen at the next operation, below  *)
(* one root; what the run relies on below its other roots stays.            *)
Elsewhere(p, o) ==
    \A t \in locked[p] \ {o[1]} :
        /\ tree'[fd'[p][t]] = tree[fd[p][t]]
        /\ \A x \in Artifacts : Now(p, t)'[x] = Now(p, t)[x]

LEMMA ElsewhereTrees ==
    ASSUME NEW p \in Applies, NEW o, TreesFollow(p), Elsewhere(p, o), want'[p] = want[p]
    PROVE  \A t \in locked[p] \ {o[1]} : InPlace(p, t)' /\ Room(p, t)'
<1> SUFFICES ASSUME NEW t \in locked[p] \ {o[1]} PROVE InPlace(p, t)' /\ Room(p, t)'
  OBVIOUS
<1>1. Now(p, t)' = Now(p, t)
  BY DEF Now, Elsewhere
<1> QED
  BY <1>1 DEF TreesFollow, InPlace, Room, Managed, IsDir, Absent, Elsewhere

(* Where a run is with its operations.                                      *)
LEMMA AtOperation ==
    ASSUME IInv, NEW p \in Applies, Trees(p), pc[p] \in {"promote", "move", "install"},
           NEW o \in Ops(p), NextOp(p, o)
    PROVE  /\ Planned(p) /\ RootsHeld(p) /\ TreesFollow(p) /\ StepsFollow(p) /\ Course(p)
           /\ o \in Operations /\ o = <<o[1], o[2]>>
           /\ o[1] \in locked[p] /\ o[1] \in Targets /\ o[2] \in Artifacts /\ o[2] \in Paths
           /\ o \notin journal[p]
           /\ \A q : NextOp(p, q) <=> q = o
           /\ \A t \in locked[p] : /\ t \in Targets /\ fd[p][t] \in Inodes
                                   /\ fd[p][t] = fd[p][o[1]] => t = o[1]
           /\ \A y \in Above[o[2]] : y \in Paths /\ y # o[2]
<1> USE DEF IInv, TypeOK, TypeOfHandles
<1>1. Active(p) /\ pc[p] \in Working
  BY DEF Active, Promoting, Working
<1>2. Planned(p) /\ RootsHeld(p) /\ TreesFollow(p) /\ StepsFollow(p) /\ Course(p)
  BY <1>1 DEF Trees, Transaction
<1>3. /\ o \in Operations /\ o = <<o[1], o[2]>> /\ o[1] \in Targets
      /\ o[2] \in Artifacts /\ o[2] \in Paths
  BY OpsTyped
<1>4. o[1] \in locked[p]
  BY <1>1, OpsLocked
<1>5. \A q : NextOp(p, q) <=> q = o
  BY NextUnique
<1>6. o \notin journal[p]
  BY DEF NextOp, Todo
<1>7. \A t \in locked[p] : t \in Targets /\ fd[p][t] \in Inodes /\ (fd[p][t] = fd[p][o[1]] => t = o[1])
  BY <1>3, <1>4, ReconcilerAssumption DEF LocksHeld, LocksHeldBy, Holds, InodesApart
<1>8. \A y \in Above[o[2]] : y \in Paths /\ y # o[2]
  BY <1>3, PlannerAssumption
<1> QED
  BY <1>2, <1>3, <1>4, <1>5, <1>6, <1>7, <1>8

(* The kind of an operation is what it finds and what it wants.             *)
LEMMA KindOf ==
    ASSUME NEW p \in Applies, NEW o \in Ops(p)
    PROVE  /\ Kind(p, o) \in {"CREATE", "REMOVE", "REPLACE"}
           /\ Kind(p, o) = "CREATE" => seen[p][o[1]].entries[o[2]] = NoSource
                                       /\ want[p][o[1]][o[2]] # NoSource
           /\ Kind(p, o) = "REMOVE" => seen[p][o[1]].entries[o[2]] # NoSource
                                       /\ want[p][o[1]][o[2]] = NoSource
           /\ Kind(p, o) = "REPLACE" => seen[p][o[1]].entries[o[2]] # NoSource
                                        /\ want[p][o[1]][o[2]] # NoSource
BY DEF Ops, Kind, Action, Mutations

LEMMA NowBefore ==
    ASSUME NEW p \in Applies, NEW t, pc[p] \in {"promote", "move"}
    PROVE  \A x \in Artifacts : Now(p, t)[x] =
              IF <<t, x>> \in journal[p] THEN want[p][t][x] ELSE seen[p][t].entries[x]
BY DEF Now

(* Missing parents are made for an operation that has room.                 *)
LEMMA PromoteTrees ==
    ASSUME IInv, NEW p \in Applies, Trees(p), Promote(p)
    PROVE  Transaction(p)'
<1> USE DEF IInv, TypeOK, TypeOfControl, TypeOfDisk
<1>1. PICK o \in Ops(p) :
         /\ NextOp(p, o)
         /\ \/ Fail(p)
            \/ /\ WayFree(p, o)
               /\ MakesParents(p, o, Parents(p, o), Parents(p, o))
               /\ Goto(p, IF Kind(p, o) = "CREATE" THEN "install" ELSE "move")
  BY DEF Promote
<1>2. /\ pc[p] = "promote"
      /\ UNCHANGED <<at, alive, ns, plan, phase, handles, journal>>
  BY DEF Promote
<1>3. /\ at' = at /\ ns' = ns /\ sel' = sel /\ want' = want /\ seen' = seen /\ fd' = fd
      /\ locked' = locked /\ journal' = journal
  BY <1>2 DEF plan, handles
<1>4. CASE Fail(p)
  <2>1. Course(p)
    BY DEF Trees
  <2> QED
    BY <1>2, <1>4, <2>1, FailEnds DEF Transaction, Promoting
<1>5. CASE /\ WayFree(p, o)
           /\ MakesParents(p, o, Parents(p, o), Parents(p, o))
           /\ Goto(p, IF Kind(p, o) = "CREATE" THEN "install" ELSE "move")
  <2> DEFINE t == o[1]
             i == fd[p][t]
  <2>1. /\ Planned(p) /\ RootsHeld(p) /\ TreesFollow(p)
        /\ o \in Operations /\ o = <<t, o[2]>>
        /\ t \in locked[p] /\ t \in Targets /\ o[2] \in Artifacts /\ o[2] \in Paths
        /\ o \notin journal[p] /\ i \in Inodes
        /\ \A q : NextOp(p, q) <=> q = o
        /\ \A u \in locked[p] : fd[p][u] \in Inodes /\ (fd[p][u] = i => u = t)
        /\ \A y \in Above[o[2]] : y \in Paths
    BY <1>1, <1>2, AtOperation
  <2>2. pc'[p] = IF Kind(p, o) = "CREATE" THEN "install" ELSE "move"
    BY <1>5 DEF Goto
  <2>3. /\ Ops(p)' = Ops(p) /\ \A q : NextOp(p, q)' <=> q = o
        /\ \A q : Kind(p, q)' = Kind(p, q)
    BY <1>3, <2>1 DEF Ops, Todo, NextOp, Kind
  <2>4. \A u \in locked[p] : \A x \in Artifacts : Now(p, u)'[x] = Now(p, u)[x]
    <3>1. SUFFICES ASSUME NEW u \in locked[p], NEW x \in Artifacts PROVE Now(p, u)'[x] = Now(p, u)[x]
      OBVIOUS
    <3>2. Now(p, u)[x] = IF <<u, x>> \in journal[p] THEN want[p][u][x] ELSE seen[p][u].entries[x]
      BY <1>2, NowBefore
    <3>3. Now(p, u)'[x] = IF <<u, x>> \in journal[p] THEN want[p][u][x]
                          ELSE IF pc'[p] = "install" /\ <<u, x>> = o THEN NoSource
                          ELSE seen[p][u].entries[x]
      BY <1>3, <2>3 DEF Now
    <3>4. pc'[p] = "install" => seen[p][t].entries[o[2]] = NoSource
      BY <2>2, KindOf
    <3> QED
      BY <2>1, <3>2, <3>3, <3>4
  <2>5. \A u \in locked[p] \ {t} : tree'[fd[p][u]] = tree[fd[p][u]]
    BY <1>5, <2>1 DEF MakesParents
  <2>6. \A y \in Paths : tree'[i][y] = IF y \in Parents(p, o)
                                       THEN [kind |-> "dir", to |-> NoSource, by |-> p] ELSE tree[i][y]
    BY <1>5, <2>1 DEF MakesParents
  <2>7. \A y \in Parents(p, o) : y \in Above[o[2]] /\ tree[i][y].kind = "absent"
    BY DEF Parents, Absent
  <2>8. Elsewhere(p, o)
    BY <1>3, <2>4, <2>5 DEF Elsewhere
  <2>9. \A u \in locked[p] \ {t} : InPlace(p, u)' /\ Room(p, u)'
    BY <1>3, <2>1, <2>8, ElsewhereTrees
  <2>10. InPlace(p, t) /\ Room(p, t)
    BY <2>1 DEF TreesFollow
  <2>11. Managed(Now(p, t)') = Managed(Now(p, t)) /\ Managed(Now(p, t)) \subseteq Artifacts
    BY <2>1, <2>4 DEF Managed
  <2>12. \A x \in Artifacts : x \in Paths /\ Above[x] \subseteq Paths
    BY PlannerAssumption
  <2>13. InPlace(p, t)'
    <3>1. ASSUME NEW x \in Managed(Now(p, t))
          PROVE  /\ tree'[i][x].kind = "link" /\ tree'[i][x].to = Now(p, t)[x]
                 /\ \A y \in Above[x] : tree'[i][y].kind = "dir"
      <4>1. /\ tree[i][x].kind = "link" /\ tree[i][x].to = Now(p, t)[x] /\ x \in Paths
            /\ \A y \in Above[x] : tree[i][y].kind = "dir" /\ y \in Paths
        BY <2>10, <2>11, <2>12 DEF InPlace, IsDir
      <4> QED
        BY <2>6, <2>7, <4>1
    <3>2. \A x \in Managed(Now(p, t)) : Now(p, t)'[x] = Now(p, t)[x]
      BY <2>1, <2>4, <2>11
    <3> QED
      BY <1>3, <2>11, <3>1, <3>2 DEF InPlace, IsDir
  <2>14. Room(p, t)'
    <3>1. ASSUME NEW x \in Managed(want[p][t]) PROVE x \notin Parents(p, o)
      <4>1. CASE want[p][t][o[2]] # NoSource
        BY <2>1, <2>7, <4>1, NotNested DEF Managed
      <4>2. CASE want[p][t][o[2]] = NoSource
        <5>1. Kind(p, o) = "REMOVE"
          BY <4>2, KindOf
        <5>2. o[2] \in Managed(Now(p, t))
          BY <1>2, <2>1, <5>1, KindOf, NowBefore DEF Managed
        <5> QED
          BY <2>7, <2>10, <5>2 DEF InPlace, IsDir
      <4> QED
        BY <4>1, <4>2
    <3>2. ASSUME NEW x \in Managed(want[p][t])
          PROVE  /\ x \notin Managed(Now(p, t)) => tree'[i][x].kind = "absent"
                 /\ \A y \in Above[x] : tree'[i][y].kind \in {"dir", "absent"}
                                        \/ y \in Managed(Now(p, t))
      <4>1. /\ x \notin Managed(Now(p, t)) => tree[i][x].kind = "absent"
            /\ \A y \in Above[x] : tree[i][y].kind \in {"dir", "absent"} \/ y \in Managed(Now(p, t))
        BY <2>10 DEF Room, Absent
      <4>2. x \in Paths /\ Above[x] \subseteq Paths
        BY <2>12 DEF Managed
      <4> QED
        BY <2>6, <3>1, <4>1, <4>2
    <3> QED
      BY <1>3, <2>11, <3>2 DEF Room, Absent
  <2>15. TreesFollow(p)'
    BY <1>3, <2>9, <2>13, <2>14 DEF TreesFollow
  <2>16. Planned(p)' /\ RootsHeld(p)' /\ RecordsFollow(p)'
    BY <1>3, <2>1, <2>2 DEF Planned, PlanBlocked, RootsHeld, RecordsFollow
  <2>17. StepsFollow(p)'
    <3>1. pc'[p] = "move" => Kind(p, o) \in {"REPLACE", "REMOVE"}
      BY <2>2, KindOf
    <3>2. pc'[p] = "install" => want[p][t][o[2]] # NoSource
      BY <2>2, KindOf
    <3>3. \A y \in Above[o[2]] : tree'[i][y].kind = "dir"
      BY <1>5, <2>1, <2>6 DEF WayFree, Parents, Absent
    <3> QED
      BY <1>3, <2>2, <2>3, <3>1, <3>2, <3>3 DEF StepsFollow, IsDir
  <2> QED
    BY <2>15, <2>16, <2>17 DEF Transaction
<1> QED
  BY <1>1, <1>4, <1>5

(* An operation that is journaled was the last one, or the next one begins. *)
LEMMA JournaledEnds ==
    ASSUME IInv, NEW p \in Applies, NEW o \in Ops(p), Course(p), pc[p] \in Promoting,
           Journaled(p, o), UNCHANGED plan
    PROVE  /\ journal'[p] = journal[p] \cup {o}
           /\ \/ ~Active(p)'
              \/ pc'[p] = "promote"
              \/ pc'[p] = "clean" /\ Ops(p)' \subseteq journal'[p]
<1> USE DEF IInv, TypeOK, TypeOfControl, TypeOfTxn
<1>1. journal'[p] = journal[p] \cup {o}
  BY DEF Journaled
<1>2. CASE Fail(p)
  BY <1>1, <1>2, FailEnds
<1>3. CASE ~Fail(p)
  <2>1. pc'[p] = IF Todo(p) = {o} THEN "clean" ELSE "promote"
    BY <1>3 DEF Journaled, Goto
  <2>2. Ops(p)' = Ops(p)
    BY DEF Ops, plan
  <2> QED
    BY <1>1, <2>1, <2>2 DEF Todo
<1> QED
  BY <1>2, <1>3

(* A link that is moved aside leaves its place free.                        *)
LEMMA MoveTrees ==
    ASSUME IInv, NEW p \in Applies, Trees(p), MoveAside(p)
    PROVE  Transaction(p)'
<1> USE DEF IInv, TypeOK, TypeOfControl, TypeOfDisk
<1>1. PICK o \in Ops(p) :
         /\ NextOp(p, o)
         /\ \/ Fail(p)
            \/ /\ tree' = [tree EXCEPT ![fd[p][o[1]]][o[2]] = Hole]
               /\ \/ Kind(p, o) = "REMOVE" /\ Journaled(p, o)
                  \/ /\ Kind(p, o) = "REPLACE"
                     /\ Goto(p, "install")
                     /\ journal' = journal
  BY DEF MoveAside, PutAside
<1>2. pc[p] = "move" /\ UNCHANGED <<at, alive, ns, plan, handles>>
  BY DEF MoveAside
<1>3. /\ at' = at /\ ns' = ns /\ sel' = sel /\ want' = want /\ seen' = seen /\ fd' = fd
      /\ locked' = locked
  BY <1>2 DEF plan, handles
<1>4. Course(p)
  BY DEF Trees
<1>5. CASE ~Active(p)'
  BY <1>5 DEF Transaction
<1>6. CASE Active(p)'
  <2> DEFINE t == o[1]
             i == fd[p][t]
  <2>1. ~Fail(p)
    BY <1>2, <1>4, <1>6, FailEnds DEF Promoting
  <2>2. /\ tree' = [tree EXCEPT ![i][o[2]] = Hole]
        /\ Kind(p, o) \in {"REMOVE", "REPLACE"}
        /\ Kind(p, o) = "REMOVE" => /\ journal'[p] = journal[p] \cup {o}
                                    /\ pc'[p] \in {"promote", "clean"}
                                    /\ pc'[p] = "clean" => Ops(p)' \subseteq journal'[p]
        /\ Kind(p, o) = "REPLACE" => pc'[p] = "install" /\ journal' = journal
    BY <1>1, <1>2, <1>4, <1>6, <2>1, JournaledEnds DEF Goto, Promoting
  <2>3. /\ Planned(p) /\ RootsHeld(p) /\ TreesFollow(p)
        /\ o \in Operations /\ o = <<t, o[2]>>
        /\ t \in locked[p] /\ t \in Targets /\ o[2] \in Artifacts /\ o[2] \in Paths
        /\ o \notin journal[p] /\ i \in Inodes
        /\ \A q : NextOp(p, q) <=> q = o
        /\ \A u \in locked[p] : fd[p][u] \in Inodes /\ (fd[p][u] = i => u = t)
        /\ \A y \in Above[o[2]] : y \in Paths /\ y # o[2]
    BY <1>1, <1>2, AtOperation
  <2>4. pc'[p] = "install" => journal' = journal
    BY <2>2
  <2>5. Ops(p)' = Ops(p)
        /\ (pc'[p] = "install" => \A q : NextOp(p, q)' <=> q = o)
    BY <1>3, <2>3, <2>4 DEF Ops, Todo, NextOp
  <2>6. \A u \in locked[p] : \A x \in Artifacts :
           Now(p, u)'[x] = IF <<u, x>> = o THEN NoSource ELSE Now(p, u)[x]
    <3>1. SUFFICES ASSUME NEW u \in locked[p], NEW x \in Artifacts
                   PROVE  Now(p, u)'[x] = IF <<u, x>> = o THEN NoSource ELSE Now(p, u)[x]
      OBVIOUS
    <3>2. Now(p, u)[x] = IF <<u, x>> \in journal[p] THEN want[p][u][x] ELSE seen[p][u].entries[x]
      BY <1>2, NowBefore
    <3>3. Now(p, u)'[x] = IF <<u, x>> \in journal'[p] THEN want[p][u][x]
                          ELSE IF pc'[p] = "install" /\ <<u, x>> = o THEN NoSource
                          ELSE seen[p][u].entries[x]
      BY <1>3, <2>5 DEF Now
    <3>4. Kind(p, o) = "REMOVE" => want[p][t][o[2]] = NoSource
      BY KindOf
    <3>5. <<u, x>> = o => u = t /\ x = o[2]
      BY <2>3
    <3>6. CASE Kind(p, o) = "REMOVE"
      <4>1. journal'[p] = journal[p] \cup {o} /\ pc'[p] # "install"
        BY <2>2, <3>6
      <4> QED
        BY <3>2, <3>3, <3>4, <3>5, <3>6, <4>1
    <3>7. CASE Kind(p, o) = "REPLACE"
      <4>1. journal'[p] = journal[p] /\ pc'[p] = "install"
        BY <2>2, <3>7
      <4> QED
        BY <2>3, <3>2, <3>3, <4>1
    <3> QED
      BY <2>2, <3>6, <3>7
  <2>7. \A u \in locked[p] \ {t} : tree'[fd[p][u]] = tree[fd[p][u]]
    BY <2>2, <2>3
  <2>8. \A y \in Paths : tree'[i][y] = IF y = o[2] THEN Hole ELSE tree[i][y]
    BY <2>2, <2>3
  <2>9. Elsewhere(p, o)
    BY <1>3, <2>3, <2>6, <2>7 DEF Elsewhere
  <2>10. \A u \in locked[p] \ {t} : InPlace(p, u)' /\ Room(p, u)'
    BY <1>3, <2>3, <2>9, ElsewhereTrees
  <2>11. InPlace(p, t) /\ Room(p, t)
    BY <2>3 DEF TreesFollow
  <2>12. Managed(Now(p, t)') = Managed(Now(p, t)) \ {o[2]} /\ Managed(Now(p, t)) \subseteq Artifacts
    BY <2>3, <2>6 DEF Managed
  <2>13. \A x \in Artifacts : x \in Paths /\ Above[x] \subseteq Paths
    BY PlannerAssumption
  <2>14. o[2] \in Managed(Now(p, t))
    <3>1. seen[p][t].entries[o[2]] # NoSource
      BY <2>2, KindOf
    <3>2. Now(p, t)[o[2]] = seen[p][t].entries[o[2]]
      BY <1>2, <2>3, NowBefore
    <3> QED
      BY <2>3, <3>1, <3>2 DEF Managed
  <2>15. tree[i][o[2]].kind = "link" /\ \A y \in Above[o[2]] : tree[i][y].kind = "dir"
    BY <2>11, <2>14 DEF InPlace, IsDir
  <2>16. InPlace(p, t)'
    <3>1. ASSUME NEW x \in Managed(Now(p, t)) \ {o[2]}
          PROVE  /\ tree'[i][x].kind = "link" /\ tree'[i][x].to = Now(p, t)'[x]
                 /\ \A y \in Above[x] : tree'[i][y].kind = "dir"
      <4>1. /\ tree[i][x].kind = "link" /\ tree[i][x].to = Now(p, t)[x] /\ x \in Paths
            /\ \A y \in Above[x] : tree[i][y].kind = "dir" /\ y \in Paths
        BY <2>11, <2>12, <2>13 DEF InPlace, IsDir
      <4>2. Now(p, t)'[x] = Now(p, t)[x]
        BY <2>3, <2>6, <2>12
      <4> QED
        BY <2>8, <2>15, <4>1, <4>2
    <3> QED
      BY <1>3, <2>12, <3>1 DEF InPlace, IsDir
  <2>17. Room(p, t)'
    <3>1. Hole.kind = "absent"
      BY DEF Hole
    <3>2. ASSUME NEW x \in Managed(want[p][t])
          PROVE  /\ x \notin Managed(Now(p, t)) \ {o[2]} => tree'[i][x].kind = "absent"
                 /\ \A y \in Above[x] : tree'[i][y].kind \in {"dir", "absent"}
                                        \/ y \in Managed(Now(p, t)) \ {o[2]}
      <4>1. /\ x \notin Managed(Now(p, t)) => tree[i][x].kind = "absent"
            /\ \A y \in Above[x] : tree[i][y].kind \in {"dir", "absent"} \/ y \in Managed(Now(p, t))
        BY <2>11 DEF Room, Absent
      <4>2. x \in Paths /\ Above[x] \subseteq Paths
        BY <2>13 DEF Managed
      <4> QED
        BY <2>8, <3>1, <4>1, <4>2
    <3> QED
      BY <1>3, <2>12, <3>2 DEF Room, Absent
  <2>18. TreesFollow(p)'
    BY <1>3, <2>10, <2>16, <2>17 DEF TreesFollow
  <2>19. Planned(p)' /\ RootsHeld(p)'
    BY <1>3, <2>3 DEF Planned, PlanBlocked, RootsHeld
  <2>20. pc'[p] \in {"promote", "clean", "install"}
    BY <2>2
  <2>21. RecordsFollow(p)'
    BY <2>20 DEF RecordsFollow
  <2>22. StepsFollow(p)'
    <3>1. pc'[p] = "install" => want[p][t][o[2]] # NoSource
      BY <2>2, KindOf
    <3>2. \A y \in Above[o[2]] : tree'[i][y].kind = "dir"
      BY <2>3, <2>8, <2>15
    <3> QED
      BY <1>3, <2>2, <2>5, <2>20, <3>1, <3>2 DEF StepsFollow, IsDir
  <2> QED
    BY <2>18, <2>19, <2>21, <2>22 DEF Transaction
<1> QED
  BY <1>5, <1>6

(* A link is installed where it is wanted, below directories.               *)
LEMMA InstallTrees ==
    ASSUME IInv, NEW p \in Applies, Trees(p), Install(p)
    PROVE  Transaction(p)'
<1> USE DEF IInv, TypeOK, TypeOfControl, TypeOfDisk
<1>1. PICK o \in Ops(p) :
         /\ NextOp(p, o)
         /\ \/ Fail(p)
            \/ /\ ~IsDir(fd[p][o[1]], o[2])
               /\ tree' = [tree EXCEPT ![fd[p][o[1]]][o[2]] = StagedLink(p, o)]
               /\ Journaled(p, o)
  BY DEF Install, PutLink, PutNoLink
<1>2. pc[p] = "install" /\ UNCHANGED <<at, alive, ns, plan, handles>>
  BY DEF Install
<1>3. /\ at' = at /\ ns' = ns /\ sel' = sel /\ want' = want /\ seen' = seen /\ fd' = fd
      /\ locked' = locked
  BY <1>2 DEF plan, handles
<1>4. Course(p)
  BY DEF Trees
<1>5. CASE ~Active(p)'
  BY <1>5 DEF Transaction
<1>6. CASE Active(p)'
  <2> DEFINE t == o[1]
             i == fd[p][t]
  <2>1. ~Fail(p)
    BY <1>2, <1>4, <1>6, FailEnds DEF Promoting
  <2>2. /\ ~IsDir(i, o[2]) /\ tree' = [tree EXCEPT ![i][o[2]] = StagedLink(p, o)]
        /\ journal'[p] = journal[p] \cup {o}
        /\ pc'[p] \in {"promote", "clean"}
        /\ pc'[p] = "clean" => Ops(p)' \subseteq journal'[p]
    BY <1>1, <1>2, <1>4, <1>6, <2>1, JournaledEnds DEF Promoting
  <2>3. /\ Planned(p) /\ RootsHeld(p) /\ TreesFollow(p) /\ StepsFollow(p)
        /\ o \in Operations /\ o = <<t, o[2]>>
        /\ t \in locked[p] /\ t \in Targets /\ o[2] \in Artifacts /\ o[2] \in Paths
        /\ i \in Inodes
        /\ \A q : NextOp(p, q) <=> q = o
        /\ \A u \in locked[p] : fd[p][u] \in Inodes /\ (fd[p][u] = i => u = t)
        /\ \A y \in Above[o[2]] : y \in Paths /\ y # o[2]
    BY <1>1, <1>2, AtOperation
  <2>4. /\ want[p][t][o[2]] # NoSource
        /\ \A y \in Above[o[2]] : tree[i][y].kind = "dir"
    BY <1>1, <1>2, <2>3 DEF StepsFollow, IsDir
  <2>5. \A u \in locked[p] : \A x \in Artifacts :
           Now(p, u)'[x] = IF <<u, x>> = o THEN want[p][u][x] ELSE Now(p, u)[x]
    <3>1. SUFFICES ASSUME NEW u \in locked[p], NEW x \in Artifacts
                   PROVE  Now(p, u)'[x] = IF <<u, x>> = o THEN want[p][u][x] ELSE Now(p, u)[x]
      OBVIOUS
    <3>2. Now(p, u)[x] = IF <<u, x>> \in journal[p] THEN want[p][u][x]
                         ELSE IF <<u, x>> = o THEN NoSource ELSE seen[p][u].entries[x]
      BY <1>2, <2>3 DEF Now
    <3>3. Now(p, u)'[x] = IF <<u, x>> \in journal'[p] THEN want[p][u][x] ELSE seen[p][u].entries[x]
      BY <1>3, <2>2 DEF Now
    <3> QED
      BY <2>2, <3>2, <3>3
  <2>6. \A u \in locked[p] \ {t} : tree'[fd[p][u]] = tree[fd[p][u]]
    BY <2>2, <2>3
  <2>7. \A y \in Paths : tree'[i][y] = IF y = o[2] THEN StagedLink(p, o) ELSE tree[i][y]
    BY <2>2, <2>3
  <2>8. Elsewhere(p, o)
    BY <1>3, <2>3, <2>5, <2>6 DEF Elsewhere
  <2>9. \A u \in locked[p] \ {t} : InPlace(p, u)' /\ Room(p, u)'
    BY <1>3, <2>3, <2>8, ElsewhereTrees
  <2>10. InPlace(p, t) /\ Room(p, t)
    BY <2>3 DEF TreesFollow
  <2>11. Managed(Now(p, t)') = Managed(Now(p, t)) \cup {o[2]} /\ Managed(Now(p, t)) \subseteq Artifacts
    BY <2>3, <2>4, <2>5 DEF Managed
  <2>12. \A x \in Artifacts : x \in Paths /\ Above[x] \subseteq Paths
    BY PlannerAssumption
  <2>13. /\ tree'[i][o[2]].kind = "link" /\ tree'[i][o[2]].to = Now(p, t)'[o[2]]
         /\ \A y \in Above[o[2]] : tree'[i][y].kind = "dir"
    BY <2>3, <2>4, <2>5, <2>7 DEF StagedLink
  <2>14. InPlace(p, t)'
    <3>1. ASSUME NEW x \in Managed(Now(p, t)) \ {o[2]}
          PROVE  /\ tree'[i][x].kind = "link" /\ tree'[i][x].to = Now(p, t)'[x]
                 /\ \A y \in Above[x] : tree'[i][y].kind = "dir"
      <4>1. /\ tree[i][x].kind = "link" /\ tree[i][x].to = Now(p, t)[x] /\ x \in Paths
            /\ \A y \in Above[x] : tree[i][y].kind = "dir" /\ y \in Paths
        BY <2>10, <2>11, <2>12 DEF InPlace, IsDir
      <4>2. Now(p, t)'[x] = Now(p, t)[x]
        BY <2>3, <2>5, <2>11
      <4> QED
        BY <2>2, <2>7, <4>1, <4>2 DEF IsDir
    <3> QED
      BY <1>3, <2>11, <2>13, <3>1 DEF InPlace, IsDir
  <2>15. Room(p, t)'
    <3>1. o[2] \in Managed(want[p][t])
      BY <2>3, <2>4 DEF Managed
    <3>2. ASSUME NEW x \in Managed(want[p][t])
          PROVE  /\ x \notin Managed(Now(p, t)) \cup {o[2]} => tree'[i][x].kind = "absent"
                 /\ \A y \in Above[x] : tree'[i][y].kind \in {"dir", "absent"}
                                        \/ y \in Managed(Now(p, t)) \cup {o[2]}
      <4>1. /\ x \notin Managed(Now(p, t)) => tree[i][x].kind = "absent"
            /\ \A y \in Above[x] : tree[i][y].kind \in {"dir", "absent"} \/ y \in Managed(Now(p, t))
        BY <2>10 DEF Room, Absent
      <4>2. x \in Paths /\ Above[x] \subseteq Paths
        BY <2>12 DEF Managed
      <4> QED
        BY <2>7, <4>1, <4>2
    <3> QED
      BY <1>3, <2>11, <3>2 DEF Room, Absent
  <2>16. TreesFollow(p)'
    BY <1>3, <2>9, <2>14, <2>15 DEF TreesFollow
  <2>17. Planned(p)' /\ RootsHeld(p)'
    BY <1>3, <2>3 DEF Planned, PlanBlocked, RootsHeld
  <2>18. RecordsFollow(p)'
    BY <2>2 DEF RecordsFollow
  <2>19. StepsFollow(p)'
    BY <2>2 DEF StepsFollow
  <2> QED
    BY <2>16, <2>17, <2>18, <2>19 DEF Transaction
<1> QED
  BY <1>5, <1>6

------------------------------------------------------------------------------
(* TInv is inductive, and commits converge.                                 *)
LEMMA OwnTransaction ==
    ASSUME IInv, RInv, envs = 0, NEW p \in Applies, Trees(p), Begin(p) \/ Step(p) \/ Crash(p)
    PROVE  Transaction(p)'
<1>1. CASE ~Active(p)
  <2>1. CASE Active(p)'
    BY <1>1, <2>1, TransactionBegins, ValidateTrees
  <2>2. CASE ~Active(p)'
    BY <2>2 DEF Transaction
  <2> QED
    BY <2>1, <2>2
<1>2. CASE Active(p)
  <2>1. CASE \/ Stage(p) \/ CleanStaging(p) \/ Publish(p) \/ DropBackup(p) \/ Settle(p)
             \/ Promote(p) \/ MoveAside(p) \/ Install(p) \/ Release(p)
    BY <2>1, StagingTrees, PublishTrees, CommittedTrees, PromoteTrees, MoveTrees, InstallTrees,
       ReleaseTrees
  <2>2. CASE Crash(p)
    BY <2>2 DEF Crash, Goto, Transaction, Active, Promoting, IInv, TypeOK, TypeOfControl
  <2>3. pc[p] \in Promoting \cup {"drop", "settle", "release"}
    BY <1>2 DEF Active
  <2>4. CASE ~Crash(p) /\ ~(\/ Stage(p) \/ CleanStaging(p) \/ Publish(p) \/ DropBackup(p)
             \/ Settle(p) \/ Promote(p) \/ MoveAside(p) \/ Install(p) \/ Release(p))
    BY <2>3, <2>4 DEF Step, Begin, ReadRecord, WalkTree, BuildPlan, LookAtRoot, MakeRoot, OpenRoot,
       LockRoot, LockExpires, OpenNamespace, Abandon, Unchain, InitMetadata, Validate, Undo,
       PutBackup, RestoreMetadata, Discard, Prune, Report, Promoting
  <2> QED
    BY <2>1, <2>2, <2>4
<1> QED
  BY <1>1, <1>2

LEMMA TreesInit == Init => TInv
<1> SUFFICES ASSUME Init, NEW p \in Applies PROVE Roots(p) /\ Trees(p)
  BY DEF TInv
<1>1. /\ pc[p] = "idle" /\ phase[p] = "locking" /\ outcome[p] = "none" /\ locked[p] = {}
      /\ journal[p] = {} /\ \A t \in Targets : fd[p][t] = NoInode /\ made[p][t] = NoInode
  BY DEF Init
<1>2. Roots(p)
  BY <1>1 DEF Roots, Opened, MadeRoots
<1>3. Course(p) /\ NothingDone(p) /\ Transaction(p)
  BY <1>1 DEF Course, NothingDone, Transaction, Active, Early, Preparing, Promoting
<1> QED
  BY <1>2, <1>3 DEF Trees

LEMMA StepFrame ==
    ASSUME IInv, NEW p \in Applies, Begin(p) \/ Step(p) \/ Crash(p)
    PROVE  OthersUntouched(p) /\ OwnRootsOnly(p) /\ envs' = envs
<1>1. CASE Begin(p) \/ ReadRecord(p) \/ WalkTree(p) \/ BuildPlan(p)
  BY <1>1, ScanFrame
<1>2. CASE \/ LookAtRoot(p) \/ MakeRoot(p) \/ OpenRoot(p) \/ LockRoot(p) \/ LockExpires(p)
           \/ Abandon(p) \/ Unchain(p)
  BY <1>2, PrepareFrame
<1>3. CASE \/ OpenNamespace(p) \/ InitMetadata(p) \/ Publish(p) \/ Settle(p)
           \/ RestoreMetadata(p) \/ Report(p)
  BY <1>3, NamespaceFrame
<1>4. CASE Validate(p) \/ Stage(p) \/ CleanStaging(p) \/ DropBackup(p) \/ Discard(p)
  BY <1>4, WorkFrame
<1>5. CASE Promote(p) \/ MoveAside(p) \/ Install(p) \/ Undo(p) \/ PutBackup(p) \/ Prune(p)
  BY <1>5, TreeFrame
<1>6. CASE Release(p) \/ Crash(p)
  BY <1>6, EndFrame
<1> QED
  BY <1>1, <1>2, <1>3, <1>4, <1>5, <1>6 DEF Step

(* Users aside, entries and records change in steps of the run that holds   *)
(* the lock of their root only: no schedule of any number of runs, with     *)
(* whatever errors, makes one write to a target it does not hold.           *)
THEOREM HolderWrites == Spec => OnlyHolderWrites
<1>1. ASSUME IInv, [Next]_vars
      PROVE  [envs' = envs => \A i \in Inodes :
                 tree'[i] # tree[i] \/ ns'[i].managed # ns[i].managed
                     => \E p \in Applies : flock[i] = p /\ OthersRest(p)]_vars
  <2>1. SUFFICES ASSUME Next, envs' = envs, NEW i \in Inodes,
                        tree'[i] # tree[i] \/ ns'[i].managed # ns[i].managed
                 PROVE  \E p \in Applies : flock[i] = p /\ OthersRest(p)
    BY <1>1
  <2>2. ~UserStep
    BY <1>1, <2>1 DEF UserStep, IInv, TypeOK, TypeOfBudget
  <2>3. ~Finished
    BY <2>1 DEF Finished, vars, disk
  <2>4. PICK p \in Applies : Begin(p) \/ Step(p) \/ Crash(p)
    BY <2>1, <2>2, <2>3 DEF Next
  <2>5. OthersUntouched(p) /\ OwnRootsOnly(p)
    BY <1>1, <2>4, StepFrame
  <2>6. flock[i] = p
    BY <2>1, <2>5 DEF OwnRootsOnly
  <2>7. OthersRest(p)
    BY <2>5 DEF OthersUntouched, OthersRest
  <2> QED
    BY <2>6, <2>7
<1> QED
  BY <1>1, Invariance, PTL DEF Spec, OnlyHolderWrites

LEMMA TreesNext == IInv /\ RInv /\ TInv /\ [Next]_vars => TInv'
<1> SUFFICES ASSUME IInv, RInv, TInv, [Next]_vars PROVE TInv'
  OBVIOUS
<1>1. ASSUME NEW p \in Applies, Begin(p) \/ Step(p) \/ Crash(p) PROVE TInv'
  <2>1. OthersUntouched(p) /\ OwnRootsOnly(p) /\ envs' = envs
    BY <1>1, StepFrame
  <2>2. SUFFICES ASSUME envs = 0, NEW q \in Applies PROVE Roots(q)' /\ Trees(q)'
    BY <2>1 DEF TInv
  <2>3. \A r \in Applies : Roots(r) /\ Trees(r)
    BY <2>2 DEF TInv
  <2>4. CASE q # p
    BY <1>1, <2>1, <2>3, <2>4, OthersRoots, OthersTrees
  <2>5. CASE q = p
    <3>1. Roots(p)'
      BY <1>1, <2>3, OwnRoots
    <3>2. Course(p)'
      BY <1>1, <2>3, CourseStep DEF Trees
    <3>3. NothingDone(p)' /\ Transaction(p)'
      BY <1>1, <2>2, <2>3, OwnNothingDone, OwnTransaction
    <3> QED
      BY <2>5, <3>1, <3>2, <3>3 DEF Trees
  <2> QED
    BY <2>4, <2>5
<1>2. CASE UserStep
  BY <1>2 DEF UserStep, TInv, IInv, TypeOK, TypeOfBudget
<1>3. CASE UNCHANGED vars
  <2>1. /\ at' = at /\ tree' = tree /\ ns' = ns /\ sel' = sel /\ want' = want /\ seen' = seen
        /\ pc' = pc /\ phase' = phase /\ left' = left /\ fd' = fd /\ locked' = locked /\ made' = made
        /\ journal' = journal /\ outcome' = outcome /\ envs' = envs
    BY <1>3 DEF vars, disk, plan, control, handles, txn, budget
  <2>2. SUFFICES ASSUME NEW p \in Applies, Roots(p), Trees(p) PROVE Roots(p)' /\ Trees(p)'
    BY <2>1 DEF TInv
  <2>3. /\ Ops(p)' = Ops(p)
        /\ \A o : NextOp(p, o)' = NextOp(p, o) /\ Kind(p, o)' = Kind(p, o)
    BY <2>1 DEF Ops, Todo, NextOp, Kind
  <2>4. \A t : Now(p, t)' = Now(p, t)
    BY <2>1, <2>3 DEF Now
  <2>5. Roots(p)'
    BY <2>1, <2>2 DEF Roots, Opened, MadeRoots, First
  <2>6. Course(p)' /\ NothingDone(p)'
    BY <2>1, <2>2 DEF Trees, Course, RolledBack, Settled, NothingDone
  <2>7. Active(p)' = Active(p) /\ Planned(p)' = Planned(p) /\ RootsHeld(p)' = RootsHeld(p)
    BY <2>1 DEF Active, Planned, PlanBlocked, RootsHeld
  <2>8. TreesFollow(p)' = TreesFollow(p)
    BY <2>1, <2>4 DEF TreesFollow, InPlace, Room, Managed, IsDir, Absent
  <2>9. StepsFollow(p)' = StepsFollow(p) /\ RecordsFollow(p)' = RecordsFollow(p)
    BY <2>1, <2>3 DEF StepsFollow, IsDir, RecordsFollow, Rec, Published
  <2> QED
    BY <2>2, <2>5, <2>6, <2>7, <2>8, <2>9 DEF Trees, Transaction
<1> QED
  BY <1>1, <1>2, <1>3 DEF Next, Finished

(* The invariant about the trees that runs have validated, from the first   *)
(* change to the release of the locks, holds in every reachable state.      *)
THEOREM TreesAreKnown == Spec => []TInv
<1>1. Init => IInv /\ RInv /\ TInv
  BY InvariantInit, RecordsInit, TreesInit
<1>2. IInv /\ RInv /\ TInv /\ [Next]_vars => IInv' /\ RInv' /\ TInv'
  BY InvariantNext, RecordsNext, TreesNext
<1> QED
  BY <1>1, <1>2, PTL DEF Spec

(* What a commit leaves: everything wanted is linked and recorded, so that  *)
(* another plan has nothing to change or to refuse.                         *)
LEMMA CommitLeaves ==
    ASSUME IInv, NEW p \in Applies, Trees(p), Finishing(p), outcome[p] \in {"ok", "committed"},
           NEW t \in locked[p]
    PROVE  Converged(p, t)
<1> USE DEF IInv, TypeOK, TypeOfPlan, TypeOfDisk, TypeOfHandles
<1>1. /\ Planned(p) /\ RootsHeld(p) /\ TreesFollow(p) /\ StepsFollow(p) /\ RecordsFollow(p)
      /\ pc[p] = "release"
  BY DEF Finishing, Trees, Transaction, Active
<1> DEFINE i == at[t]
           links == want[p][t]
<1>2. /\ t \in Targets /\ fd[p][t] = i /\ i \in Inodes /\ links \in Links
      /\ t \in sel[p]
  BY <1>1 DEF RootsHeld, LocksHeld, LocksHeldBy, Holds, Planned
<1>3. ns[i].exists /\ ns[i].managed = [cache |-> CacheRoot[p], entries |-> links]
  BY <1>1, <1>2 DEF RootsHeld, RecordsFollow, Rec, Published
<1>4. ns[i].managed # NoFile
  BY <1>2, <1>3, RecordAssumption, ReconcilerAssumption DEF Record
<1>5. RecordedCache(ns[i]) = CacheRoot[p] /\ RecordedLinks(ns[i]) = links /\ RecordReadable(ns[i])
  BY <1>3, <1>4 DEF RecordedCache, RecordedLinks, HasRecord, RecordReadable
<1>6. \A x \in Artifacts : Now(p, t)[x] = links[x]
  <2>1. SUFFICES ASSUME NEW x \in Artifacts, <<t, x>> \notin journal[p]
                 PROVE  Now(p, t)[x] = links[x]
    BY DEF Now
  <2>2. <<t, x>> \notin Ops(p)
    BY <1>1, <2>1 DEF StepsFollow
  <2>3. x \notin Mutations(seen[p][t], want[p][t])
    BY <1>2, <2>2 DEF Ops
  <2>4. seen[p][t].entries[x] = links[x]
    BY <2>3 DEF Mutations, Action
  <2> QED
    BY <1>1, <2>1, <2>4 DEF Now
<1>7. \A x \in Managed(links) : SourceUsable(links[x], CacheRoot[p])
  BY <1>1, <1>2 DEF Planned, PlanBlocked, Blocked
<1>8. LinksSound(links, tree[i])
  <2>1. Managed(Now(p, t)) = Managed(links)
    BY <1>6 DEF Managed
  <2>2. InPlace(p, t)
    BY <1>1 DEF TreesFollow
  <2>3. \A x \in Managed(links) : links[x] \notin Unsafe
    BY <1>7 DEF SourceUsable
  <2> QED
    BY <1>2, <1>6, <2>1, <2>2, <2>3 DEF InPlace, LinksSound, IsDir, Managed
<1>9. Scannable(ns[i], tree[i])
  BY <1>5, <1>8 DEF Scannable
<1> DEFINE view == Current(i)
<1>10. view.entries = links /\ view.cache = CacheRoot[p] /\ SoundView(view)
  BY <1>2, <1>5, <1>9, ScanIsSound DEF Current, Scan
<1>11. InCache(links, CacheRoot[p]) = Managed(links) /\ ~RootMismatch(view, CacheRoot[p])
  BY <1>7, <1>10 DEF InCache, SourceUsable, RootMismatch
<1>12. ~Blocked(view, links, CacheRoot[p])
  BY <1>10, <1>11, SettledNotBlocked
<1>13. Mutations(view, links) = {}
  BY <1>10 DEF Mutations, Action
<1> QED
  BY <1>9, <1>10, <1>12, <1>13 DEF Converged

(* Without users, a run that commits leaves every one of its targets        *)
(* converged, whatever errors struck after the commit and whatever other    *)
(* runs and kills did.                                                      *)
THEOREM CommitsConverge == Spec => [](envs = 0 => CommitConverges)
<1>1. IInv /\ TInv => (envs = 0 => CommitConverges)
  BY CommitLeaves DEF TInv, CommitConverges
<1> QED
  BY <1>1, Invariance, TreesAreKnown, PTL

------------------------------------------------------------------------------
(* A validated transaction fails by an error only: what it checks before    *)
(* each step is what TInv says is there.                                    *)
LEMMA NoFault == ASSUME NEW point, faults \in Nat, faults' = faults PROVE ~Fault(point)
BY DEF Fault

LEMMA HeldIsVerified == ASSUME NEW p \in Applies, RootsHeld(p) PROVE Verified(p)
BY DEF RootsHeld, Verified

LEMMA JournaledGoesOn ==
    ASSUME NEW p \in Applies, NEW o, faults \in Nat, faults' = faults, RootsHeld(p), Journaled(p, o)
    PROVE  outcome' = outcome
BY NoFault, HeldIsVerified DEF Journaled

(* A link above the place of an operation goes before it.                   *)
LEMMA WayIsFree ==
    ASSUME IInv, NEW p \in Applies, Trees(p), pc[p] = "promote", NEW o \in Ops(p), NextOp(p, o)
    PROVE  WayFree(p, o) /\ AsPlanned(p, o)
<1> USE DEF WayFree
<1> DEFINE t == o[1]
           i == fd[p][t]
<1>1. /\ Planned(p) /\ TreesFollow(p)
      /\ o = <<t, o[2]>> /\ t \in locked[p] /\ t \in Targets /\ o[2] \in Artifacts
      /\ o \notin journal[p]
  BY AtOperation
<1>2. InPlace(p, t) /\ Room(p, t)
  BY <1>1 DEF TreesFollow
<1>3. Now(p, t)[o[2]] = seen[p][t].entries[o[2]]
  BY <1>1, NowBefore
<1>4. Kind(p, o) \in {"CREATE", "REMOVE", "REPLACE"}
  BY KindOf
<1>5. CASE Kind(p, o) = "REMOVE" \/ Kind(p, o) = "REPLACE"
  <2>1. o[2] \in Managed(Now(p, t))
    BY <1>1, <1>3, <1>5, KindOf DEF Managed
  <2>2. /\ tree[i][o[2]].kind = "link" /\ tree[i][o[2]].to = seen[p][t].entries[o[2]]
        /\ \A y \in Above[o[2]] : tree[i][y].kind = "dir"
    BY <1>2, <1>3, <2>1 DEF InPlace, IsDir
  <2> QED
    BY <1>5, <2>2 DEF AsPlanned
<1>6. CASE Kind(p, o) = "CREATE"
  <2>1. /\ o[2] \in Managed(want[p][t]) /\ o[2] \notin Managed(Now(p, t))
    BY <1>1, <1>3, <1>6, KindOf DEF Managed
  <2>2. AsPlanned(p, o)
    BY <1>2, <1>6, <2>1 DEF Room, Absent, AsPlanned
  <2>3. ASSUME NEW y \in Above[o[2]], y \in Managed(Now(p, t)) PROVE FALSE
    <3>1. y \in Artifacts /\ Now(p, t)[y] # NoSource
      BY <2>3 DEF Managed
    <3>2. want[p][t][y] = NoSource
      BY <1>1, <2>1, <3>1, NotNested DEF Managed
    <3>3. <<t, y>> \notin journal[p] /\ seen[p][t].entries[y] # NoSource
      BY <3>1, <3>2, NowBefore
    <3>4. <<t, y>> \in Ops(p)
      BY <1>1, <3>1, <3>2, <3>3 DEF Planned, Ops, Mutations, Action
    <3>5. PathRank[y] < PathRank[o[2]] /\ PathRank[y] \in Nat /\ PathRank[o[2]] \in Nat
      BY <1>1, <3>1, PlannerAssumption
    <3>6. <<t, y>> # o
      BY <1>1, <3>5
    <3>7. Before(o, <<t, y>>)
      BY <3>3, <3>4, <3>6 DEF NextOp, Todo
    <3> QED
      BY <1>1, <3>5, <3>7, ReconcilerAssumption DEF Before
  <2> QED
    BY <1>2, <2>1, <2>2, <2>3 DEF Room
<1> QED
  BY <1>4, <1>5, <1>6

LEMMA TransactionGoesOn ==
    ASSUME IInv, NEW p \in Applies, Trees(p), faults' = faults,
           \/ Stage(p) \/ Promote(p) \/ MoveAside(p) \/ Install(p) \/ CleanStaging(p) \/ Publish(p)
    PROVE  outcome' = outcome
<1> USE DEF IInv, TypeOK, TypeOfBudget
<1>1. pc[p] \in Promoting
  BY DEF Stage, Promote, MoveAside, Install, CleanStaging, Publish, Promoting
<1>2. RootsHeld(p) /\ TreesFollow(p) /\ StepsFollow(p)
  BY <1>1 DEF Trees, Transaction, Active
<1>3. Verified(p) /\ \A point : ~Fault(point)
  BY <1>2, NoFault, HeldIsVerified
<1>4. CASE Stage(p) \/ CleanStaging(p) \/ Publish(p)
  BY <1>3, <1>4 DEF Stage, CleanStaging, Publish
<1>5. CASE Promote(p)
  BY <1>3, <1>5, WayIsFree DEF Promote, MakesSomeParents
<1>6. CASE MoveAside(p)
  <2>1. PICK o \in Ops(p) :
           /\ NextOp(p, o) /\ pc[p] = "move"
           /\ \/ Journaled(p, o) \/ outcome' = outcome
              \/ Absent(fd[p][o[1]], o[2])
    BY <1>3, <1>6 DEF MoveAside, PutAside
  <2>2. o[1] \in locked[p] /\ o[2] \in Artifacts /\ o = <<o[1], o[2]>> /\ o \notin journal[p]
    BY <2>1, AtOperation
  <2>3. seen[p][o[1]].entries[o[2]] # NoSource
    BY <1>2, <2>1, KindOf DEF StepsFollow
  <2>4. o[2] \in Managed(Now(p, o[1]))
    BY <2>1, <2>2, <2>3, NowBefore DEF Managed
  <2>5. ~Absent(fd[p][o[1]], o[2])
    BY <1>2, <2>2, <2>4 DEF TreesFollow, InPlace, Absent
  <2> QED
    BY <1>2, <2>1, <2>5, JournaledGoesOn
<1>7. CASE Install(p)
  <2>1. PICK o \in Ops(p) :
           /\ NextOp(p, o) /\ pc[p] = "install"
           /\ Journaled(p, o) \/ IsDir(fd[p][o[1]], o[2])
    BY <1>3, <1>7 DEF Install, PutLink, PutNoLink
  <2>2. o[1] \in locked[p] /\ o[2] \in Artifacts /\ o = <<o[1], o[2]>> /\ o \notin journal[p]
    BY <2>1, AtOperation
  <2>3. o[2] \in Managed(want[p][o[1]])
    BY <1>2, <2>1, <2>2 DEF StepsFollow, Managed
  <2>4. o[2] \notin Managed(Now(p, o[1]))
    BY <2>1, <2>2 DEF Managed, Now
  <2>5. ~IsDir(fd[p][o[1]], o[2])
    BY <1>2, <2>2, <2>3, <2>4 DEF TreesFollow, Room, Absent, IsDir
  <2> QED
    BY <1>2, <2>1, <2>5, JournaledGoesOn
<1> QED
  BY <1>4, <1>5, <1>6, <1>7

(* A run that fails later does so by an error.                              *)
FailsEarly(p) == outcome[p] = "failed" /\ pc[p] # "done" => phase[p] \in {"locking", "validation"}

LEMMA OwnFailure ==
    ASSUME IInv, NEW p \in Applies, Trees(p), FailsEarly(p), faults' = faults,
           Begin(p) \/ Step(p) \/ Crash(p)
    PROVE  FailsEarly(p)'
<1> USE DEF IInv, TypeOK, TypeOfControl
<1>1. Course(p) /\ NothingDone(p)
  BY DEF Trees
<1>2. CASE Begin(p) \/ ReadRecord(p) \/ WalkTree(p) \/ BuildPlan(p) \/ Crash(p)
  <2>1. outcome' = outcome \/ pc'[p] = "done"
    BY <1>2 DEF Begin, ReadRecord, WalkTree, BuildPlan, Crash, Leave, Goto
  <2>2. outcome' = outcome => outcome[p] = "none" \/ Crash(p)
    BY <1>1, <1>2 DEF Course, Begin, ReadRecord, WalkTree, BuildPlan
  <2>3. Crash(p) => pc'[p] = "done"
    BY DEF Crash, Goto
  <2> QED
    BY <2>1, <2>2, <2>3 DEF FailsEarly
<1>3. CASE \/ LookAtRoot(p) \/ MakeRoot(p) \/ OpenRoot(p) \/ LockRoot(p) \/ LockExpires(p)
           \/ OpenNamespace(p) \/ Abandon(p) \/ Unchain(p)
  <2>1. phase' = phase /\ pc[p] \in Early
    BY <1>3 DEF LookAtRoot, MakeRoot, OpenRoot, LockRoot, LockExpires, OpenNamespace, Abandon,
       Unchain, Early, Preparing
  <2> QED
    BY <1>1, <2>1 DEF NothingDone, FailsEarly
<1>4. CASE InitMetadata(p)
  <2>1. phase'[p] \in {phase[p], "validation"} /\ pc[p] \in Early
    BY <1>4 DEF InitMetadata, Early
  <2> QED
    BY <1>1, <2>1 DEF NothingDone, FailsEarly
<1>5. CASE Validate(p)
  <2>1. pc[p] \in Early /\ (outcome' = outcome \/ phase' = phase)
    BY <1>5 DEF Validate, Early
  <2> QED
    BY <1>1, <2>1 DEF NothingDone, Course, FailsEarly
<1>6. CASE \/ Stage(p) \/ Promote(p) \/ MoveAside(p) \/ Install(p) \/ CleanStaging(p) \/ Publish(p)
  <2>1. outcome' = outcome /\ pc[p] \in Promoting
    BY <1>6, TransactionGoesOn DEF Stage, Promote, MoveAside, Install, CleanStaging, Publish, Promoting
  <2> QED
    BY <1>1, <2>1 DEF Course, FailsEarly
<1>7. CASE DropBackup(p) \/ Settle(p)
  <2>1. Course(p)'
    BY <1>1, <1>7, PublishCourse, EndCourse
  <2>2. phase' = phase /\ phase[p] = "committed" /\ outcome[p] # "failed"
    BY <1>1, <1>7 DEF Course, DropBackup, Settle
  <2>3. outcome'[p] # "failed"
    BY <1>7, <2>2 DEF DropBackup, Settle, Fail
  <2> QED
    BY <2>3 DEF FailsEarly
<1>8. CASE Undo(p) \/ PutBackup(p) \/ RestoreMetadata(p) \/ Discard(p) \/ Prune(p) \/ Report(p)
  <2>1. phase' = phase /\ outcome' = outcome /\ pc[p] # "done"
    BY <1>8 DEF Undo, PutBackup, RestoreMetadata, Discard, Prune, Report
  <2> QED
    BY <2>1 DEF FailsEarly
<1>9. CASE Release(p)
  <2>1. pc'[p] = "done" \/ (phase' = phase /\ outcome' = outcome /\ pc' = pc)
    BY <1>9 DEF Release, Goto
  <2> QED
    BY <2>1 DEF FailsEarly
<1> QED
  BY <1>2, <1>3, <1>4, <1>5, <1>6, <1>7, <1>8, <1>9 DEF Step

(* Errors are counted.                                                      *)
LEMMA FaultsGrow ==
    ASSUME IInv, NEW p \in Applies, Begin(p) \/ Step(p) \/ Crash(p)
    PROVE  faults' \in {faults, faults + 1}
<1>1. CASE Promote(p)
  <2>1. PICK o \in Ops(p) : faults' = faults \/ MakesSomeParents(p, o)
    BY <1>1 DEF Promote
  <2> QED
    BY <2>1 DEF MakesSomeParents, Fault
<1>2. CASE ~Promote(p)
  BY <1>2 DEF Step, Begin, ReadRecord, WalkTree, BuildPlan, LookAtRoot, MakeRoot, OpenRoot,
     LockRoot, LockExpires, OpenNamespace, Abandon, Unchain, InitMetadata, Validate, Stage,
     MoveAside, PutAside, Journaled, Install, PutLink, PutNoLink, CleanStaging, Publish,
     DropBackup, Settle, Undo, PutBackup, RestoreMetadata, Discard, Prune, Report, Release, Crash,
     Fault, budget
<1> QED
  BY <1>1, <1>2

FailuresAreEarly == faults = 0 /\ envs = 0 => \A p \in Applies : FailsEarly(p)

LEMMA FailuresInit == Init => FailuresAreEarly
BY DEF Init, FailuresAreEarly, FailsEarly

LEMMA FailuresNext == IInv /\ TInv /\ FailuresAreEarly /\ [Next]_vars => FailuresAreEarly'
<1> SUFFICES ASSUME IInv, TInv, FailuresAreEarly, [Next]_vars, faults' = 0, envs' = 0,
                    NEW q \in Applies
             PROVE  FailsEarly(q)'
  BY DEF FailuresAreEarly
<1>1. ASSUME NEW p \in Applies, Begin(p) \/ Step(p) \/ Crash(p) PROVE FailsEarly(q)'
  <2>1. OthersUntouched(p) /\ envs' = envs
    BY <1>1, StepFrame
  <2>2. faults = 0
    BY <1>1, FaultsGrow DEF IInv, TypeOK, TypeOfBudget
  <2>3. Trees(q) /\ FailsEarly(q)
    BY <2>1, <2>2 DEF TInv, FailuresAreEarly
  <2>4. CASE q = p
    BY <1>1, <2>2, <2>3, <2>4, OwnFailure
  <2>5. CASE q # p
    BY <1>1, <2>1, <2>3, <2>5, OthersCourse DEF OthersUntouched, FailsEarly
  <2> QED
    BY <2>4, <2>5
<1>2. CASE UserStep
  BY <1>2 DEF UserStep, IInv, TypeOK, TypeOfBudget
<1>3. CASE UNCHANGED vars
  BY <1>3 DEF FailuresAreEarly, FailsEarly, vars, control, budget
<1> QED
  BY <1>1, <1>2, <1>3 DEF Next, Finished

(* A run that passed validation commits unless an error or a user stops it: *)
(* a plan that is still current can always be carried out.                  *)
THEOREM ValidatedRunsCommit == Spec => []ValidatedCommits
<1>1. Init => IInv /\ RInv /\ TInv /\ FailuresAreEarly
  BY InvariantInit, RecordsInit, TreesInit, FailuresInit
<1>2. IInv /\ RInv /\ TInv /\ FailuresAreEarly /\ [Next]_vars
      => IInv' /\ RInv' /\ TInv' /\ FailuresAreEarly'
  BY InvariantNext, RecordsNext, TreesNext, FailuresNext
<1>3. FailuresAreEarly => ValidatedCommits
  BY DEF FailuresAreEarly, FailsEarly, ValidatedCommits
<1> QED
  BY <1>1, <1>2, <1>3, PTL DEF Spec

------------------------------------------------------------------------------
(* Targets that nobody has locked can be scanned: NInv is inductive beside  *)
(* TInv.                                                                    *)

(* A run that goes on keeps its locks.                                      *)
LEMMA LockedHandles ==
    ASSUME IInv, NEW p \in Applies, Begin(p) \/ Step(p), ~Release(p)
    PROVE  \A t \in locked[p] : t \in locked'[p] /\ fd'[p][t] = fd[p][t]
<1> USE DEF IInv, TypeOK, TypeOfControl, TypeOfHandles
<1>1. CASE ~RootStep(p)
  BY <1>1, RootsElse DEF RootStep
<1>2. CASE MakeRoot(p) \/ Unchain(p) \/ Report(p)
  BY <1>2 DEF MakeRoot, Unchain, Report, handles
<1>3. CASE OpenNamespace(p)
  BY <1>3 DEF OpenNamespace
<1>4. CASE OpenRoot(p) \/ Abandon(p)
  <2>1. /\ pc[p] \in Preparing /\ locked' = locked
        /\ fd' = fd \/ \E t \in Targets : \E i : First(p, t) /\ fd' = [fd EXCEPT ![p][t] = i]
    BY <1>4 DEF OpenRoot, Abandon, Preparing
  <2>2. \A t \in Targets : First(p, t) => t \notin locked[p]
    BY <2>1 DEF TargetsTracked, Tracked, First
  <2> QED
    BY <2>1, <2>2
<1>5. ~Crash(p) \/ pc'[p] = "done"
  BY DEF Crash, Goto
<1>6. CASE Crash(p)
  <2>1. crashes' = crashes + 1
    BY <1>6 DEF Crash
  <2>2. crashes' = crashes
    BY DEF Step, Begin, ReadRecord, WalkTree, BuildPlan, LookAtRoot, MakeRoot, OpenRoot, LockRoot,
       LockExpires, OpenNamespace, Abandon, Unchain, InitMetadata, Validate, Stage, Promote,
       MoveAside, Install, CleanStaging, Publish, DropBackup, Settle, Undo, PutBackup,
       RestoreMetadata, Discard, Prune, Report, Release, Fault, budget
  <2> QED
    BY <2>1, <2>2 DEF TypeOfBudget
<1> QED
  BY <1>1, <1>2, <1>3, <1>4, <1>6 DEF RootStep

(* A run writes below the roots that it has locked.                         *)
LEMMA TreesOfLocked ==
    ASSUME IInv, NEW p \in Applies, Begin(p) \/ Step(p) \/ Crash(p)
    PROVE  \A i \in Inodes : tree'[i] # tree[i] => \E t \in locked[p] : fd[p][t] = i
<1> USE DEF IInv, TypeOK, TypeOfDisk
<1>1. CASE \/ Promote(p) \/ MoveAside(p) \/ Install(p) \/ Undo(p) \/ PutBackup(p) \/ Prune(p)
  BY <1>1, PromotionWrites, RollbackWrites DEF WritesUnderLock
<1>2. CASE ~(Promote(p) \/ MoveAside(p) \/ Install(p) \/ Undo(p) \/ PutBackup(p) \/ Prune(p))
  BY <1>2 DEF Step, Begin, ReadRecord, WalkTree, BuildPlan, LookAtRoot, MakeRoot, OpenRoot, LockRoot,
     LockExpires, OpenNamespace, Abandon, Unchain, InitMetadata, Validate, Stage, CleanStaging,
     Publish, DropBackup, Settle, RestoreMetadata, Discard, Report, Release, Crash, disk
<1> QED
  BY <1>1, <1>2

LEMMA NamespacesOfLocked ==
    ASSUME IInv, NEW p \in Applies, Begin(p) \/ Step(p) \/ Crash(p)
    PROVE  \A i \in Inodes : ns'[i] # ns[i] =>
              \E t \in Targets : /\ fd[p][t] = i
                                 /\ \/ t \in locked[p]
                                    \/ OpenNamespace(p) /\ t \in locked'[p]
<1> USE DEF IInv, TypeOK, TypeOfDisk, TypeOfHandles
<1>1. CASE OpenNamespace(p)
  <2>1. \/ ns' = ns
        \/ \E t \in Targets : /\ ns' = [ns EXCEPT ![fd[p][t]].exists = TRUE]
                              /\ locked' = [locked EXCEPT ![p] = @ \cup {t}]
    BY <1>1 DEF OpenNamespace
  <2>2. ASSUME NEW t \in Targets, ns' = [ns EXCEPT ![fd[p][t]].exists = TRUE],
               locked' = [locked EXCEPT ![p] = @ \cup {t}]
        PROVE  t \in locked'[p] /\ \A i \in Inodes : i # fd[p][t] => ns'[i] = ns[i]
    BY <2>2
  <2> QED
    BY <1>1, <2>1, <2>2
<1>2. CASE InitMetadata(p)
  <2>1. \A t \in Targets : First(p, t) => t \in locked[p]
    BY <1>2 DEF InitMetadata, TargetsTracked, Tracked
  <2>2. \E t \in Targets : First(p, t) /\ \A i \in Inodes : i # fd[p][t] => ns'[i] = ns[i]
    BY <1>2 DEF InitMetadata
  <2> QED
    BY <2>1, <2>2
<1>3. CASE Publish(p) \/ Settle(p) \/ RestoreMetadata(p) \/ Report(p)
  <2>1. \A t \in Targets : First(p, t) => t \in locked[p]
    BY <1>3 DEF Publish, Settle, RestoreMetadata, Report, TargetsTracked, Tracked, Looping, First
  <2>2. \E t \in Targets : First(p, t) /\ \A i \in Inodes : i # fd[p][t] => ns'[i] = ns[i]
    BY <1>3 DEF Publish, Settle, RestoreMetadata, Report
  <2> QED
    BY <2>1, <2>2
<1>4. CASE ~(OpenNamespace(p) \/ InitMetadata(p) \/ Publish(p) \/ Settle(p) \/ RestoreMetadata(p)
             \/ Report(p))
  BY <1>4 DEF Step, Begin, ReadRecord, WalkTree, BuildPlan, LookAtRoot, MakeRoot, OpenRoot, LockRoot,
     LockExpires, Abandon, Unchain, Validate, Stage, Promote, MoveAside, Install, CleanStaging,
     DropBackup, Undo, PutBackup, Discard, Prune, Release, Crash, disk
<1> QED
  BY <1>1, <1>2, <1>3, <1>4

(* Roots come and go among the locked ones with the lock of their run.      *)
LEMMA LockedStay ==
    ASSUME IInv, NEW p \in Applies, Begin(p) \/ Step(p) \/ Crash(p)
    PROVE  /\ ~Release(p) /\ ~Crash(p) =>
                 \A t \in locked[p] : t \in locked'[p] /\ fd'[p][t] = fd[p][t]
           /\ OpenNamespace(p) => fd' = fd
           /\ ~OpenNamespace(p) => \A t \in locked'[p] : t \in locked[p] /\ fd'[p][t] = fd[p][t]
<1> USE DEF IInv, TypeOK, TypeOfControl, TypeOfHandles
<1>1. ~Release(p) /\ ~Crash(p) =>
         \A t \in locked[p] : t \in locked'[p] /\ fd'[p][t] = fd[p][t]
  BY LockedHandles
<1>2. OpenNamespace(p) => fd' = fd
  BY DEF OpenNamespace
<1>3. ~OpenNamespace(p) /\ ~Release(p) /\ ~Crash(p) => locked' = locked
  <2>1. CASE ~RootStep(p)
    BY <2>1, RootsElse DEF RootStep
  <2>2. CASE RootStep(p)
    BY <2>2 DEF RootStep, MakeRoot, OpenRoot, Abandon, Unchain, Report, handles
  <2> QED
    BY <2>1, <2>2
<1>4. Release(p) \/ Crash(p) => \A t \in locked'[p] : t \in locked[p] /\ fd'[p][t] = fd[p][t]
  BY DEF Release, Crash, handles
<1> QED
  BY <1>1, <1>2, <1>3, <1>4
------------------------------------------------------------------------------
(* Without errors and kills a root that nobody has locked can be scanned.   *)
(* A run that is past validation stays past it, and one that is not has     *)
(* nothing to undo.                                                         *)
LEMMA PastGrows ==
    ASSUME IInv, NEW p \in Applies, Trees(p), NothingToUndo(p), Begin(p) \/ Step(p) \/ Crash(p)
    PROVE  NothingToUndo(p)'
<1> USE DEF IInv, TypeOK, TypeOfControl, TypeOfTxn
<1>1. CASE pc'[p] = "done" /\ Reset(p)
  BY <1>1 DEF Reset, NothingToUndo, Promoting, Past
<1>2. CASE Begin(p) \/ ReadRecord(p) \/ WalkTree(p) \/ BuildPlan(p)
  <2>1. /\ journal' = journal /\ parents' = parents /\ phase' = phase
        /\ pc[p] \in {"idle", "scan", "walk", "plan"}
    BY <1>2 DEF Begin, ReadRecord, WalkTree, BuildPlan, txn
  <2>2. pc'[p] \in {"scan", "walk", "plan", "root", "done"}
    BY <1>2 DEF Begin, ReadRecord, WalkTree, BuildPlan, Loop, Goto, Leave
  <2> QED
    BY <2>1, <2>2 DEF NothingToUndo, Past, Promoting
<1>3. CASE \/ LookAtRoot(p) \/ MakeRoot(p) \/ OpenRoot(p) \/ LockRoot(p) \/ LockExpires(p)
           \/ OpenNamespace(p) \/ Abandon(p) \/ Unchain(p)
  <2>1. /\ journal' = journal /\ parents' = parents /\ phase' = phase /\ pc[p] \in Early
    BY <1>3 DEF LookAtRoot, MakeRoot, OpenRoot, LockRoot, LockExpires, OpenNamespace, Abandon, Unchain,
       txn, Early, Preparing
  <2>2. phase[p] # "committed"
    BY <2>1 DEF Trees, Course
  <2>3. pc'[p] \in Early \cup {"undo"}
    BY <1>3, <2>2 DEF LookAtRoot, MakeRoot, OpenRoot, LockRoot, LockExpires, OpenNamespace, Abandon,
       Unchain, Goto, Fail, Early, Preparing
  <2> QED
    BY <2>1, <2>3 DEF NothingToUndo, Past, Promoting, Early, Preparing
<1>4. CASE InitMetadata(p)
  <2>1. journal' = journal /\ parents' = parents /\ pc[p] \in Early
    BY <1>4 DEF InitMetadata, Early
  <2>2. phase[p] \in {"locking", "validation"}
    BY <2>1 DEF Trees, NothingDone
  <2>3. \/ Fail(p)
        \/ \E t \in Targets : Loop(p, t, "root", "validate", locked[p])
    BY <1>4 DEF InitMetadata
  <2>4. pc'[p] \in {"root", "validate", "undo"}
    BY <2>2, <2>3 DEF Loop, Goto, Fail
  <2> QED
    BY <2>1, <2>2, <2>4 DEF NothingToUndo, Past, Promoting
<1>5. CASE Validate(p)
  <2>1. journal' = journal /\ parents' = parents /\ pc[p] \in Early
    BY <1>5 DEF Validate, Early, txn
  <2>2. phase[p] \in {"locking", "validation"}
    BY <2>1 DEF Trees, NothingDone
  <2>3. \/ Fail(p)
        \/ \E t \in Targets : /\ Loop(p, t, "validate", "stage", {})
                              /\ left[p] = {t} => phase'[p] = "staging"
    BY <1>5 DEF Validate
  <2>4. \/ pc'[p] \in {"validate", "undo"}
        \/ phase'[p] = "staging"
    <3>1. CASE Fail(p)
      BY <2>2, <3>1 DEF Goto, Fail
    <3>2. CASE ~Fail(p)
      <4>1. PICK t \in Targets : /\ Loop(p, t, "validate", "stage", {})
                                 /\ left[p] = {t} => phase'[p] = "staging"
        BY <2>3, <3>2
      <4> QED
        BY <4>1 DEF Loop, Goto
    <3> QED
      BY <3>1, <3>2
  <2> QED
    BY <2>1, <2>2, <2>4 DEF NothingToUndo, Past, Promoting
<1>6. CASE Stage(p) \/ Promote(p) \/ MoveAside(p) \/ Install(p) \/ CleanStaging(p) \/ Publish(p)
  <2>1. pc[p] \in Promoting
    BY <1>6 DEF Stage, Promote, MoveAside, Install, CleanStaging, Publish, Promoting
  <2>2. phase'[p] = phase[p] \/ phase'[p] \in {"promotion", "cleanup", "publication", "committed"}
    BY <1>6 DEF Stage, Promote, MoveAside, PutAside, Install, PutLink, PutNoLink, Journaled,
       CleanStaging, Publish
  <2> QED
    BY <2>1, <2>2 DEF NothingToUndo, Past
<1>7. CASE DropBackup(p) \/ Settle(p)
  BY <1>7 DEF DropBackup, Settle, NothingToUndo, Past
<1>8. CASE \/ Undo(p) \/ PutBackup(p) \/ RestoreMetadata(p) \/ Discard(p) \/ Prune(p) \/ Report(p)
  <2>1. phase' = phase /\ parents' = parents /\ journal'[p] \subseteq journal[p]
    <3>1. CASE Undo(p)
      <4>1. /\ phase' = phase /\ parents' = parents
            /\ journal' = journal \/ \E o : journal' = [journal EXCEPT ![p] = @ \ {o}]
        BY <3>1 DEF Undo
      <4> QED
        BY <4>1
    <3>2. CASE PutBackup(p)
      BY <3>2 DEF PutBackup
    <3>3. CASE RestoreMetadata(p) \/ Discard(p) \/ Prune(p) \/ Report(p)
      BY <3>3 DEF RestoreMetadata, Discard, Prune, Report
    <3> QED
      BY <1>8, <3>1, <3>2, <3>3
  <2>2. pc'[p] \in {"undo", "putback", "restore", "discard", "prune", "report", "release"}
    BY <1>8 DEF Undo, PutBackup, RestoreMetadata, Discard, Prune, Report, Loop, Goto
  <2> QED
    BY <2>1, <2>2 DEF NothingToUndo, Past, Promoting
<1>9. CASE Release(p) \/ Crash(p)
  <2>1. \/ pc'[p] = "done" /\ Reset(p)
        \/ UNCHANGED <<pc, phase, journal, parents>>
    BY <1>9 DEF Release, Crash, Goto
  <2> QED
    BY <1>1, <2>1 DEF NothingToUndo, Past
<1> QED
  BY <1>2, <1>3, <1>4, <1>5, <1>6, <1>7, <1>8, <1>9 DEF Step
(* A run that has nothing to undo keeps what it holds scannable: it adds    *)
(* its own empty record where there was none, and takes it away again.      *)
LEMMA SameSound ==
    ASSUME NEW p \in Applies, HoldsSound(p), Harmless(p)' => Harmless(p), tree' = tree, ns' = ns,
           pc'[p] \notin {"report", "release"}, pc[p] \notin {"report", "release"},
           \A t \in locked'[p] : /\ t \in locked[p] /\ fd'[p][t] = fd[p][t]
                                 /\ prev'[p][t] = prev[p][t]
    PROVE  HoldsSound(p)'
BY DEF HoldsSound, Intact, Recorded, Rec, Reported

LEMMA NothingHeldSound ==
    ASSUME NEW p, locked'[p] = {} \/ ~Harmless(p)' PROVE HoldsSound(p)'
BY DEF HoldsSound

LEMMA PrepareSound ==
    ASSUME IInv, NEW p \in Applies, HoldsSound(p),
           \/ Begin(p) \/ ReadRecord(p) \/ WalkTree(p) \/ BuildPlan(p)
           \/ LookAtRoot(p) \/ MakeRoot(p) \/ OpenRoot(p) \/ LockRoot(p) \/ LockExpires(p)
           \/ Abandon(p) \/ Unchain(p)
    PROVE  HoldsSound(p)'
<1> USE DEF IInv, TypeOK, TypeOfControl
<1>1. CASE Begin(p) \/ ReadRecord(p) \/ WalkTree(p) \/ BuildPlan(p)
  <2>1. locked' = locked /\ pc[p] \in Unlocked
    BY <1>1 DEF Begin, ReadRecord, WalkTree, BuildPlan, handles, Unlocked
  <2> QED
    BY <2>1, NothingHeldSound DEF TargetsTracked, Tracked
<1>2. CASE \/ LookAtRoot(p) \/ MakeRoot(p) \/ OpenRoot(p) \/ LockRoot(p) \/ LockExpires(p)
           \/ Abandon(p) \/ Unchain(p)
  <2>1. tree' = tree /\ ns' = ns /\ prev' = prev /\ pc[p] \in Preparing
    BY <1>2 DEF LookAtRoot, MakeRoot, OpenRoot, LockRoot, LockExpires, Abandon, Unchain, txn, disk,
       Preparing
  <2>2. pc'[p] \in Preparing \cup {"undo", "settle"}
    BY <1>2 DEF LookAtRoot, MakeRoot, OpenRoot, LockRoot, LockExpires, Abandon, Unchain, Goto, Fail,
       Preparing
  <2>3. \A t \in locked'[p] : t \in locked[p] /\ fd'[p][t] = fd[p][t]
    <3>1. ~OpenNamespace(p)
      BY <1>2 DEF OpenNamespace, LookAtRoot, MakeRoot, OpenRoot, LockRoot, LockExpires, Abandon, Unchain
    <3> QED
      BY <1>2, <3>1, LockedStay DEF Step
  <2> QED
    BY <2>1, <2>2, <2>3, SameSound DEF Harmless, Early, Preparing
<1> QED
  BY <1>1, <1>2

(* The namespace is made below a root that nobody else has, which was       *)
(* scannable before.                                                        *)
LEMMA HeldApart ==
    ASSUME IInv, NEW p \in Applies, NEW t \in Targets, Holds(p, t), t \notin locked[p]
    PROVE  ~InUse(fd[p][t])
<1> USE DEF IInv, TypeOK, TypeOfHandles
<1>1. SUFFICES ASSUME NEW q \in Applies, NEW u \in locked[q], fd[q][u] = fd[p][t] PROVE FALSE
  BY DEF InUse
<1>2. q = p
  BY <1>1 DEF LocksHeld, LocksHeldBy, Holds
<1> QED
  BY <1>1, <1>2, ReconcilerAssumption DEF InodesApart, Holds

LEMMA OpenNamespaceSound ==
    ASSUME IInv, RInv, NEW p \in Applies, HoldsSound(p),
           \A i \in Inodes : InUse(i) \/ Sound(i), OpenNamespace(p)
    PROVE  HoldsSound(p)'
<1> USE DEF IInv, TypeOK, TypeOfControl, TypeOfHandles, TypeOfDisk
<1>1. pc[p] = "ns" /\ tree' = tree /\ fd' = fd /\ prev' = prev
  BY DEF OpenNamespace, txn
<1>2. \E t \in Targets :
         /\ First(p, t)
         /\ ns' = ns \/ ns' = [ns EXCEPT ![fd[p][t]].exists = TRUE]
         /\ locked' = locked \/ locked' = [locked EXCEPT ![p] = @ \cup {t}]
  BY DEF OpenNamespace
<1>3. pc'[p] \in Early
  BY DEF OpenNamespace, Goto, Early, Preparing
<1>4. \A i \in Inodes : ns'[i].managed = ns[i].managed
  <2>1. ASSUME NEW j, ns' = [ns EXCEPT ![j].exists = TRUE], NEW i \in Inodes
        PROVE  ns'[i].managed = ns[i].managed
    BY <2>1 DEF Namespace
  <2> QED
    BY <1>2, <2>1
<1>5. \A t \in locked'[p] : t \in locked[p] \/ (First(p, t) /\ t \in Targets)
  BY <1>2
<1>6. \A t \in Targets : First(p, t) => Holds(p, t) /\ t \notin locked[p]
  BY <1>1 DEF LocksHeld, LocksHeldBy, TargetsTracked, Tracked, Preparing, First
<1>7. ASSUME NEW t \in locked'[p]
      PROVE  Intact(fd[p][t]) /\ (prev[p][t] # NoFile => Rec(p, t) = prev[p][t]) /\ fd[p][t] \in Inodes
  <2>1. CASE t \in locked[p]
    BY <1>1, <2>1 DEF HoldsSound, Harmless, Early, Preparing, LocksHeld, LocksHeldBy, Holds
  <2>2. CASE t \notin locked[p]
    <3>1. t \in Targets /\ Holds(p, t)
      BY <1>5, <1>6, <1>7, <2>2
    <3>2. Sound(fd[p][t])
      BY <2>2, <3>1, HeldApart DEF Holds
    <3>3. prev[p][t] = NoFile
      BY <1>1, <2>2, <3>1 DEF RInv, Records, Remembers
    <3> QED
      BY <3>1, <3>2, <3>3 DEF Sound, Holds
  <2> QED
    BY <2>1, <2>2
<1> QED
  BY <1>1, <1>3, <1>4, <1>7 DEF HoldsSound, Intact, Recorded, Rec, Reported, Early, Preparing
(* A record that is there is remembered, and a new one records no link.     *)
LEMMA NewRecord ==
    ASSUME TypeOfDisk, NEW i \in Inodes, NEW r \in Record \cup {NoFile},
           ns' = [ns EXCEPT ![i].managed = r]
    PROVE  /\ ns'[i].managed = r /\ ns'[i].exists = ns[i].exists /\ ns'[i].failure = ns[i].failure
           /\ \A j \in Inodes \ {i} : ns'[j] = ns[j]
BY DEF TypeOfDisk, Namespace

LEMMA InitMetadataSound ==
    ASSUME IInv, RInv, NEW p \in Applies, HoldsSound(p), faults' = faults, InitMetadata(p)
    PROVE  HoldsSound(p)'
<1> USE DEF IInv, TypeOK, TypeOfControl, TypeOfHandles, TypeOfDisk, TypeOfTxn
<1>1. pc[p] = "init" /\ tree' = tree /\ fd' = fd /\ locked' = locked
  BY DEF InitMetadata, handles
<1>2. PICK t \in Targets :
         /\ First(p, t)
         /\ \/ /\ ns[fd[p][t]].managed # NoFile
               /\ prev' = [prev EXCEPT ![p][t] = ns[fd[p][t]].managed]
               /\ ns' = ns
            \/ /\ ns[fd[p][t]].managed = NoFile
               /\ ns' = [ns EXCEPT ![fd[p][t]].managed = EmptyRecord(p)]
               /\ prev' = prev
         /\ Loop(p, t, "root", "validate", locked[p]) \/ Fail(p)
  BY NoFault DEF InitMetadata, TypeOfBudget
<1>3. t \in locked[p] /\ prev[p][t] = NoFile
  BY <1>1, <1>2 DEF TargetsTracked, Tracked, RInv, Records, Remembers
<1>4. \A u \in locked[p] : u \in Targets /\ fd[p][u] \in Inodes /\ (fd[p][u] = fd[p][t] => u = t)
  BY ReconcilerAssumption, <1>3 DEF LocksHeld, LocksHeldBy, Holds, InodesApart
<1>5. \A u \in locked[p] : Intact(fd[p][u]) /\ (prev[p][u] # NoFile => Rec(p, u) = prev[p][u])
  BY <1>1 DEF HoldsSound, Harmless, Early
<1>6. pc'[p] \notin {"report", "release"}
  BY <1>2 DEF Loop, Goto, Fail
<1>7. \A u \in locked[p] : Intact(fd[p][u])' /\ (prev'[p][u] # NoFile => Rec(p, u)' = prev'[p][u])
  <2>1. CASE prev' = [prev EXCEPT ![p][t] = ns[fd[p][t]].managed] /\ ns' = ns
    BY <1>1, <1>3, <1>5, <2>1 DEF Intact, Recorded, Rec
  <2>2. CASE ns' = [ns EXCEPT ![fd[p][t]].managed = EmptyRecord(p)] /\ prev' = prev
    <3>1. EmptyRecord(p) \in Record \cup {NoFile} /\ EmptyRecord(p).entries = NoLinks
      BY ReconcilerAssumption, AbsentViewTyped DEF EmptyRecord, Record
    <3>2. /\ ns'[fd[p][t]].managed = EmptyRecord(p)
          /\ \A j \in Inodes \ {fd[p][t]} : ns'[j] = ns[j]
      BY <1>3, <1>4, <2>2, <3>1, NewRecord
    <3>3. Intact(fd[p][t])'
      BY <1>1, <3>1, <3>2 DEF Intact, Recorded, LinksSound, NoLinks
    <3>4. ASSUME NEW u \in locked[p], u # t
          PROVE  Intact(fd[p][u])' /\ (prev'[p][u] # NoFile => Rec(p, u)' = prev'[p][u])
      <4>1. ns'[fd[p][u]] = ns[fd[p][u]]
        BY <1>4, <3>2, <3>4
      <4> QED
        BY <1>1, <1>5, <2>2, <4>1 DEF Intact, Recorded, Rec
    <3> QED
      BY <1>1, <1>3, <2>2, <3>3, <3>4
  <2> QED
    BY <1>2, <2>1, <2>2
<1> QED
  BY <1>1, <1>6, <1>7 DEF HoldsSound, Reported

(* Behind validation a run is not harmless any more, before it has nothing  *)
(* to change.                                                               *)
LEMMA ValidateSound ==
    ASSUME IInv, NEW p \in Applies, Trees(p), HoldsSound(p), Validate(p)
    PROVE  HoldsSound(p)'
<1> USE DEF IInv, TypeOK, TypeOfControl
<1>1. /\ tree' = tree /\ ns' = ns /\ prev' = prev /\ fd' = fd /\ locked' = locked
      /\ pc[p] = "validate"
  BY DEF Validate, disk, handles, txn
<1>2. pc'[p] \in {"validate", "stage", "undo", "settle"}
  BY DEF Validate, Loop, Goto, Fail
<1> QED
  BY <1>1, <1>2, SameSound DEF Harmless, Early

LEMMA PromotionSound ==
    ASSUME IInv, NEW p \in Applies, Trees(p), NothingToUndo(p), Trees(p)', NothingToUndo(p)',
           \/ Stage(p) \/ Promote(p) \/ MoveAside(p) \/ Install(p) \/ CleanStaging(p) \/ Publish(p)
           \/ DropBackup(p) \/ Settle(p)
    PROVE  HoldsSound(p)'
<1> USE DEF IInv, TypeOK, TypeOfControl
<1>1. pc[p] \in Promoting \cup {"drop", "settle"}
  BY DEF Stage, Promote, MoveAside, Install, CleanStaging, Publish, DropBackup, Settle, Promoting
<1>2. Past(p)
  BY <1>1 DEF NothingToUndo
<1>3. phase'[p] = phase[p] \/ phase'[p] \in {"promotion", "cleanup", "publication", "committed"}
  BY DEF Stage, Promote, MoveAside, PutAside, Install, PutLink, PutNoLink, Journaled,
     CleanStaging, Publish, DropBackup, Settle
<1>4. Past(p)'
  BY <1>2, <1>3 DEF Past
<1>5. pc'[p] \notin Early
  BY <1>4 DEF Trees, NothingDone, Past
<1> QED
  BY <1>4, <1>5, NothingHeldSound DEF Harmless

(* The rollback of a run that changed nothing puts its records back as they *)
(* are, and leaves a receipt where there is none.                           *)
LEMMA UndoSound ==
    ASSUME IInv, NEW p \in Applies, Trees(p), HoldsSound(p), NothingToUndo(p),
           Undo(p) \/ PutBackup(p) \/ Discard(p)
    PROVE  HoldsSound(p)'
<1> USE DEF IInv, TypeOK, TypeOfControl
<1>1. /\ ns' = ns /\ prev' = prev /\ fd' = fd /\ locked' = locked
      /\ phase' = phase /\ outcome' = outcome
      /\ pc[p] \in {"undo", "putback", "discard"}
  BY DEF Undo, PutBackup, Discard, disk, handles
<1>2. CASE Past(p)
  <2>1. pc'[p] \notin Early
    BY DEF Undo, PutBackup, Discard, Loop, Goto, Early, Preparing
  <2> QED
    BY <1>1, <1>2, <2>1, NothingHeldSound DEF Harmless, Past
<1>3. CASE ~Past(p)
  <2>1. journal[p] = {}
    BY <1>3 DEF NothingToUndo
  <2>2. \/ Undo(p) /\ tree' = tree /\ Goto(p, IF locked[p] = {} THEN "release" ELSE "restore")
        \/ Discard(p) /\ tree' = tree /\ pc'[p] \in {"discard", "prune"}
    BY <2>1 DEF Undo, PutBackup, Discard, disk, Loop, Goto
  <2>3. locked'[p] = {} \/ pc'[p] \in {"restore", "discard", "prune"}
    BY <1>1, <2>2 DEF Goto
  <2>4. pc'[p] \in {"restore", "discard", "prune"} /\ Harmless(p)' => Harmless(p)
    BY <1>1 DEF Harmless, Past, Early, Preparing
  <2> QED
    BY <1>1, <2>2, <2>3, <2>4, SameSound, NothingHeldSound
<1> QED
  BY <1>2, <1>3
LEMMA RestoreSound ==
    ASSUME IInv, NEW p \in Applies, Trees(p), HoldsSound(p), NothingToUndo(p), faults' = faults,
           RestoreMetadata(p)
    PROVE  HoldsSound(p)'
<1> USE DEF IInv, TypeOK, TypeOfControl, TypeOfHandles, TypeOfDisk, TypeOfTxn
<1>1. /\ tree' = tree /\ prev' = prev /\ fd' = fd /\ locked' = locked
      /\ phase' = phase /\ outcome' = outcome /\ pc[p] = "restore"
  BY DEF RestoreMetadata, handles
<1>2. PICK t \in Targets :
         /\ First(p, t) /\ ns' = [ns EXCEPT ![fd[p][t]].managed = prev[p][t]]
         /\ Loop(p, t, "restore", "discard", locked[p])
  BY NoFault DEF RestoreMetadata, TypeOfBudget, OldRecord
<1>3. pc'[p] \in {"restore", "discard"}
  BY <1>2 DEF Loop, Goto
<1>4. t \in locked[p]
  BY <1>1, <1>2 DEF TargetsTracked, Tracked, Looping, First
<1>5. \A u \in locked[p] : u \in Targets /\ fd[p][u] \in Inodes /\ (fd[p][u] = fd[p][t] => u = t)
  BY ReconcilerAssumption, <1>4 DEF LocksHeld, LocksHeldBy, Holds, InodesApart
<1>6. /\ ns'[fd[p][t]].managed = prev[p][t]
      /\ \A j \in Inodes \ {fd[p][t]} : ns'[j] = ns[j]
  BY <1>2, <1>4, <1>5, NewRecord
<1>7. CASE Harmless(p)
  <2>1. \A u \in locked[p] : Intact(fd[p][u]) /\ (prev[p][u] # NoFile => Rec(p, u) = prev[p][u])
    BY <1>1, <1>7 DEF HoldsSound
  <2>2. Intact(fd[p][t])' /\ Rec(p, t)' = prev[p][t]
    <3>1. Rec(p, t)' = prev[p][t]
      BY <1>1, <1>6 DEF Rec
    <3>2. CASE prev[p][t] = NoFile
      <4>1. fd'[p][t] = fd[p][t] /\ ns'[fd[p][t]].managed = NoFile
        BY <1>1, <1>6, <3>2
      <4>2. \A x \in Artifacts : Recorded(fd[p][t])'[x] = NoSource
        BY <4>1 DEF Recorded, NoLinks
      <4> QED
        BY <3>1, <4>2 DEF Intact, LinksSound
    <3>3. CASE prev[p][t] # NoFile
      BY <1>1, <1>4, <1>6, <2>1, <3>3 DEF Intact, Recorded, Rec
    <3> QED
      BY <3>1, <3>2, <3>3
  <2>3. \A u \in locked[p] \ {t} : ns'[fd[p][u]] = ns[fd[p][u]]
    BY <1>5, <1>6
  <2>4. \A u \in locked[p] \ {t} : Intact(fd[p][u])' /\ (prev[p][u] # NoFile => Rec(p, u)' = prev[p][u])
    BY <1>1, <2>1, <2>3 DEF Intact, Recorded, Rec
  <2> QED
    BY <1>1, <1>3, <2>2, <2>4 DEF HoldsSound, Reported
<1>8. CASE ~Harmless(p)
  BY <1>1, <1>3, <1>8 DEF HoldsSound, Harmless, Past, Early, Preparing
<1> QED
  BY <1>7, <1>8

LEMMA PruneSound ==
    ASSUME IInv, NEW p \in Applies, HoldsSound(p), NothingToUndo(p), Prune(p)
    PROVE  HoldsSound(p)'
<1> USE DEF IInv, TypeOK, TypeOfControl, TypeOfDisk
<1>1. /\ ns' = ns /\ prev' = prev /\ fd' = fd /\ locked' = locked /\ left' = left
      /\ phase' = phase /\ outcome' = outcome /\ pc[p] = "prune" /\ pc'[p] = "report"
  BY DEF Prune, handles, Goto
<1>2. left[p] = locked[p]
  BY <1>1 DEF TargetsTracked, Tracked, Turning
<1>3. CASE Past(p)
  BY <1>1, <1>3, NothingHeldSound DEF Harmless, Past, Early, Preparing
<1>4. CASE ~Past(p)
  <2>1. parents[p] = {}
    BY <1>4 DEF NothingToUndo
  <2>2. tree' = [i \in Inodes |-> [x \in Paths |-> tree[i][x]]]
    BY <2>1 DEF Prune, Prunable, CreatedDir
  <2>3. tree' = tree
    BY <2>2
  <2>4. Harmless(p)' => Harmless(p)
    BY <1>1 DEF Harmless, Past, Early, Preparing
  <2> QED
    BY <1>1, <1>2, <2>3, <2>4 DEF HoldsSound, Intact, Recorded, Rec, Reported
<1> QED
  BY <1>3, <1>4

LEMMA ReportSound ==
    ASSUME IInv, NEW p \in Applies, HoldsSound(p), litter = {}, faults' = faults, Report(p)
    PROVE  HoldsSound(p)'
<1> USE DEF IInv, TypeOK, TypeOfControl, TypeOfHandles, TypeOfDisk, TypeOfTxn
<1>1. /\ tree' = tree /\ prev' = prev /\ fd' = fd /\ locked' = locked
      /\ phase' = phase /\ outcome' = outcome /\ pc[p] = "report"
  BY DEF Report, handles
<1>2. PICK t \in Targets :
         /\ First(p, t)
         /\ \/ ns' = [ns EXCEPT ![fd[p][t]].failure = TRUE]
            \/ ns' = [ns EXCEPT ![fd[p][t]] = NoNamespace]
         /\ Loop(p, t, "report", "release", locked[p])
  BY NoFault, EmptiedTyped DEF Report, TypeOfBudget
<1>3. \/ left[p] = {t} /\ pc'[p] = "release"
      \/ left'[p] = left[p] \ {t} /\ pc'[p] = "report"
  BY <1>2 DEF Loop, Goto
<1>4. t \in locked[p]
  BY <1>1, <1>2 DEF TargetsTracked, Tracked, Looping, First
<1>5. \A u \in locked[p] : u \in Targets /\ fd[p][u] \in Inodes /\ (fd[p][u] = fd[p][t] => u = t)
  BY ReconcilerAssumption, <1>4 DEF LocksHeld, LocksHeldBy, Holds, InodesApart
<1>6. \A j \in Inodes \ {fd[p][t]} : ns'[j] = ns[j]
  BY <1>2
<1>7. /\ RecordReadable(ns'[fd[p][t]])
      /\ ns'[fd[p][t]].managed \in {ns[fd[p][t]].managed, NoFile}
  <2>1. fd[p][t] \in Inodes /\ ns[fd[p][t]] \in Namespace
    BY <1>4, <1>5
  <2>2. CASE ns' = [ns EXCEPT ![fd[p][t]].failure = TRUE]
    BY <2>1, <2>2 DEF Namespace, RecordReadable
  <2>3. CASE ns' = [ns EXCEPT ![fd[p][t]] = NoNamespace]
    BY <2>1, <2>3 DEF NoNamespace, RecordReadable
  <2> QED
    BY <1>2, <2>2, <2>3
<1>8. CASE Harmless(p)
  <2>1. \A u \in locked[p] : /\ Intact(fd[p][u])
                             /\ Reported(p, u) => RecordReadable(ns[fd[p][u]])
    BY <1>1, <1>8 DEF HoldsSound
  <2>2. Intact(fd[p][t])'
    <3>1. CASE ns'[fd[p][t]].managed = NoFile
      BY <1>1, <3>1 DEF Intact, Recorded, LinksSound, NoLinks
    <3>2. CASE ns'[fd[p][t]].managed = ns[fd[p][t]].managed
      BY <1>1, <1>4, <2>1, <3>2 DEF Intact, Recorded
    <3> QED
      BY <1>7, <3>1, <3>2
  <2>3. \A u \in locked[p] \ {t} : ns'[fd[p][u]] = ns[fd[p][u]]
    BY <1>5, <1>6
  <2>4. \A u \in locked[p] \ {t} : /\ Intact(fd[p][u])'
                                   /\ Reported(p, u)' => RecordReadable(ns'[fd[p][u]])
    BY <1>1, <1>3, <2>1, <2>3 DEF Intact, Recorded, Reported
  <2> QED
    BY <1>1, <1>3, <1>7, <2>2, <2>4 DEF HoldsSound
<1>9. CASE ~Harmless(p)
  BY <1>1, <1>3, <1>9 DEF HoldsSound, Harmless, Past, Early, Preparing
<1> QED
  BY <1>8, <1>9

LEMMA ReleaseSound ==
    ASSUME IInv, NEW p \in Applies, HoldsSound(p), Release(p) \/ Crash(p)
    PROVE  HoldsSound(p)'
<1> USE DEF IInv, TypeOK, TypeOfControl, TypeOfHandles
<1>1. CASE Crash(p)
  BY <1>1, NothingHeldSound DEF Crash
<1>2. CASE Release(p)
  <2>1. /\ tree' = tree /\ ns' = ns /\ pc[p] = "release"
        /\ \A t \in locked'[p] : t \in locked[p] /\ fd'[p][t] = fd[p][t]
    BY <1>2, LockedStay DEF Release, OpenNamespace, disk, Step
  <2>2. CASE UNCHANGED <<pc, phase, outcome>>
    BY <2>1, <2>2 DEF HoldsSound, Harmless, Past, Intact, Recorded, Reported
  <2>3. CASE left[p] = {} /\ locked' = locked
    <3>1. locked'[p] = {}
      BY <2>1, <2>3 DEF TargetsTracked, Tracked, Turning
    <3> QED
      BY <3>1, NothingHeldSound
  <2> QED
    BY <1>2, <2>2, <2>3 DEF Release, handles
<1> QED
  BY <1>1, <1>2

(* What is given up is scannable: nothing was changed, or it is committed.  *)
LEMMA GivenUpSound ==
    ASSUME IInv, NEW p \in Applies, Trees(p), FailsEarly(p), HoldsSound(p), Release(p),
           NEW t \in locked[p], t \notin locked'[p]
    PROVE  Sound(fd[p][t])
<1> USE DEF IInv, TypeOK, TypeOfControl, TypeOfHandles
<1>1. pc[p] = "release" /\ left[p] = locked[p]
  BY DEF Release, TargetsTracked, Tracked, Turning
<1>2. CASE outcome[p] = "failed"
  <2>1. Harmless(p)
    BY <1>1, <1>2 DEF FailsEarly, Harmless, Past
  <2> QED
    BY <1>1, <2>1 DEF HoldsSound, Sound, Reported
<1>3. CASE outcome[p] \in {"ok", "committed"}
  <2>1. Converged(p, t) /\ at[t] = fd[p][t] /\ ns[fd[p][t]].exists
    BY <1>1, <1>3, CommitLeaves DEF Finishing, Trees, Transaction, Active, RootsHeld
  <2> QED
    BY <2>1 DEF Converged, Scannable, Sound, Intact, Recorded, RecordedLinks, HasRecord
<1> QED
  BY <1>1, <1>2, <1>3 DEF Trees, Course, RolledBack, Settled
LEMMA OwnSound ==
    ASSUME IInv, RInv, NEW p \in Applies, Trees(p), Trees(p)', NothingToUndo(p), HoldsSound(p),
           litter = {}, \A i \in Inodes : InUse(i) \/ Sound(i), faults' = faults,
           Begin(p) \/ Step(p) \/ Crash(p)
    PROVE  NothingToUndo(p)' /\ HoldsSound(p)'
<1>1. NothingToUndo(p)'
  BY PastGrows
<1>2. CASE \/ Begin(p) \/ ReadRecord(p) \/ WalkTree(p) \/ BuildPlan(p)
           \/ LookAtRoot(p) \/ MakeRoot(p) \/ OpenRoot(p) \/ LockRoot(p) \/ LockExpires(p)
           \/ Abandon(p) \/ Unchain(p)
  BY <1>1, <1>2, PrepareSound
<1>3. CASE OpenNamespace(p) \/ InitMetadata(p) \/ Validate(p)
  BY <1>1, <1>3, OpenNamespaceSound, InitMetadataSound, ValidateSound
<1>4. CASE \/ Stage(p) \/ Promote(p) \/ MoveAside(p) \/ Install(p) \/ CleanStaging(p) \/ Publish(p)
           \/ DropBackup(p) \/ Settle(p)
  BY <1>1, <1>4, PromotionSound
<1>5. CASE Undo(p) \/ PutBackup(p) \/ Discard(p)
  BY <1>1, <1>5, UndoSound
<1>6. CASE RestoreMetadata(p) \/ Prune(p) \/ Report(p)
  BY <1>1, <1>6, RestoreSound, PruneSound, ReportSound
<1>7. CASE Release(p) \/ Crash(p)
  BY <1>1, <1>7, ReleaseSound
<1> QED
  BY <1>2, <1>3, <1>4, <1>5, <1>6, <1>7 DEF Step

(* The other runs keep what they have.                                      *)
LEMMA OthersSound ==
    ASSUME IInv, NEW p \in Applies, Begin(p) \/ Step(p) \/ Crash(p), NEW q \in Applies \ {p},
           NothingToUndo(q), HoldsSound(q)
    PROVE  NothingToUndo(q)' /\ HoldsSound(q)'
<1> USE DEF IInv
<1>1. OthersUntouched(p) /\ OwnRootsOnly(p)
  BY StepFrame
<1>2. /\ pc'[q] = pc[q] /\ left'[q] = left[q] /\ fd'[q] = fd[q] /\ locked'[q] = locked[q]
      /\ prev'[q] = prev[q] /\ journal'[q] = journal[q] /\ parents'[q] = parents[q]
      /\ phase'[q] = phase[q] /\ outcome'[q] = outcome[q]
  BY <1>1, OthersCourse DEF OthersUntouched
<1>3. \A t \in locked[q] : tree'[fd[q][t]] = tree[fd[q][t]] /\ ns'[fd[q][t]] = ns[fd[q][t]]
  BY <1>1 DEF OwnRootsOnly, LocksHeld, LocksHeldBy, Holds
<1>4. NothingToUndo(q)'
  BY <1>2 DEF NothingToUndo, Past
<1>5. HoldsSound(q)'
  BY <1>2, <1>3 DEF HoldsSound, Harmless, Past, Intact, Recorded, Rec, Reported
<1> QED
  BY <1>4, <1>5

(* Roots that no run has locked are changed by nobody, and get scannable    *)
(* when they are given up.                                                  *)
LEMMA UnusedSound ==
    ASSUME IInv, NEW p \in Applies, Trees(p), FailsEarly(p), HoldsSound(p), crashes' = crashes,
           \A i \in Inodes : InUse(i) \/ Sound(i), Begin(p) \/ Step(p) \/ Crash(p),
           NEW i \in Inodes, ~InUse(i)'
    PROVE  Sound(i)'
<1> USE DEF IInv, TypeOK, TypeOfBudget
<1>1. ~Crash(p)
  BY DEF Crash
<1>2. tree'[i] = tree[i] /\ ns'[i] = ns[i]
  <2>1. CASE Release(p)
    BY <2>1 DEF Release, disk
  <2>2. CASE ~Release(p)
    <3>1. \A t \in locked[p] : fd[p][t] # i
      BY <1>1, <2>2, LockedStay DEF InUse
    <3>2. tree'[i] = tree[i]
      BY <3>1, TreesOfLocked
    <3>3. ns'[i] = ns[i]
      BY <3>1, NamespacesOfLocked, LockedStay DEF InUse
    <3> QED
      BY <3>2, <3>3
  <2> QED
    BY <2>1, <2>2
<1>3. Sound(i)
  <2>1. SUFFICES ASSUME NEW q \in Applies, NEW t \in locked[q], fd[q][t] = i PROVE Sound(i)
    BY DEF InUse
  <2>2. q = p
    BY <2>1, StepFrame DEF OthersUntouched, InUse
  <2>3. Release(p) /\ t \notin locked'[p]
    <3>1. CASE ~Release(p)
      BY <1>1, <2>1, <2>2, <3>1, LockedStay DEF InUse
    <3>2. CASE Release(p)
      <4>1. \A u \in locked'[p] : fd'[p][u] = fd[p][u]
        BY <3>2, LockedStay DEF OpenNamespace, Release, Step, TypeOfControl
      <4> QED
        BY <2>1, <2>2, <3>2, <4>1 DEF InUse
    <3> QED
      BY <3>1, <3>2
  <2> QED
    BY <2>1, <2>2, <2>3, GivenUpSound
<1> QED
  BY <1>2, <1>3 DEF Sound, Intact, Recorded

LEMMA SoundInit == ASSUME Init, SoundPriors PROVE NInv
<1>1. PICK w \in [Targets -> Priors] :
         LET Homed(i) == {t \in Targets : w[t].present /\ Home[t] = i} IN
         /\ tree = [i \in Inodes |-> IF Homed(i) = {} THEN EmptyTree
                                      ELSE w[CHOOSE t \in Homed(i) : TRUE].nodes]
         /\ ns = [i \in Inodes |-> IF Homed(i) = {} THEN NoNamespace
                                   ELSE w[CHOOSE t \in Homed(i) : TRUE].ns]
  BY DEF Init
<1>2. ASSUME NEW i \in Inodes PROVE Sound(i)
  <2> DEFINE Homed == {t \in Targets : w[t].present /\ Home[t] = i}
  <2>1. CASE Homed = {}
    <3>1. ns[i] = NoNamespace
      BY <1>1, <1>2, <2>1
    <3> QED
      BY <3>1 DEF NoNamespace, Sound, Intact, Recorded, RecordReadable, LinksSound, NoLinks
  <2>2. CASE Homed # {}
    <3> DEFINE t == CHOOSE u \in Homed : TRUE
    <3>1. t \in Homed /\ w[t] \in Priors /\ w[t].present
      BY <2>2
    <3>2. tree[i] = w[t].nodes /\ ns[i] = w[t].ns
      BY <1>1, <1>2, <2>2
    <3> HIDE DEF t
    <3>3. Scannable(w[t].ns, w[t].nodes) /\ (~w[t].ns.exists => w[t].ns = NoNamespace)
      BY <3>1, PriorsAssumption DEF SoundPriors
    <3> QED
      BY <3>2, <3>3 DEF Scannable, Sound, Intact, Recorded, RecordedLinks, HasRecord, NoNamespace
  <2> QED
    BY <2>1, <2>2
<1>3. \A p \in Applies : NothingToUndo(p) /\ HoldsSound(p)
  BY DEF Init, NothingToUndo, HoldsSound, Promoting, Past
<1>4. litter = {}
  BY DEF Init
<1> QED
  BY <1>2, <1>3, <1>4 DEF NInv

(* Transactions leave something only when they fail or their run is killed. *)
LEMMA NothingLeft ==
    ASSUME IInv, NEW p \in Applies, Trees(p), FailsEarly(p), litter = {},
           faults' = faults, crashes' = crashes, Begin(p) \/ Step(p) \/ Crash(p)
    PROVE  litter' = {}
<1> USE DEF IInv, TypeOK, TypeOfBudget
<1>1. CASE Stage(p)
  BY <1>1, NoFault DEF Stage
<1>2. CASE Report(p)
  <2>1. outcome[p] = "failed" /\ pc[p] = "report"
    BY <1>2 DEF Report, Trees, Course, RolledBack
  <2>2. ~Past(p)
    BY <2>1 DEF FailsEarly, Past
  <2>3. Unswept(p) = {}
    BY <2>2 DEF Unswept
  <2> QED
    BY <1>2, <2>3 DEF Report
<1>3. CASE Crash(p)
  BY <1>3 DEF Crash
<1>4. CASE ~(Stage(p) \/ Report(p) \/ Crash(p))
  BY <1>4 DEF Step, Begin, ReadRecord, WalkTree, BuildPlan, LookAtRoot, MakeRoot, OpenRoot,
     LockRoot, LockExpires, OpenNamespace, Abandon, Unchain, InitMetadata, Validate, Promote,
     MoveAside, Install, CleanStaging, Publish, DropBackup, Settle, Undo, PutBackup,
     RestoreMetadata, Discard, Prune, Release
<1> QED
  BY <1>1, <1>2, <1>3, <1>4

LEMMA SoundNext ==
    ASSUME IInv, RInv, TInv, TInv', FailuresAreEarly, NInv, [Next]_vars PROVE NInv'
<1> USE DEF IInv, TypeOK, TypeOfBudget
<1>1. ASSUME Undisturbed', NEW p \in Applies, Begin(p) \/ Step(p) \/ Crash(p) PROVE NInv'
  <2>1. /\ envs' = envs /\ envs = 0 /\ faults' = faults /\ faults = 0
    BY <1>1, StepFrame, FaultsGrow DEF Undisturbed
  <2>2. crashes' = crashes /\ crashes = 0
    <3>1. crashes' = crashes \/ crashes' = crashes + 1
      BY <1>1 DEF Step, Begin, ReadRecord, WalkTree, BuildPlan, LookAtRoot, MakeRoot, OpenRoot,
         LockRoot, LockExpires, OpenNamespace, Abandon, Unchain, InitMetadata, Validate, Stage,
         Promote, MoveAside, Install, CleanStaging, Publish, DropBackup, Settle, Undo, PutBackup,
         RestoreMetadata, Discard, Prune, Report, Release, Crash, budget
    <3> QED
      BY <1>1, <3>1 DEF Undisturbed
  <2>3. Undisturbed
    BY <2>1, <2>2 DEF Undisturbed
  <2>4. Trees(p) /\ Trees(p)' /\ FailsEarly(p)
    BY <2>1 DEF TInv, FailuresAreEarly
  <2>5. /\ litter = {} /\ \A i \in Inodes : InUse(i) \/ Sound(i)
        /\ \A q \in Applies : NothingToUndo(q) /\ HoldsSound(q)
    BY <2>3 DEF NInv
  <2>6. NothingToUndo(p)' /\ HoldsSound(p)'
    BY <1>1, <2>1, <2>4, <2>5, OwnSound
  <2>7. \A q \in Applies \ {p} : NothingToUndo(q)' /\ HoldsSound(q)'
    BY <1>1, <2>5, OthersSound
  <2>8. \A i \in Inodes : InUse(i)' \/ Sound(i)'
    BY <1>1, <2>2, <2>4, <2>5, UnusedSound
  <2>9. litter' = {}
    BY <1>1, <2>1, <2>2, <2>4, <2>5, NothingLeft
  <2> QED
    BY <2>6, <2>7, <2>8, <2>9 DEF NInv
<1>2. CASE UserStep
  BY <1>2 DEF UserStep, NInv, Undisturbed
<1>3. CASE UNCHANGED vars
  BY <1>3 DEF vars, disk, plan, control, handles, txn, budget, NInv, Undisturbed, InUse, Sound,
     Intact, Recorded, NothingToUndo, Past, HoldsSound, Harmless, Rec, Reported
<1> QED
  BY <1>1, <1>2, <1>3 DEF Next, Finished, NInv

LEMMA SoundIsUnwedged == IInv /\ NInv /\ Undisturbed => NeverWedged
<1> SUFFICES ASSUME IInv, NInv, Undisturbed, NEW t \in Targets,
                    at[t] # NoInode, flock[at[t]] = NoApply
             PROVE  Scannable(ns[at[t]], tree[at[t]])
  BY DEF NeverWedged
<1> USE DEF IInv, TypeOK, TypeOfDisk
<1>1. at[t] \in Inodes /\ ~InUse(at[t])
  BY ReconcilerAssumption DEF InUse, LocksHeld, LocksHeldBy, Holds
<1>2. Sound(at[t])
  BY <1>1 DEF NInv
<1> QED
  BY <1>2 DEF Sound, Intact, Recorded, Scannable, RecordedLinks, HasRecord, LinksSound, NoLinks

(* As long as there are no errors, users and kills, and every root could be *)
(* scanned at the start, a run that ends, whether it commits or has to give *)
(* up, leaves no target that later scans refuse.                            *)
THEOREM NothingIsWedged == ASSUME SoundPriors PROVE Spec => [](Undisturbed => NeverWedged)
<1>1. Init => IInv /\ RInv /\ TInv /\ FailuresAreEarly /\ NInv
  BY InvariantInit, RecordsInit, TreesInit, FailuresInit, SoundInit
<1>2. IInv /\ RInv /\ TInv /\ FailuresAreEarly /\ NInv /\ [Next]_vars
      => IInv' /\ RInv' /\ TInv' /\ FailuresAreEarly' /\ NInv'
  BY InvariantNext, RecordsNext, TreesNext, FailuresNext, SoundNext
<1>3. IInv /\ NInv => (Undisturbed => NeverWedged)
  BY SoundIsUnwedged
<1> QED
  BY <1>1, <1>2, <1>3, PTL DEF Spec
=============================================================================
