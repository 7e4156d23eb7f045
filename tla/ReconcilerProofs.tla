-------------------------- MODULE ReconcilerProofs --------------------------
(***************************************************************************)
(* IInv is inductive, and what follows from it: type correctness, mutual   *)
(* exclusion and writing under the lock only, for any number of runs,      *)
(* targets, sources and directories; first the types, then the rest.       *)
(* RInv is inductive beside it, and what follows from both: the authority  *)
(* that a target records stays, a reviewed plan is current when it is      *)
(* carried out, and verify and apply agree on every target.  OInv is       *)
(* inductive beside IInv, and no runs wait for each other in a circle.     *)
(***************************************************************************)
EXTENDS ReconcilerRecords, TLAPS

(* A loop over targets stays within its steps and targets.                  *)
LEMMA LoopTyped ==
    ASSUME TypeOfControl, NEW p \in Applies, NEW t \in Targets,
           NEW step \in Steps, NEW after \in Steps, NEW again \in SUBSET Targets,
           Loop(p, t, step, after, again)
    PROVE  pc' \in [Applies -> Steps] /\ left' \in [Applies -> SUBSET Targets]
BY DEF TypeOfControl, Loop, Goto

LEMMA FailTyped ==
    ASSUME TypeOfControl, TypeOfHandles, NEW p \in Applies, Fail(p)
    PROVE  /\ pc' \in [Applies -> Steps]
           /\ left' \in [Applies -> SUBSET Targets]
           /\ outcome' \in [Applies -> Outcomes]
BY DEF TypeOfControl, TypeOfHandles, Fail, Goto, Steps, Outcomes

LEMMA InitTyped == Init => TypeOK
<1> SUFFICES ASSUME Init PROVE TypeOK
  OBVIOUS
<1>1. TypeOfDisk
  BY ReconcilerAssumption, MakersAssumption DEF Init, TypeOfDisk, Node, EmptyTree, Hole, Kinds, NoNamespace, Namespace
<1>2. TypeOfPlan
  BY DEF Init, TypeOfPlan, NoLinks, Links, AbsentView, View, Nothing, Shape, Kinds
<1>3. TypeOfControl
  BY DEF Init, TypeOfControl, Steps, Phases, Outcomes
<1>4. TypeOfHandles
  BY ReconcilerAssumption DEF Init, TypeOfHandles
<1>5. TypeOfTxn
  BY MakersAssumption DEF Init, TypeOfTxn, NoBackup, EmptyTree, Hole, Node, Kinds
<1>6. TypeOfBudget
  BY DEF Init, TypeOfBudget
<1> QED
  BY <1>1, <1>2, <1>3, <1>4, <1>5, <1>6 DEF TypeOK

(* Operations of a run are artifacts of its targets.                        *)
LEMMA OpsTyped ==
    ASSUME TypeOfPlan, NEW p \in Applies, NEW o \in Ops(p)
    PROVE  /\ o \in Operations /\ o[1] \in sel[p] /\ o[1] \in Targets
           /\ o[2] \in Artifacts /\ o[2] \in Paths
           /\ o = <<o[1], o[2]>>
BY PlannerAssumption DEF TypeOfPlan, Ops, Operations

(* Writing one node keeps a tree a tree, and a backup a backup.             *)
LEMMA NodePut ==
    ASSUME NEW f \in [Inodes -> [Paths -> Node]], NEW i, NEW x, NEW n \in Node
    PROVE  [f EXCEPT ![i][x] = n] \in [Inodes -> [Paths -> Node]]
OBVIOUS

LEMMA BackupPut ==
    ASSUME TypeOfTxn, NEW p \in Applies, NEW t \in Targets, NEW x \in Paths, NEW n \in Node
    PROVE  [bak EXCEPT ![p][t][x] = n] \in [Applies -> [Targets -> [Paths -> Node]]]
BY DEF TypeOfTxn

LEMMA HoleTyped == Hole \in Node
BY MakersAssumption DEF Hole, Node, Kinds

LEMMA JournalTyped ==
    ASSUME TypeOfTxn, TypeOfControl, TypeOfHandles,
           NEW p \in Applies, NEW o \in Operations, Journaled(p, o)
    PROVE  /\ journal' \in [Applies -> SUBSET Operations]
           /\ pc' \in [Applies -> Steps]
           /\ left' \in [Applies -> SUBSET Targets]
           /\ outcome' \in [Applies -> Outcomes]
           /\ phase' \in [Applies -> Phases]
<1>1. journal' \in [Applies -> SUBSET Operations]
  BY DEF TypeOfTxn, Journaled
<1>2. CASE Fail(p) /\ UNCHANGED phase
  BY <1>1, <1>2, FailTyped DEF TypeOfControl
<1>3. CASE /\ Goto(p, IF Todo(p) = {o} THEN "clean" ELSE "promote")
           /\ phase' = [phase EXCEPT ![p] = IF Todo(p) = {o} THEN "cleanup" ELSE @]
           /\ UNCHANGED <<left, outcome, faults>>
  BY <1>1, <1>3 DEF TypeOfControl, Goto, Steps, Phases
<1> QED
  BY <1>2, <1>3 DEF Journaled

LEMMA PutBackTyped ==
    ASSUME TypeOfDisk, TypeOfTxn, NEW p \in Applies, NEW o \in Operations, PutBack(p, o)
    PROVE  /\ tree' \in [Inodes -> [Paths -> Node]]
           /\ bak' \in [Applies -> [Targets -> [Paths -> Node]]]
<1>1. o[1] \in Targets /\ o[2] \in Paths
  BY PlannerAssumption DEF Operations
<1>2. bak[p][o[1]][o[2]] \in Node
  BY <1>1 DEF TypeOfTxn
<1> DEFINE n == bak[p][o[1]][o[2]]
<1>3. [tree EXCEPT ![fd[p][o[1]]][o[2]] = n] \in [Inodes -> [Paths -> Node]]
  BY <1>2, NodePut DEF TypeOfDisk
<1>4. [bak EXCEPT ![p][o[1]][o[2]] = Hole] \in [Applies -> [Targets -> [Paths -> Node]]]
  BY <1>1, HoleTyped, BackupPut
<1> QED
  BY <1>3, <1>4 DEF PutBack, TypeOfDisk, TypeOfTxn

LEMMA InstallTyped ==
    ASSUME IInv, NEW p \in Applies, Install(p)
    PROVE  TypeOK'
<1> USE DEF IInv, TypeOK
<1>1. PICK o \in Ops(p) : PutLink(p, o) \/ PutNoLink(p, o)
  BY DEF Install
<1>2. /\ o \in Operations /\ o[1] \in Targets /\ o[2] \in Artifacts /\ o[2] \in Paths
  BY OpsTyped
<1>3. TypeOfDisk' /\ bak' \in [Applies -> [Targets -> [Paths -> Node]]]
  <2>1. CASE PutLink(p, o)
    <3>1. StagedLink(p, o) \in Node
      BY <1>2, MakersAssumption DEF TypeOfPlan, Links, Node, Kinds, StagedLink
    <3>2. [tree EXCEPT ![fd[p][o[1]]][o[2]] = StagedLink(p, o)] \in [Inodes -> [Paths -> Node]]
      BY <3>1, NodePut DEF TypeOfDisk
    <3> QED
      BY <2>1, <3>2 DEF Install, PutLink, TypeOfDisk, TypeOfTxn
  <2>2. CASE PutNoLink(p, o)
    BY <1>2, <2>2, PutBackTyped DEF Install, PutNoLink, TypeOfDisk, TypeOfTxn
  <2> QED BY <1>1, <2>1, <2>2
<1>4. TypeOfControl' /\ journal' \in [Applies -> SUBSET Operations]
  BY <1>1, <1>2, JournalTyped, FailTyped DEF PutLink, PutNoLink, TypeOfControl, TypeOfTxn
<1>5. TypeOfBudget'
  BY <1>1 DEF Install, PutLink, PutNoLink, Journaled, Fault, TypeOfBudget
<1> QED
  BY <1>3, <1>4, <1>5 DEF Install, plan, handles, TypeOfPlan, TypeOfHandles, TypeOfTxn

(* One entry of a table per run and target is written.                      *)
LEMMA CellPut ==
    ASSUME NEW V, NEW f \in [Applies -> [Targets -> V]], NEW p \in Applies,
           NEW t \in Targets, NEW v \in V
    PROVE  [f EXCEPT ![p][t] = v] \in [Applies -> [Targets -> V]]
OBVIOUS

LEMMA NamespacePut ==
    ASSUME NEW f \in [Inodes -> Namespace], NEW i, NEW r \in Record \cup {NoFile}
    PROVE  /\ [f EXCEPT ![i].managed = r] \in [Inodes -> Namespace]
           /\ [f EXCEPT ![i].exists = TRUE] \in [Inodes -> Namespace]
           /\ [f EXCEPT ![i].failure = TRUE] \in [Inodes -> Namespace]
BY DEF Namespace

(* What a scan reads has the type of a view.                                *)
LEMMA RecordTyped ==
    ASSUME NEW n \in Namespace
    PROVE  /\ RecordedCache(n) \in Caches \cup {NoCache}
           /\ RecordedLinks(n) \in Links
BY DEF Namespace, Record, RecordedCache, RecordedLinks, HasRecord, NoLinks, Links

LEMMA UnmanagedTyped ==
    ASSUME NEW entries \in Links, NEW nodes \in [Paths -> Node]
    PROVE  Unmanaged(entries, nodes) \in [Paths -> Shape]
BY DEF Unmanaged, Shape, Node, Nothing, Kinds

LEMMA AbsentViewTyped == AbsentView \in View /\ NoLinks \in Links
BY DEF AbsentView, View, NoLinks, Links, Nothing, Shape, Kinds

LEMMA ForgetTyped ==
    ASSUME TypeOfControl, TypeOfPlan, NEW p \in Applies, Forget(p)
    PROVE  TypeOfPlan' /\ left' \in [Applies -> SUBSET Targets]
<1>1. [t \in Targets |-> NoLinks] \in [Targets -> Links]
      /\ [t \in Targets |-> AbsentView] \in [Targets -> View]
  BY AbsentViewTyped
<1> QED
  BY <1>1 DEF TypeOfControl, TypeOfPlan, Forget

LEMMA LeaveTyped ==
    ASSUME TypeOfControl, TypeOfPlan, NEW p \in Applies, NEW how \in Outcomes, Leave(p, how)
    PROVE  /\ TypeOfPlan' /\ left' \in [Applies -> SUBSET Targets]
           /\ pc' \in [Applies -> Steps] /\ outcome' \in [Applies -> Outcomes]
BY ForgetTyped DEF TypeOfControl, Leave, Goto, Steps

LEMMA BeginTyped ==
    ASSUME IInv, NEW p \in Applies, Begin(p) PROVE TypeOK'
<1> USE DEF IInv, TypeOK
<1>1. TypeOfPlan'
  BY ReconcilerAssumption DEF Begin, TypeOfPlan
<1>2. TypeOfControl'
  BY DEF Begin, TypeOfControl, Goto, Steps
<1> QED
  BY <1>1, <1>2 DEF Begin, disk, handles, txn, budget,
     TypeOfDisk, TypeOfHandles, TypeOfTxn, TypeOfBudget

LEMMA ReadRecordTyped ==
    ASSUME IInv, NEW p \in Applies, ReadRecord(p) PROVE TypeOK'
<1> USE DEF IInv, TypeOK
<1> DEFINE Read(t) == [AbsentView EXCEPT !.exists = TRUE,
                                         !.cache = RecordedCache(ns[at[t]]),
                                         !.entries = RecordedLinks(ns[at[t]])]
<1>1. PICK t \in Targets :
         \/ /\ seen' = [seen EXCEPT ![p][t] = AbsentView]
            /\ Loop(p, t, "scan", "plan", sel[p])
            /\ UNCHANGED <<sel, want, outcome>>
         \/ /\ at[t] # NoInode
            /\ seen' = [seen EXCEPT ![p][t] = Read(t)]
            /\ Goto(p, "walk")
            /\ UNCHANGED <<sel, want, left, outcome>>
         \/ Leave(p, "unscannable")
  BY DEF ReadRecord
<1>2. TypeOfPlan'
  <2>1. at[t] # NoInode => Read(t) \in View
    BY RecordTyped, AbsentViewTyped DEF TypeOfDisk, View
  <2>2. CASE Leave(p, "unscannable")
    BY <2>2, LeaveTyped DEF Outcomes
  <2>3. CASE seen' = [seen EXCEPT ![p][t] = AbsentView] /\ UNCHANGED <<sel, want>>
    BY <2>3, CellPut, AbsentViewTyped DEF TypeOfPlan
  <2>4. CASE /\ at[t] # NoInode /\ seen' = [seen EXCEPT ![p][t] = Read(t)]
             /\ UNCHANGED <<sel, want>>
    <3>1. [seen EXCEPT ![p][t] = Read(t)] \in [Applies -> [Targets -> View]]
      BY <2>1, <2>4, CellPut DEF TypeOfPlan
    <3> HIDE DEF Read
    <3> QED
      BY <2>4, <3>1 DEF TypeOfPlan
  <2> QED BY <1>1, <2>2, <2>3, <2>4
<1>3. TypeOfControl'
  <2>1. CASE Leave(p, "unscannable")
    BY <2>1, LeaveTyped DEF ReadRecord, TypeOfControl, Outcomes
  <2>2. CASE Loop(p, t, "scan", "plan", sel[p]) /\ UNCHANGED outcome
    <3>1. sel[p] \in SUBSET Targets
      BY DEF TypeOfPlan
    <3> QED
      BY <2>2, <3>1 DEF ReadRecord, TypeOfControl, Steps, Loop, Goto
  <2>3. CASE Goto(p, "walk") /\ UNCHANGED <<left, outcome>>
    BY <2>3 DEF ReadRecord, TypeOfControl, Goto, Steps
  <2> QED BY <1>1, <2>1, <2>2, <2>3
<1> QED
  BY <1>2, <1>3 DEF ReadRecord, disk, handles, txn, budget,
     TypeOfDisk, TypeOfHandles, TypeOfTxn, TypeOfBudget

LEMMA WalkTreeTyped ==
    ASSUME IInv, NEW p \in Applies, WalkTree(p) PROVE TypeOK'
<1> USE DEF IInv, TypeOK
<1> DEFINE Walked(t) == Unmanaged(seen[p][t].entries, tree[at[t]])
<1>1. PICK t \in Targets :
         \/ /\ at[t] # NoInode
            /\ seen' = [seen EXCEPT ![p][t].unmanaged = Walked(t)]
            /\ Loop(p, t, "scan", "plan", sel[p])
            /\ UNCHANGED <<sel, want, outcome>>
         \/ Leave(p, "unscannable")
  BY DEF WalkTree
<1>2. ASSUME Leave(p, "unscannable") PROVE TypeOfPlan' /\ TypeOfControl'
  BY <1>2, LeaveTyped DEF WalkTree, TypeOfControl, Outcomes
<1>3. ASSUME ~Leave(p, "unscannable") PROVE TypeOfPlan' /\ TypeOfControl'
  <2>1. Walked(t) \in [Paths -> Shape]
    BY <1>1, <1>3, UnmanagedTyped DEF TypeOfDisk, TypeOfPlan, View
  <2>2. [seen[p][t] EXCEPT !.unmanaged = Walked(t)] \in View
    <3>1. seen[p][t] \in View
      BY DEF TypeOfPlan
    <3> QED
      BY <2>1, <3>1 DEF View
  <2>3. seen' = [seen EXCEPT ![p][t] = [seen[p][t] EXCEPT !.unmanaged = Walked(t)]]
    BY <1>1, <1>3 DEF TypeOfPlan
  <2>4. seen' \in [Applies -> [Targets -> View]]
    BY <2>2, <2>3, CellPut DEF TypeOfPlan
  <2>5. TypeOfPlan'
    BY <1>1, <1>3, <2>4 DEF TypeOfPlan
  <2>6. TypeOfControl'
    <3>1. sel[p] \in SUBSET Targets
      BY DEF TypeOfPlan
    <3> QED
      BY <1>1, <1>3, <3>1 DEF WalkTree, TypeOfControl, Steps, Loop, Goto
  <2> QED
    BY <2>5, <2>6
<1>4. TypeOfPlan' /\ TypeOfControl'
  BY <1>1, <1>2, <1>3
<1> QED
  BY <1>4 DEF WalkTree, disk, handles, txn, budget,
     TypeOfDisk, TypeOfHandles, TypeOfTxn, TypeOfBudget

LEMMA BuildPlanTyped ==
    ASSUME IInv, NEW p \in Applies, BuildPlan(p) PROVE TypeOK'
<1> USE DEF IInv, TypeOK
<1>1. TypeOfPlan'
  BY LeaveTyped DEF BuildPlan, TypeOfPlan, plan, Outcomes
<1>2. TypeOfControl'
  BY LeaveTyped DEF BuildPlan, TypeOfControl, Goto, Steps, Outcomes
<1> QED
  BY <1>1, <1>2 DEF BuildPlan, disk, handles, txn, budget,
     TypeOfDisk, TypeOfHandles, TypeOfTxn, TypeOfBudget

LEMMA LookAtRootTyped ==
    ASSUME IInv, NEW p \in Applies, LookAtRoot(p) PROVE TypeOK'
BY DEF IInv, TypeOK, LookAtRoot, Goto, Steps, disk, plan, handles, txn, budget,
   TypeOfDisk, TypeOfPlan, TypeOfControl, TypeOfHandles, TypeOfTxn, TypeOfBudget

LEMMA MakeRootTyped ==
    ASSUME IInv, NEW p \in Applies, MakeRoot(p) PROVE TypeOK'
<1> USE DEF IInv, TypeOK
<1>1. TypeOfDisk'
  BY DEF MakeRoot, TypeOfDisk
<1>2. TypeOfControl'
  BY FailTyped DEF MakeRoot, TypeOfControl, Goto, Steps
<1>3. TypeOfHandles'
  <2>1. PICK t \in Targets :
           made' = made \/ \E i \in Inodes : made' = [made EXCEPT ![p][t] = i]
    BY DEF MakeRoot
  <2>2. CASE made' = made
    BY <2>2 DEF MakeRoot, TypeOfHandles
  <2>3. ASSUME NEW i \in Inodes, made' = [made EXCEPT ![p][t] = i] PROVE TypeOfHandles'
    <3>1. made' \in [Applies -> [Targets -> Inodes \cup {NoInode}]]
      BY <2>3, CellPut DEF TypeOfHandles
    <3> QED
      BY <3>1 DEF MakeRoot, TypeOfHandles
  <2> QED
    BY <2>1, <2>2, <2>3
<1> QED
  BY <1>1, <1>2, <1>3 DEF MakeRoot, plan, txn, budget, TypeOfPlan, TypeOfTxn, TypeOfBudget

LEMMA OpenRootTyped ==
    ASSUME IInv, NEW p \in Applies, OpenRoot(p) PROVE TypeOK'
<1> USE DEF IInv, TypeOK
<1>1. TypeOfControl'
  BY FailTyped DEF OpenRoot, TypeOfControl, Goto, Steps
<1>2. TypeOfHandles'
  <2>1. PICK t \in Targets : fd' = fd \/ fd' = [fd EXCEPT ![p][t] = at[t]]
    BY DEF OpenRoot
  <2>2. [fd EXCEPT ![p][t] = at[t]] \in [Applies -> [Targets -> Inodes \cup {NoInode}]]
    BY CellPut DEF TypeOfDisk, TypeOfHandles
  <2> QED
    BY <2>1, <2>2 DEF OpenRoot, TypeOfHandles
<1> QED
  BY <1>1, <1>2 DEF OpenRoot, disk, plan, txn, budget,
     TypeOfDisk, TypeOfPlan, TypeOfTxn, TypeOfBudget

LEMMA LockRootTyped ==
    ASSUME IInv, NEW p \in Applies, LockRoot(p) \/ LockExpires(p) PROVE TypeOK'
<1> USE DEF IInv, TypeOK
<1>1. TypeOfControl'
  BY DEF LockRoot, LockExpires, TypeOfControl, Goto, Steps
<1>2. TypeOfHandles'
  BY DEF LockRoot, LockExpires, TypeOfHandles, handles
<1> QED
  BY <1>1, <1>2 DEF LockRoot, LockExpires, disk, plan, txn, budget,
     TypeOfDisk, TypeOfPlan, TypeOfTxn, TypeOfBudget

LEMMA OpenNamespaceTyped ==
    ASSUME IInv, NEW p \in Applies, OpenNamespace(p) PROVE TypeOK'
<1> USE DEF IInv, TypeOK
<1>1. TypeOfDisk'
  <2>1. PICK t \in Targets : ns' = ns \/ ns' = [ns EXCEPT ![fd[p][t]].exists = TRUE]
    BY DEF OpenNamespace
  <2>2. [ns EXCEPT ![fd[p][t]].exists = TRUE] \in [Inodes -> Namespace]
    BY NamespacePut DEF TypeOfDisk
  <2> QED
    BY <2>1, <2>2 DEF OpenNamespace, TypeOfDisk
<1>2. TypeOfControl'
  BY DEF OpenNamespace, TypeOfControl, Goto, Steps
<1>3. TypeOfHandles'
  BY DEF OpenNamespace, TypeOfHandles
<1>4. TypeOfBudget'
  BY DEF OpenNamespace, TypeOfBudget, budget, Fault
<1> QED
  BY <1>1, <1>2, <1>3, <1>4 DEF OpenNamespace, plan, txn, TypeOfPlan, TypeOfTxn

LEMMA AbandonTyped ==
    ASSUME IInv, NEW p \in Applies, Abandon(p) PROVE TypeOK'
<1> USE DEF IInv, TypeOK
<1>1. TypeOfControl'
  BY DEF Abandon, TypeOfControl, Goto, Steps
<1>2. TypeOfHandles'
  <2>1. PICK t \in Targets :
           /\ flock' = [flock EXCEPT ![fd[p][t]] = IF @ = p THEN NoApply ELSE @]
           /\ fd' = [fd EXCEPT ![p][t] = NoInode]
    BY DEF Abandon
  <2>2. fd' \in [Applies -> [Targets -> Inodes \cup {NoInode}]]
    BY <2>1, CellPut DEF TypeOfHandles
  <2> QED
    BY <2>1, <2>2 DEF Abandon, TypeOfHandles
<1> QED
  BY <1>1, <1>2 DEF Abandon, disk, plan, txn, budget,
     TypeOfDisk, TypeOfPlan, TypeOfTxn, TypeOfBudget

LEMMA UnchainTyped ==
    ASSUME IInv, NEW p \in Applies, Unchain(p) PROVE TypeOK'
<1> USE DEF IInv, TypeOK
<1>1. TypeOfDisk'
  BY DEF Unchain, TypeOfDisk
<1>2. TypeOfControl'
  BY FailTyped DEF Unchain, TypeOfControl
<1>3. TypeOfHandles'
  BY DEF Unchain, TypeOfHandles
<1> QED
  BY <1>1, <1>2, <1>3 DEF Unchain, plan, txn, budget, TypeOfPlan, TypeOfTxn, TypeOfBudget

LEMMA InitMetadataTyped ==
    ASSUME IInv, NEW p \in Applies, InitMetadata(p) PROVE TypeOK'
<1> USE DEF IInv, TypeOK
<1>1. PICK t \in Targets :
         /\ First(p, t)
         /\ \/ /\ ns' = ns
               /\ prev' = prev \/ prev' = [prev EXCEPT ![p][t] = ns[fd[p][t]].managed]
               /\ fresh' = fresh
            \/ /\ \E m \in {NoFile, EmptyRecord(p)} :
                     ns' = [ns EXCEPT ![fd[p][t]].managed = m]
               /\ fresh' = fresh \/ fresh' = [fresh EXCEPT ![p][t] = TRUE]
               /\ prev' = prev
         /\ \/ Loop(p, t, "root", "validate", locked[p]) /\ UNCHANGED outcome
            \/ Fail(p)
  BY DEF InitMetadata
<1>2. fd[p][t] \in Inodes
  BY <1>1 DEF InitMetadata, TargetsTracked, Tracked, LocksHeld, LocksHeldBy, Holds
<1>3. EmptyRecord(p) \in Record \cup {NoFile}
  BY ReconcilerAssumption, AbsentViewTyped DEF EmptyRecord, Record
<1>4. TypeOfDisk'
  <2>1. CASE ns' = ns
    BY <2>1 DEF InitMetadata, TypeOfDisk
  <2>2. ASSUME NEW m \in {NoFile, EmptyRecord(p)}, ns' = [ns EXCEPT ![fd[p][t]].managed = m]
        PROVE  ns' \in [Inodes -> Namespace]
    BY <1>3, <2>2, NamespacePut DEF TypeOfDisk
  <2> QED
    BY <1>1, <2>1, <2>2 DEF InitMetadata, TypeOfDisk
<1>5. TypeOfControl'
  <2>1. phase' \in [Applies -> Phases]
    BY DEF InitMetadata, TypeOfControl, Phases
  <2>2. CASE Fail(p)
    BY <2>1, <2>2, FailTyped DEF TypeOfControl
  <2>3. CASE Loop(p, t, "root", "validate", locked[p]) /\ UNCHANGED outcome
    <3>1. locked[p] \in SUBSET Targets
      BY DEF TypeOfHandles
    <3> QED
      BY <2>1, <2>3, <3>1 DEF TypeOfControl, Steps, Loop, Goto
  <2> QED
    BY <1>1, <2>2, <2>3
<1>6. TypeOfTxn'
  <2>1. fresh' \in [Applies -> [Targets -> BOOLEAN]]
    <3>1. [fresh EXCEPT ![p][t] = TRUE] \in [Applies -> [Targets -> BOOLEAN]]
      BY CellPut DEF TypeOfTxn
    <3> QED
      BY <1>1, <3>1 DEF TypeOfTxn
  <2>2. ns[fd[p][t]].managed \in Record \cup {NoFile}
    BY <1>2 DEF TypeOfDisk, Namespace
  <2>3. prev' \in [Applies -> [Targets -> Record \cup {NoFile}]]
    <3>1. [prev EXCEPT ![p][t] = ns[fd[p][t]].managed]
             \in [Applies -> [Targets -> Record \cup {NoFile}]]
      BY <2>2, CellPut DEF TypeOfTxn
    <3> QED
      BY <1>1, <3>1 DEF TypeOfTxn
  <2> QED
    BY <2>1, <2>3 DEF InitMetadata, TypeOfTxn
<1>7. TypeOfBudget'
  BY DEF InitMetadata, TypeOfBudget, budget, Fault
<1> QED
  BY <1>4, <1>5, <1>6, <1>7 DEF InitMetadata, plan, handles, TypeOfPlan, TypeOfHandles

LEMMA ValidateTyped ==
    ASSUME IInv, NEW p \in Applies, Validate(p) PROVE TypeOK'
<1> USE DEF IInv, TypeOK
<1>1. TypeOfControl'
  <2>1. phase' \in [Applies -> Phases]
    BY DEF Validate, TypeOfControl, Phases
  <2>2. CASE Fail(p)
    BY <2>1, <2>2, FailTyped DEF TypeOfControl
  <2>3. CASE ~Fail(p)
    BY <2>1, <2>3 DEF Validate, TypeOfControl, Steps, Loop, Goto
  <2> QED
    BY <2>2, <2>3
<1> QED
  BY <1>1 DEF Validate, disk, plan, handles, txn, budget,
     TypeOfDisk, TypeOfPlan, TypeOfHandles, TypeOfTxn, TypeOfBudget

(* Only locked roots can hold what a run leaves of its transactions.        *)
LEMMA LitterTyped ==
    ASSUME IInv, NEW p \in Applies
    PROVE  /\ Unswept(p) \subseteq Inodes
           /\ \A t \in locked[p] : fd[p][t] \in Inodes
BY DEF IInv, LocksHeld, LocksHeldBy, Holds, Unswept

LEMMA EmptiedTyped ==
    ASSUME NEW i
    PROVE  /\ Emptied(i) \in Namespace /\ Emptied(i).managed = NoFile
           /\ i \notin litter => Emptied(i) = NoNamespace
BY DEF Emptied, NoNamespace, Namespace

LEMMA StageTyped ==
    ASSUME IInv, NEW p \in Applies, Stage(p) \/ CleanStaging(p) PROVE TypeOK'
<1> USE DEF IInv, TypeOK
<1>1. TypeOfControl'
  <2>1. phase' \in [Applies -> Phases]
    BY DEF Stage, CleanStaging, TypeOfControl, Phases
  <2>2. CASE Fail(p)
    BY <2>1, <2>2, FailTyped DEF TypeOfControl
  <2>3. CASE ~Fail(p)
    <3>1. locked[p] \in SUBSET Targets
      BY DEF TypeOfHandles
    <3> QED
      BY <2>1, <2>3, <3>1 DEF Stage, CleanStaging, TypeOfControl, Steps, Goto
  <2> QED
    BY <2>2, <2>3
<1>2. TypeOfBudget'
  BY DEF Stage, CleanStaging, TypeOfBudget, Fault
<1>3. litter' \in SUBSET Inodes
  BY LitterTyped DEF Stage, CleanStaging, TypeOfDisk
<1> QED
  BY <1>1, <1>2, <1>3 DEF Stage, CleanStaging, disk, plan, handles, txn,
     TypeOfDisk, TypeOfPlan, TypeOfHandles, TypeOfTxn

(* The first part of a promotion makes parents of its artifact, all that    *)
(* are missing or, if it fails, some of them from the top, and notes those  *)
(* that it made but for one that it could not open.                         *)
MakesOnly(p, o, dirs, noted) ==
    /\ MakesParents(p, o, dirs, noted)
    /\ noted \subseteq dirs /\ dirs \subseteq Parents(p, o)
    /\ \A z \in dirs : Parents(p, o) \cap Above[z] \subseteq dirs
    /\ "openparent" \in FaultPoints \/ noted = dirs
GoesOn(p, o) == AsPlanned(p, o) /\ Goto(p, IF Kind(p, o) = "CREATE" THEN "install" ELSE "move")
LEMMA PromoteMakes ==
    ASSUME IInv, NEW p \in Applies, Promote(p)
    PROVE  \E o \in Ops(p) :
              /\ NextOp(p, o)
              /\ \/ Fail(p) /\ UNCHANGED <<tree, parents>>
                 \/ /\ WayFree(p, o)
                    /\ \E dirs, noted :
                          /\ MakesOnly(p, o, dirs, noted)
                          /\ Fail(p) \/ (dirs = Parents(p, o) /\ GoesOn(p, o))
<1>1. PICK o \in Ops(p) :
        /\ NextOp(p, o)
        /\ \/ Fail(p) /\ UNCHANGED <<tree, parents>>
           \/ WayFree(p, o) /\ MakesSomeParents(p, o) /\ Fail(p)
           \/ /\ WayFree(p, o)
              /\ MakesParents(p, o, Parents(p, o), Parents(p, o))
              /\ Fail(p) \/ GoesOn(p, o)
  BY DEF Promote, GoesOn
<1>2. \A y \in Above[o[2]] : \A z \in Above[y] : Above[z] \subseteq Above[y]
  <2>1. o[2] \in Paths
    BY OpsTyped DEF IInv, TypeOK
  <2>2. \A x \in Paths : Above[x] \subseteq Paths
    BY PlannerAssumption
  <2>3. \A x \in Paths : \A y \in Above[x] : Above[y] \subseteq Above[x]
    BY PlannerAssumption
  <2> QED
    BY <2>1, <2>2, <2>3
<1>3. CASE MakesSomeParents(p, o) /\ Fail(p) /\ WayFree(p, o)
  <2>1. PICK y \in Above[o[2]] :
          LET above == Parents(p, o) \cap Above[y] IN
          \/ MakesParents(p, o, above, above)
          \/ /\ y \in Parents(p, o) /\ "openparent" \in FaultPoints
             /\ MakesParents(p, o, above \cup {y}, above)
    BY <1>3 DEF MakesSomeParents, Fault
  <2> DEFINE above == Parents(p, o) \cap Above[y]
  <2>2. \A z \in above : Parents(p, o) \cap Above[z] \subseteq above
    BY <1>2
  <2>3. MakesOnly(p, o, above, above) \/ MakesOnly(p, o, above \cup {y}, above)
    <3> HIDE DEF above
    <3>1. above \subseteq Parents(p, o) /\ Parents(p, o) \cap Above[y] \subseteq above
      BY DEF above
    <3>2. \/ MakesParents(p, o, above, above)
          \/ /\ y \in Parents(p, o) /\ "openparent" \in FaultPoints
             /\ MakesParents(p, o, above \cup {y}, above)
      BY <2>1 DEF above
    <3> QED
      BY <2>2, <3>1, <3>2 DEF MakesOnly
  <2> QED
    BY <1>1, <1>3, <2>3
<1>4. CASE /\ WayFree(p, o)
           /\ MakesParents(p, o, Parents(p, o), Parents(p, o))
           /\ Fail(p) \/ GoesOn(p, o)
  <2>1. MakesOnly(p, o, Parents(p, o), Parents(p, o))
    BY <1>4 DEF MakesOnly
  <2> QED
    BY <1>1, <1>4, <2>1
<1> QED
  BY <1>1, <1>3, <1>4

LEMMA PromoteTyped ==
    ASSUME IInv, NEW p \in Applies, Promote(p) PROVE TypeOK'
<1> USE DEF IInv, TypeOK
<1>1. PICK o \in Ops(p) :
        \/ UNCHANGED <<tree, parents>>
        \/ \E dirs, noted : MakesOnly(p, o, dirs, noted)
  BY PromoteMakes
<1>2. o[1] \in Targets
  BY OpsTyped
<1>3. TypeOfDisk'
  <2>1. [kind |-> "dir", to |-> NoSource, by |-> p] \in Node
    BY MakersAssumption DEF Node, Kinds
  <2>2. ASSUME NEW dirs, NEW noted, MakesOnly(p, o, dirs, noted) PROVE TypeOfDisk'
    <3> DEFINE i == fd[p][o[1]]
               nodes == [x \in Paths |-> IF x \in dirs
                           THEN [kind |-> "dir", to |-> NoSource, by |-> p] ELSE tree[i][x]]
    <3>1. i \in Inodes => nodes \in [Paths -> Node]
      BY <2>1 DEF TypeOfDisk
    <3>2. tree' = [tree EXCEPT ![i] = nodes]
      BY <2>2 DEF MakesOnly, MakesParents
    <3> HIDE DEF nodes
    <3> QED
      BY <3>1, <3>2 DEF Promote, TypeOfDisk
  <2> QED
    BY <1>1, <2>2 DEF Promote, TypeOfDisk
<1>4. TypeOfControl'
  <2>1. CASE Fail(p)
    BY <2>1, FailTyped DEF Promote, TypeOfControl
  <2>2. CASE ~Fail(p)
    BY <2>2 DEF Promote, TypeOfControl, Steps, Goto
  <2> QED
    BY <2>1, <2>2
<1>5. parents' \in [Applies -> SUBSET (Targets \X Paths)]
  <2>1. Parents(p, o) \subseteq Paths
    BY PlannerAssumption, OpsTyped DEF Parents
  <2>3. ASSUME NEW dirs, NEW noted, MakesOnly(p, o, dirs, noted)
        PROVE  parents' \in [Applies -> SUBSET (Targets \X Paths)]
    <3>1. parents' = [parents EXCEPT ![p] = @ \cup {<<o[1], y>> : y \in noted}]
      BY <2>3 DEF MakesOnly, MakesParents
    <3>2. {<<o[1], y>> : y \in noted} \subseteq Targets \X Paths
      BY <1>2, <2>1, <2>3 DEF MakesOnly
    <3> QED
      BY <3>1, <3>2 DEF TypeOfTxn
  <2>4. CASE UNCHANGED <<tree, parents>>
    BY <2>4 DEF TypeOfTxn
  <2> QED
    BY <1>1, <2>3, <2>4
<1>6. TypeOfBudget'
  <2>1. PICK q \in Ops(p) : faults' = faults \/ MakesSomeParents(p, q)
    BY DEF Promote
  <2>2. faults' = faults \/ faults' = faults + 1
    BY <2>1 DEF MakesSomeParents, Fault
  <2>3. envs' = envs /\ crashes' = crashes
    BY DEF Promote
  <2> QED
    BY <2>2, <2>3 DEF TypeOfBudget
<1>7. UNCHANGED <<plan, handles, fresh, prev, bak, journal, errs>>
  BY DEF Promote
<1>8. TypeOfPlan' /\ TypeOfHandles'
  BY <1>7 DEF plan, handles, TypeOfPlan, TypeOfHandles
<1>9. TypeOfTxn'
  BY <1>5, <1>7 DEF TypeOfTxn
<1> QED
  BY <1>3, <1>4, <1>6, <1>8, <1>9

LEMMA MoveAsideTyped ==
    ASSUME IInv, NEW p \in Applies, MoveAside(p) PROVE TypeOK'
<1> USE DEF IInv, TypeOK
<1>1. PICK o \in Ops(p) : \/ PutAside(p, o)
                          \/ Fail(p) /\ UNCHANGED <<tree, bak, journal, phase>>
  BY DEF MoveAside
<1>2. /\ o \in Operations /\ o[1] \in Targets /\ o[2] \in Paths /\ o[1] \in sel[p]
  BY OpsTyped
<1>3. TypeOfDisk' /\ bak' \in [Applies -> [Targets -> [Paths -> Node]]]
  <2>1. CASE PutAside(p, o)
    <3>1. fd[p][o[1]] \in Inodes
      BY <1>2 DEF MoveAside, TargetsTracked, Tracked, Working, LocksHeld, LocksHeldBy, Holds
    <3>2. tree[fd[p][o[1]]][o[2]] \in Node
      BY <1>2, <3>1 DEF TypeOfDisk
    <3>3. [tree EXCEPT ![fd[p][o[1]]][o[2]] = Hole] \in [Inodes -> [Paths -> Node]]
      BY HoleTyped, NodePut DEF TypeOfDisk
    <3>4. [bak EXCEPT ![p][o[1]][o[2]] = tree[fd[p][o[1]]][o[2]]]
             \in [Applies -> [Targets -> [Paths -> Node]]]
      BY <1>2, <3>2, BackupPut
    <3> QED
      BY <2>1, <3>3, <3>4 DEF MoveAside, PutAside, TypeOfDisk
  <2>2. CASE UNCHANGED <<tree, bak>>
    BY <2>2 DEF MoveAside, TypeOfDisk, TypeOfTxn
  <2> QED BY <1>1, <2>1, <2>2
<1>4. TypeOfControl' /\ journal' \in [Applies -> SUBSET Operations]
  <2>1. CASE Fail(p) /\ UNCHANGED <<journal, phase>>
    BY <2>1, FailTyped DEF TypeOfControl, TypeOfTxn
  <2>2. CASE Journaled(p, o)
    BY <1>2, <2>2, JournalTyped DEF TypeOfControl
  <2>3. CASE Goto(p, "install") /\ UNCHANGED <<phase, left, outcome, journal>>
    BY <2>3 DEF TypeOfControl, TypeOfTxn, Goto, Steps
  <2> QED
    BY <1>1, <2>1, <2>2, <2>3 DEF PutAside
<1>5. TypeOfBudget'
  BY DEF MoveAside, PutAside, Journaled, Fault, TypeOfBudget
<1> QED
  BY <1>3, <1>4, <1>5 DEF MoveAside, plan, handles, TypeOfPlan, TypeOfHandles, TypeOfTxn

LEMMA PublishTyped ==
    ASSUME IInv, NEW p \in Applies, Publish(p) PROVE TypeOK'
<1> USE DEF IInv, TypeOK
<1>1. PICK t \in Targets :
         /\ ns' = ns \/ ns' = [ns EXCEPT ![fd[p][t]].managed = Published(p, t)]
         /\ \/ Fail(p) /\ UNCHANGED phase
            \/ /\ Loop(p, t, "publish", "drop", locked[p])
               /\ phase' = [phase EXCEPT ![p] = IF left[p] = {t} THEN "committed" ELSE @]
               /\ UNCHANGED outcome
  BY DEF Publish
<1>2. TypeOfDisk'
  <2>1. Published(p, t) \in Record
    BY ReconcilerAssumption DEF Published, Record, TypeOfPlan
  <2>2. [ns EXCEPT ![fd[p][t]].managed = Published(p, t)] \in [Inodes -> Namespace]
    BY <2>1, NamespacePut DEF TypeOfDisk
  <2> QED
    BY <1>1, <2>2 DEF Publish, TypeOfDisk
<1>3. TypeOfControl'
  <2>1. CASE Fail(p) /\ UNCHANGED phase
    BY <2>1, FailTyped DEF TypeOfControl
  <2>2. CASE ~(Fail(p) /\ UNCHANGED phase)
    <3>1. locked[p] \in SUBSET Targets
      BY DEF TypeOfHandles
    <3> QED
      BY <1>1, <2>2, <3>1 DEF TypeOfControl, Steps, Phases, Loop, Goto
  <2> QED
    BY <1>1, <2>1, <2>2
<1>4. TypeOfBudget'
  BY DEF Publish, Fault, TypeOfBudget
<1> QED
  BY <1>2, <1>3, <1>4 DEF Publish, plan, handles, txn, TypeOfPlan, TypeOfHandles, TypeOfTxn

(* A backup tree is dropped as a whole.                                     *)
LEMMA BackupDrop ==
    ASSUME TypeOfTxn, NEW p \in Applies, NEW t \in Targets
    PROVE  [bak EXCEPT ![p][t] = EmptyTree] \in [Applies -> [Targets -> [Paths -> Node]]]
<1>1. EmptyTree \in [Paths -> Node]
  BY HoleTyped DEF EmptyTree
<1> QED
  BY <1>1, CellPut DEF TypeOfTxn

LEMMA DropBackupTyped ==
    ASSUME IInv, NEW p \in Applies, DropBackup(p) PROVE TypeOK'
<1> USE DEF IInv, TypeOK
<1>1. PICK t \in Targets :
         /\ bak' = bak \/ bak' = [bak EXCEPT ![p][t] = EmptyTree]
         /\ \/ Fail(p)
            \/ /\ Loop(p, t, "drop", "release", locked[p])
               /\ outcome' = [outcome EXCEPT ![p] = IF left[p] = {t} THEN "ok" ELSE @]
  BY DEF DropBackup
<1>2. TypeOfTxn'
  <2>1. [bak EXCEPT ![p][t] = EmptyTree] \in [Applies -> [Targets -> [Paths -> Node]]]
    BY BackupDrop
  <2> QED
    BY <1>1, <2>1 DEF DropBackup, TypeOfTxn
<1>3. TypeOfControl'
  <2>1. CASE Fail(p)
    BY <2>1, FailTyped DEF DropBackup, TypeOfControl
  <2>2. CASE ~Fail(p)
    <3>1. locked[p] \in SUBSET Targets
      BY DEF TypeOfHandles
    <3> QED
      BY <1>1, <2>2, <3>1 DEF DropBackup, TypeOfControl, Steps, Outcomes, Loop, Goto
  <2> QED
    BY <1>1, <2>1, <2>2
<1>4. TypeOfBudget'
  BY DEF DropBackup, Fault, TypeOfBudget
<1> QED
  BY <1>2, <1>3, <1>4 DEF DropBackup, disk, plan, handles, TypeOfDisk, TypeOfPlan, TypeOfHandles

LEMMA SettleTyped ==
    ASSUME IInv, NEW p \in Applies, Settle(p) PROVE TypeOK'
<1> USE DEF IInv, TypeOK
<1>1. PICK t \in Targets :
         /\ bak' = [bak EXCEPT ![p][t] = EmptyTree]
         /\ ns' = ns \/ ns' = [ns EXCEPT ![fd[p][t]].failure = TRUE]
         /\ Loop(p, t, "settle", "release", locked[p])
  BY DEF Settle
<1>2. TypeOfTxn'
  BY <1>1, BackupDrop DEF Settle, TypeOfTxn
<1>3. TypeOfDisk'
  <2>1. [ns EXCEPT ![fd[p][t]].failure = TRUE] \in [Inodes -> Namespace]
    BY NamespacePut DEF TypeOfDisk
  <2> QED
    BY <1>1, <2>1 DEF Settle, TypeOfDisk
<1>4. TypeOfControl'
  <2>1. locked[p] \in SUBSET Targets
    BY DEF TypeOfHandles
  <2> QED
    BY <1>1, <2>1 DEF Settle, TypeOfControl, Steps, Loop, Goto
<1>5. TypeOfBudget'
  BY DEF Settle, Fault, TypeOfBudget
<1> QED
  BY <1>2, <1>3, <1>4, <1>5 DEF Settle, plan, handles, TypeOfPlan, TypeOfHandles

LEMMA UndoTyped ==
    ASSUME IInv, NEW p \in Applies, Undo(p) PROVE TypeOK'
<1> USE DEF IInv, TypeOK
<1>1. TypeOfDisk'
  <2>1. CASE tree' = tree
    BY <2>1 DEF Undo, TypeOfDisk
  <2>2. CASE tree' # tree
    <3>1. PICK o \in journal[p] :
             \/ tree' = [tree EXCEPT ![fd[p][o[1]]][o[2]] = Hole]
             \/ tree' = [tree EXCEPT ![fd[p][o[1]]][o[2]] = @]
      BY <2>2 DEF Undo
    <3>2. [tree EXCEPT ![fd[p][o[1]]][o[2]] = Hole] \in [Inodes -> [Paths -> Node]]
      BY HoleTyped, NodePut DEF TypeOfDisk
    <3>3. [tree EXCEPT ![fd[p][o[1]]][o[2]] = @] \in [Inodes -> [Paths -> Node]]
      BY DEF TypeOfDisk
    <3> QED
      BY <3>1, <3>2, <3>3 DEF Undo, TypeOfDisk
  <2> QED BY <2>1, <2>2
<1>2. TypeOfControl'
  BY DEF Undo, TypeOfControl, Steps, Goto
<1>3. TypeOfTxn'
  BY DEF Undo, TypeOfTxn
<1>4. TypeOfBudget'
  <2>1. faults' = faults \/ faults' = faults + 1
    BY DEF Undo, Fault
  <2>2. envs' = envs /\ crashes' = crashes
    BY DEF Undo
  <2> QED
    BY <2>1, <2>2 DEF TypeOfBudget
<1> QED
  BY <1>1, <1>2, <1>3, <1>4 DEF Undo, plan, handles, TypeOfPlan, TypeOfHandles

LEMMA PutBackupTyped ==
    ASSUME IInv, NEW p \in Applies, PutBackup(p) PROVE TypeOK'
<1> USE DEF IInv, TypeOK
<1>1. PICK o \in journal[p] :
         /\ journal' = [journal EXCEPT ![p] = @ \ {o}]
         /\ \/ PutBack(p, o) /\ UNCHANGED errs
            \/ errs' = [errs EXCEPT ![p] = TRUE] /\ UNCHANGED <<tree, bak>>
  BY DEF PutBackup
<1>2. o \in Operations
  BY DEF TypeOfTxn
<1>3. /\ tree' \in [Inodes -> [Paths -> Node]]
      /\ bak' \in [Applies -> [Targets -> [Paths -> Node]]]
  BY <1>1, <1>2, PutBackTyped DEF TypeOfDisk, TypeOfTxn
<1>4. TypeOfTxn'
  BY <1>1, <1>3 DEF PutBackup, TypeOfTxn
<1>5. TypeOfControl'
  BY DEF PutBackup, TypeOfControl, Steps, Goto
<1>6. TypeOfBudget'
  BY DEF PutBackup, Fault, TypeOfBudget
<1> QED
  BY <1>3, <1>4, <1>5, <1>6
  DEF PutBackup, plan, handles, TypeOfDisk, TypeOfPlan, TypeOfHandles

LEMMA RestoreMetadataTyped ==
    ASSUME IInv, NEW p \in Applies, RestoreMetadata(p) PROVE TypeOK'
<1> USE DEF IInv, TypeOK
<1>1. PICK t \in Targets :
         /\ ns' = ns \/ ns' = [ns EXCEPT ![fd[p][t]].managed = prev[p][t]]
         /\ Loop(p, t, "restore", "discard", locked[p])
  BY DEF RestoreMetadata, OldRecord
<1>2. TypeOfDisk'
  <2>1. [ns EXCEPT ![fd[p][t]].managed = prev[p][t]] \in [Inodes -> Namespace]
    <3>1. prev[p][t] \in Record \cup {NoFile}
      BY DEF TypeOfTxn
    <3> QED
      BY <3>1, NamespacePut DEF TypeOfDisk
  <2> QED
    BY <1>1, <2>1 DEF RestoreMetadata, TypeOfDisk
<1>3. TypeOfControl'
  <2>1. locked[p] \in SUBSET Targets
    BY DEF TypeOfHandles
  <2> QED
    BY <1>1, <2>1 DEF RestoreMetadata, TypeOfControl, Steps, Loop, Goto
<1>4. TypeOfTxn'
  BY DEF RestoreMetadata, TypeOfTxn
<1>5. TypeOfBudget'
  BY DEF RestoreMetadata, Fault, TypeOfBudget
<1> QED
  BY <1>2, <1>3, <1>4, <1>5 DEF RestoreMetadata, plan, handles, TypeOfPlan, TypeOfHandles

LEMMA DiscardTyped ==
    ASSUME IInv, NEW p \in Applies, Discard(p) PROVE TypeOK'
<1> USE DEF IInv, TypeOK
<1>1. PICK t \in Targets :
         /\ bak' = bak \/ bak' = [bak EXCEPT ![p][t] = EmptyTree]
         /\ Loop(p, t, "discard", "prune", locked[p])
  BY DEF Discard
<1>2. TypeOfTxn'
  <2>1. [bak EXCEPT ![p][t] = EmptyTree] \in [Applies -> [Targets -> [Paths -> Node]]]
    BY BackupDrop
  <2>2. errs' \in [Applies -> BOOLEAN]
    BY DEF Discard, TypeOfTxn
  <2> QED
    BY <1>1, <2>1, <2>2 DEF Discard, TypeOfTxn
<1>3. TypeOfControl'
  <2>1. locked[p] \in SUBSET Targets
    BY DEF TypeOfHandles
  <2> QED
    BY <1>1, <2>1 DEF Discard, TypeOfControl, Steps, Loop, Goto
<1>4. TypeOfBudget'
  BY DEF Discard, Fault, TypeOfBudget
<1> QED
  BY <1>2, <1>3, <1>4 DEF Discard, disk, plan, handles, TypeOfDisk, TypeOfPlan, TypeOfHandles

LEMMA PruneTyped ==
    ASSUME IInv, NEW p \in Applies, Prune(p) PROVE TypeOK'
<1> USE DEF IInv, TypeOK
<1>1. TypeOfDisk'
  BY HoleTyped DEF Prune, TypeOfDisk
<1>2. TypeOfTxn'
  BY DEF Prune, TypeOfTxn
<1>3. TypeOfControl'
  BY DEF Prune, TypeOfControl, Steps, Goto
<1> QED
  BY <1>1, <1>2, <1>3
  DEF Prune, plan, handles, budget, TypeOfPlan, TypeOfHandles, TypeOfBudget

LEMMA ReportTyped ==
    ASSUME IInv, NEW p \in Applies, Report(p) PROVE TypeOK'
<1> USE DEF IInv, TypeOK
<1>1. PICK t \in Targets :
         /\ \/ ns' = ns
            \/ ns' = [ns EXCEPT ![fd[p][t]].failure = TRUE]
            \/ ns' = [ns EXCEPT ![fd[p][t]] = Emptied(fd[p][t])]
            \/ ns' = [ns EXCEPT ![fd[p][t]].managed = NoFile]
         /\ bak' = bak \/ bak' = [bak EXCEPT ![p][t] = EmptyTree]
         /\ \/ UNCHANGED <<at, alive>>
            \/ at' = [at EXCEPT ![t] = NoInode] /\ alive' = alive \ {fd[p][t]}
         /\ Loop(p, t, "report", "release", locked[p])
  BY DEF Report
<1>2. TypeOfDisk'
  <2>1. /\ [ns EXCEPT ![fd[p][t]].failure = TRUE] \in [Inodes -> Namespace]
        /\ [ns EXCEPT ![fd[p][t]].managed = NoFile] \in [Inodes -> Namespace]
    BY NamespacePut DEF TypeOfDisk
  <2>2. [ns EXCEPT ![fd[p][t]] = Emptied(fd[p][t])] \in [Inodes -> Namespace]
    BY EmptiedTyped DEF TypeOfDisk
  <2>4. litter' \in SUBSET Inodes
    BY LitterTyped DEF Report, TypeOfDisk
  <2>3. ns' \in [Inodes -> Namespace]
    BY <1>1, <2>1, <2>2 DEF TypeOfDisk
  <2> QED
    BY <1>1, <2>3, <2>4 DEF Report, TypeOfDisk
<1>3. TypeOfTxn'
  <2>1. [bak EXCEPT ![p][t] = EmptyTree] \in [Applies -> [Targets -> [Paths -> Node]]]
    BY BackupDrop
  <2>2. errs' \in [Applies -> BOOLEAN]
    BY DEF Report, TypeOfTxn
  <2> QED
    BY <1>1, <2>1, <2>2 DEF Report, TypeOfTxn
<1>4. TypeOfControl'
  <2>1. locked[p] \in SUBSET Targets
    BY DEF TypeOfHandles
  <2> QED
    BY <1>1, <2>1 DEF Report, TypeOfControl, Steps, Loop, Goto
<1>5. TypeOfBudget'
  BY DEF Report, Fault, TypeOfBudget
<1> QED
  BY <1>2, <1>3, <1>4, <1>5 DEF Report, plan, handles, TypeOfPlan, TypeOfHandles

LEMMA ResetTyped ==
    ASSUME TypeOfTxn, TypeOfControl, NEW p \in Applies, Reset(p), UNCHANGED bak
    PROVE  TypeOfTxn' /\ phase' \in [Applies -> Phases]
BY DEF TypeOfTxn, TypeOfControl, Reset, Phases

LEMMA ReleaseTyped ==
    ASSUME IInv, NEW p \in Applies, Release(p) PROVE TypeOK'
<1> USE DEF IInv, TypeOK
<1>1. CASE /\ Goto(p, "done") /\ Forget(p) /\ Reset(p)
           /\ UNCHANGED <<handles, outcome>>
  <2>1. TypeOfControl'
    BY <1>1, ForgetTyped, ResetTyped DEF Release, TypeOfControl, Goto, Steps
  <2> QED
    BY <1>1, <2>1, ForgetTyped, ResetTyped
    DEF Release, disk, budget, handles, TypeOfDisk, TypeOfHandles, TypeOfBudget
<1>2. ASSUME NEW t \in Targets,
             flock' = [flock EXCEPT ![fd[p][t]] = NoApply],
             fd' = [fd EXCEPT ![p][t] = NoInode],
             made' = [made EXCEPT ![p][t] = NoInode],
             locked' = [locked EXCEPT ![p] = @ \ {t}],
             left' = [left EXCEPT ![p] = @ \ {t}],
             UNCHANGED <<pc, phase, plan, fresh, prev, journal, parents, errs, outcome>>
      PROVE  TypeOK'
  <2>1. TypeOfHandles'
    <3>1. /\ fd' \in [Applies -> [Targets -> Inodes \cup {NoInode}]]
          /\ made' \in [Applies -> [Targets -> Inodes \cup {NoInode}]]
      BY <1>2, CellPut DEF TypeOfHandles
    <3> QED
      BY <1>2, <3>1 DEF TypeOfHandles
  <2>2. TypeOfControl'
    BY <1>2 DEF TypeOfControl
  <2> QED
    BY <1>2, <2>1, <2>2
    DEF Release, disk, budget, plan, TypeOfDisk, TypeOfPlan, TypeOfTxn, TypeOfBudget
<1> QED
  BY <1>1, <1>2 DEF Release

LEMMA CrashTyped ==
    ASSUME IInv, NEW p \in Applies, Crash(p) PROVE TypeOK'
<1> USE DEF IInv, TypeOK
<1>1. TypeOfControl'
  BY ForgetTyped, ResetTyped DEF Crash, TypeOfControl, Goto, Steps, Outcomes
<1>2. TypeOfHandles'
  BY DEF Crash, TypeOfHandles
<1>3. TypeOfBudget'
  BY DEF Crash, TypeOfBudget
<1> QED
  BY <1>1, <1>2, <1>3, ForgetTyped, ResetTyped, LitterTyped DEF Crash, disk, TypeOfDisk

LEMMA UserStepTyped ==
    ASSUME IInv, UserStep PROVE TypeOK'
<1> USE DEF IInv, TypeOK
<1>1. TypeOfDisk'
  <2>1. PICK t \in Targets :
           \/ UserReplacesRoot(t)
           \/ \E x \in Paths : UserWrites(t, x) \/ UserRelinks(t, x) \/ UserUnlinks(t, x)
    BY DEF UserStep
  <2>2. CASE UserReplacesRoot(t)
    BY <2>2 DEF UserReplacesRoot, UserStep, TypeOfDisk
  <2>3. ASSUME NEW x \in Paths, UserWrites(t, x) \/ UserRelinks(t, x) \/ UserUnlinks(t, x)
        PROVE  TypeOfDisk'
    <3>1. PICK n \in Node : tree' = [tree EXCEPT ![at[t]][x] = n]
      <4>1. User(t, x) \in Makers
        BY MakersAssumption DEF User
      <4>2. /\ \A k \in {"file", "dir"} :
                  [kind |-> k, to |-> NoSource, by |-> User(t, x)] \in Node
            /\ \A src \in Sources :
                  [kind |-> "link", to |-> src, by |-> User(t, x)] \in Node
        BY <4>1 DEF Node, Kinds
      <4> QED
        BY <2>3, <4>2, HoleTyped DEF UserWrites, UserRelinks, UserUnlinks
    <3>2. tree' \in [Inodes -> [Paths -> Node]]
      BY <3>1, NodePut DEF TypeOfDisk
    <3> QED
      BY <2>3, <3>2 DEF UserWrites, UserRelinks, UserUnlinks, UserStep, TypeOfDisk
  <2> QED
    BY <2>1, <2>2, <2>3
<1>2. TypeOfBudget'
  BY DEF UserStep, TypeOfBudget
<1> QED
  BY <1>1, <1>2 DEF UserStep, plan, control, handles, txn,
     TypeOfPlan, TypeOfControl, TypeOfHandles, TypeOfTxn

------------------------------------------------------------------------------
(* What runs hold, and where they are.                                      *)
(* The steps of one run leave the place of the others alone.                *)
OthersWait(p) ==
    \A q \in Applies \ {p} :
        /\ pc'[q] = pc[q] /\ left'[q] = left[q] /\ sel'[q] = sel[q]
        /\ locked'[q] = locked[q] /\ journal'[q] = journal[q] /\ fd'[q] = fd[q]

(* A loop has one next and one last target, since ranks tell targets apart. *)
LEMMA FirstUnique ==
    ASSUME TypeOfControl, NEW p \in Applies, NEW t \in Targets, NEW u \in Targets,
           First(p, t), First(p, u)
    PROVE  t = u
<1>1. TargetRank[t] <= TargetRank[u] /\ TargetRank[u] <= TargetRank[t]
  BY DEF First
<1>2. TargetRank[t] \in Nat /\ TargetRank[u] \in Nat
  BY ReconcilerAssumption
<1>3. TargetRank[t] = TargetRank[u]
  BY <1>1, <1>2
<1> QED
  BY <1>3, ReconcilerAssumption

(* Locks others hold stay theirs while a run changes its own.               *)
LEMMA OthersKeepLocks ==
    ASSUME IInv, NEW p \in Applies, OthersWait(p),
           \A i \in Inodes : flock[i] \in Applies \ {p} => flock'[i] = flock[i],
           Tracked(p)', LocksHeldBy(p)'
    PROVE  LocksHeld' /\ TargetsTracked'
<1>1. ASSUME NEW q \in Applies \ {p} PROVE LocksHeldBy(q)' /\ Tracked(q)'
  <2>1. /\ pc'[q] = pc[q] /\ left'[q] = left[q] /\ sel'[q] = sel[q]
        /\ locked'[q] = locked[q] /\ journal'[q] = journal[q] /\ fd'[q] = fd[q]
    BY DEF OthersWait
  <2>2. LocksHeldBy(q) /\ Tracked(q)
    BY DEF IInv, LocksHeld, TargetsTracked
  <2>3. \A t \in Targets : Holds(q, t) => Holds(q, t)'
    BY <2>1 DEF Holds
  <2>4. \A t \in Targets : First(q, t)' <=> First(q, t)
    BY <2>1 DEF First
  <2>5. locked[q] \subseteq Targets
    BY DEF IInv, TypeOK, TypeOfHandles
  <2>6. LocksHeldBy(q)'
    BY <2>1, <2>2, <2>3, <2>4, <2>5 DEF LocksHeldBy
  <2>7. Tracked(q)'
    BY <2>1, <2>2, <2>4 DEF Tracked
  <2> QED
    BY <2>6, <2>7
<1> QED
  BY <1>1 DEF LocksHeld, TargetsTracked

(* A step that opens, locks and makes nothing has only to keep track.       *)
LEMMA QuietStep ==
    ASSUME IInv, NEW p \in Applies, OthersWait(p),
           at' = at, alive' = alive, fd' = fd, flock' = flock, locked' = locked,
           pc'[p] \notin {"flock", "ns"}, Tracked(p)'
    PROVE  InodesApart' /\ LocksHeld' /\ TargetsTracked'
<1>1. InodesApart'
  BY DEF IInv, InodesApart
<1>2. LocksHeldBy(p)'
  BY DEF IInv, LocksHeld, LocksHeldBy, Holds
<1> QED
  BY <1>1, <1>2, OthersKeepLocks

(* A failing run has all its locked targets ahead of it, to be rolled back. *)
LEMMA FailTracked ==
    ASSUME IInv, NEW p \in Applies, Fail(p), locked' = locked,
           \A o \in journal'[p] : o[1] \in locked[p]
    PROVE  Tracked(p)' /\ pc'[p] \in {"undo", "settle"}
<1>1. pc'[p] \in {"undo", "settle"} /\ left'[p] = locked[p]
  BY DEF IInv, TypeOK, TypeOfControl, Fail, Goto
<1> QED
  BY <1>1 DEF Tracked, Unlocked, Preparing, Working, Looping, Turning

(* Where Goto and Fail leave the other runs.                                *)
LEMMA OthersStay ==
    ASSUME TypeOfControl, NEW p \in Applies
    PROVE  /\ \A step : Goto(p, step) => /\ pc'[p] = step
                                         /\ \A q \in Applies \ {p} : pc'[q] = pc[q]
           /\ Fail(p) => \A q \in Applies \ {p} : pc'[q] = pc[q] /\ left'[q] = left[q]
BY DEF TypeOfControl, Goto, Fail

LEMMA BeginKeeps ==
    ASSUME IInv, NEW p \in Applies, Begin(p) PROVE InodesApart' /\ LocksHeld' /\ TargetsTracked'
<1> USE DEF IInv, TypeOK
<1>1. OthersWait(p)
  BY DEF OthersWait, Begin, Goto, TypeOfControl, TypeOfPlan, handles, txn
<1>2. pc[p] = "idle" /\ pc'[p] = "scan"
  BY DEF Begin, Goto, TypeOfControl
<1>3. locked[p] = {} /\ journal[p] = {}
  BY <1>2 DEF TargetsTracked, Tracked, Unlocked
<1>4. Tracked(p)'
  BY <1>2, <1>3 DEF Begin, handles, txn, Tracked, Unlocked, Preparing, Working, Looping, Turning
<1> QED
  BY <1>1, <1>2, <1>4, QuietStep DEF Begin, disk, handles

(* What a run does while it holds nothing and goes on without locks.        *)
LEMMA UnlockedTracked ==
    ASSUME IInv, NEW p \in Applies, pc[p] \in Unlocked, pc'[p] \in Unlocked,
           locked' = locked, journal' = journal, pc'[p] = "plan" => left'[p] = sel'[p]
    PROVE  Tracked(p)'
BY DEF IInv, TargetsTracked, Tracked, Unlocked, Preparing, Working, Looping, Turning

LEMMA ScanKeeps ==
    ASSUME IInv, NEW p \in Applies, ReadRecord(p) \/ WalkTree(p)
    PROVE  InodesApart' /\ LocksHeld' /\ TargetsTracked'
<1> USE DEF IInv, TypeOK
<1>1. OthersWait(p)
  BY DEF OthersWait, ReadRecord, WalkTree, Goto, Loop, Leave, Forget, TypeOfControl, TypeOfPlan,
     handles, txn
<1>2. /\ pc[p] \in Unlocked /\ pc'[p] \in Unlocked
      /\ pc'[p] = "plan" => left'[p] = sel'[p]
  <2>1. pc[p] \in {"scan", "walk"}
    BY DEF ReadRecord, WalkTree
  <2>2. PICK t \in Targets : \/ Loop(p, t, "scan", "plan", sel[p]) /\ sel' = sel
                             \/ Goto(p, "walk")
                             \/ Leave(p, "unscannable")
    BY DEF ReadRecord, WalkTree
  <2>3. CASE Loop(p, t, "scan", "plan", sel[p]) /\ sel' = sel
    BY <2>1, <2>3 DEF Loop, Goto, TypeOfControl, Unlocked
  <2>4. CASE Goto(p, "walk") \/ Leave(p, "unscannable")
    BY <2>1, <2>4 DEF Leave, Goto, TypeOfControl, Unlocked
  <2> QED
    BY <2>2, <2>3, <2>4
<1>3. Tracked(p)'
  BY <1>2, UnlockedTracked DEF ReadRecord, WalkTree, handles, txn
<1> QED
  BY <1>1, <1>2, <1>3, QuietStep DEF ReadRecord, WalkTree, disk, handles, Unlocked

LEMMA BuildPlanKeeps ==
    ASSUME IInv, NEW p \in Applies, BuildPlan(p)
    PROVE  InodesApart' /\ LocksHeld' /\ TargetsTracked'
<1> USE DEF IInv, TypeOK
<1>1. OthersWait(p)
  BY DEF OthersWait, BuildPlan, Goto, Leave, Forget, TypeOfControl, TypeOfPlan, plan, handles, txn
<1>2. /\ pc[p] = "plan" /\ left[p] = sel[p] /\ locked[p] = {} /\ journal[p] = {}
  BY DEF BuildPlan, TargetsTracked, Tracked, Unlocked
<1>3. \/ pc'[p] = "done"
      \/ pc'[p] = "root" /\ left' = left /\ sel' = sel
  BY DEF BuildPlan, Goto, Leave, TypeOfControl, plan
<1>4. locked' = locked /\ journal' = journal
  BY DEF BuildPlan, handles, txn
<1>5. Tracked(p)'
  BY <1>2, <1>3, <1>4 DEF Tracked, Unlocked, Preparing, Working, Looping, Turning
<1> QED
  BY <1>1, <1>3, <1>5, QuietStep DEF BuildPlan, disk, handles

(* Preparing a target: the ones before it are locked, it and the ones       *)
(* behind it are not.                                                       *)
LEMMA PreparingTracked ==
    ASSUME IInv, NEW p \in Applies, pc[p] \in Preparing, pc'[p] \in Preparing,
           locked' = locked, journal' = journal, left' = left, sel' = sel
    PROVE  Tracked(p)'
BY DEF IInv, TargetsTracked, Tracked, Unlocked, Preparing, Working, Looping, Turning

LEMMA JournalLocked ==
    ASSUME IInv, NEW p \in Applies, pc[p] # "release"
    PROVE  \A o \in journal[p] : o[1] \in locked[p]
BY DEF IInv, TargetsTracked, Tracked

LEMMA LookAtRootKeeps ==
    ASSUME IInv, NEW p \in Applies, LookAtRoot(p)
    PROVE  InodesApart' /\ LocksHeld' /\ TargetsTracked'
<1> USE DEF IInv, TypeOK
<1>1. OthersWait(p)
  BY DEF OthersWait, LookAtRoot, Goto, TypeOfControl, plan, handles, txn
<1>2. pc[p] \in Preparing /\ pc'[p] \in {"mkdir", "open"}
  BY DEF LookAtRoot, Goto, TypeOfControl, Preparing
<1>3. Tracked(p)'
  BY <1>2, PreparingTracked DEF LookAtRoot, plan, handles, txn, Preparing
<1> QED
  BY <1>1, <1>2, <1>3, QuietStep DEF LookAtRoot, disk, handles

(* A new root gets an inode that no path and no descriptor refers to.       *)
LEMMA NewRootApart ==
    ASSUME IInv, NEW t \in Targets, NEW i \in Inodes, Unused(i), fd' = fd,
           at' = [at EXCEPT ![t] = i], alive' = alive \cup {i}
    PROVE  InodesApart'
<1> USE DEF IInv, TypeOK, TypeOfDisk
<1>1. \A u \in Targets : at'[u] = IF u = t THEN i ELSE at[u]
  OBVIOUS
<1>2. i # NoInode /\ i \notin alive
  BY ReconcilerAssumption DEF Unused
<1>3. \A p \in Applies : \A u \in Targets : fd[p][u] # i
  BY DEF Unused
<1> QED
  BY <1>1, <1>2, <1>3 DEF InodesApart

(* A root that is removed leaves the others where they are.                 *)
LEMMA OldRootApart ==
    ASSUME IInv, NEW t \in Targets, at[t] # NoInode, fd' = fd,
           at' = [at EXCEPT ![t] = NoInode], alive' = alive \ {at[t]}
    PROVE  InodesApart'
<1> USE DEF IInv, TypeOK, TypeOfDisk
<1>1. \A u \in Targets : at'[u] = IF u = t THEN NoInode ELSE at[u]
  OBVIOUS
<1> QED
  BY <1>1 DEF InodesApart

(* Locks do not depend on what the paths name.                              *)
LEMMA LocksStay ==
    ASSUME IInv, NEW p \in Applies, OthersWait(p), Tracked(p)',
           fd' = fd, flock' = flock, locked' = locked, pc'[p] \notin {"flock", "ns"}
    PROVE  LocksHeld' /\ TargetsTracked'
<1>1. LocksHeldBy(p)'
  BY DEF IInv, LocksHeld, LocksHeldBy, Holds
<1> QED
  BY <1>1, OthersKeepLocks

LEMMA MakeRootKeeps ==
    ASSUME IInv, NEW p \in Applies, MakeRoot(p)
    PROVE  InodesApart' /\ LocksHeld' /\ TargetsTracked'
<1> USE DEF IInv, TypeOK
<1>1. PICK t \in Targets :
         \/ Fail(p) /\ at' = at /\ alive' = alive
         \/ /\ \E i \in Inodes : /\ Unused(i)
                                 /\ at' = [at EXCEPT ![t] = i]
                                 /\ alive' = alive \cup {i}
            /\ Goto(p, "open") /\ left' = left
  BY DEF MakeRoot
<1>2. /\ pc[p] = "mkdir" /\ fd' = fd /\ locked' = locked /\ flock' = flock
      /\ sel' = sel /\ journal' = journal
  BY DEF MakeRoot, plan, txn
<1>3. OthersWait(p)
  BY <1>1, <1>2, OthersStay DEF OthersWait
<1>4. CASE Fail(p) /\ at' = at /\ alive' = alive
  BY <1>2, <1>3, <1>4, FailTracked, JournalLocked, QuietStep
<1>5. CASE /\ \E i \in Inodes : /\ Unused(i)
                                /\ at' = [at EXCEPT ![t] = i]
                                /\ alive' = alive \cup {i}
           /\ Goto(p, "open") /\ left' = left
  <2>1. InodesApart'
    BY <1>2, <1>5, NewRootApart
  <2>2. pc'[p] = "open"
    BY <1>5 DEF Goto, TypeOfControl
  <2>3. Tracked(p)'
    BY <1>2, <1>5, <2>2, PreparingTracked DEF Preparing
  <2> QED
    BY <1>2, <1>3, <2>1, <2>2, <2>3, LocksStay
<1> QED
  BY <1>1, <1>4, <1>5

LEMMA OpenRootKeeps ==
    ASSUME IInv, NEW p \in Applies, OpenRoot(p)
    PROVE  InodesApart' /\ LocksHeld' /\ TargetsTracked'
<1> USE DEF IInv, TypeOK
<1>1. PICK t \in Targets :
         /\ First(p, t)
         /\ \/ Fail(p) /\ fd' = fd
            \/ /\ at[t] # NoInode
               /\ fd' = [fd EXCEPT ![p][t] = at[t]]
               /\ Goto(p, "flock") /\ left' = left
  BY DEF OpenRoot
<1>2. /\ pc[p] = "open" /\ locked' = locked /\ flock' = flock /\ at' = at /\ alive' = alive
      /\ sel' = sel /\ journal' = journal
  BY DEF OpenRoot, disk, plan, txn
<1>3. OthersWait(p)
  BY <1>1, <1>2, OthersStay DEF OthersWait, TypeOfHandles
<1>4. CASE Fail(p) /\ fd' = fd
  BY <1>2, <1>3, <1>4, FailTracked, JournalLocked, QuietStep
<1>5. CASE /\ at[t] # NoInode
           /\ fd' = [fd EXCEPT ![p][t] = at[t]]
           /\ Goto(p, "flock") /\ left' = left
  <2>1. /\ \A u \in Targets : fd'[p][u] = IF u = t THEN at[t] ELSE fd[p][u]
        /\ \A q \in Applies \ {p} : fd'[q] = fd[q]
    BY <1>5 DEF TypeOfHandles
  <2>2. InodesApart'
    BY <1>2, <1>5, <2>1 DEF InodesApart
  <2>3. pc'[p] = "flock"
    BY <1>5 DEF Goto, TypeOfControl
  <2>4. Tracked(p)'
    BY <1>2, <1>5, <2>3, PreparingTracked DEF Preparing
  <2>5. t \notin locked[p]
    BY <1>1, <1>2 DEF First, TargetsTracked, Tracked, Preparing
  <2>6. \A u \in locked[p] : Holds(p, u)'
    BY <1>2, <2>1, <2>5 DEF LocksHeld, LocksHeldBy, Holds, TypeOfHandles
  <2>7. ASSUME NEW u \in Targets, First(p, u)' PROVE fd'[p][u] \in Inodes
    <3>1. First(p, u)
      BY <1>5, <2>7 DEF First
    <3>2. u = t
      BY <1>1, <3>1, FirstUnique
    <3> QED
      BY <1>5, <2>1, <3>2 DEF TypeOfDisk
  <2>8. LocksHeldBy(p)'
    BY <1>2, <2>3, <2>6, <2>7 DEF LocksHeldBy
  <2> QED
    BY <1>2, <1>3, <2>2, <2>4, <2>8, OthersKeepLocks
<1> QED
  BY <1>1, <1>4, <1>5

LEMMA LockRootKeeps ==
    ASSUME IInv, NEW p \in Applies, LockRoot(p)
    PROVE  InodesApart' /\ LocksHeld' /\ TargetsTracked'
<1> USE DEF IInv, TypeOK
<1>1. PICK t \in Targets :
         First(p, t) /\ Free(fd[p][t]) /\ flock' = [flock EXCEPT ![fd[p][t]] = p]
  BY DEF LockRoot
<1>2. /\ pc[p] = "flock" /\ Goto(p, "ns") /\ left' = left
      /\ locked' = locked /\ fd' = fd /\ at' = at /\ alive' = alive
      /\ sel' = sel /\ journal' = journal
  BY DEF LockRoot, disk, plan, txn
<1>3. OthersWait(p)
  BY <1>2, OthersStay DEF OthersWait
<1>4. InodesApart'
  BY <1>2 DEF InodesApart
<1>5. pc'[p] = "ns"
  BY <1>2 DEF Goto, TypeOfControl
<1>6. Tracked(p)'
  BY <1>2, <1>5, PreparingTracked DEF Preparing
<1>7. fd[p][t] \in Inodes
  BY <1>1, <1>2 DEF LocksHeld, LocksHeldBy
<1>8. \A i \in Inodes : flock'[i] = IF i = fd[p][t] THEN p ELSE flock[i]
  BY <1>1 DEF TypeOfHandles
<1>9. \A i \in Inodes : flock[i] \in Applies \ {p} => flock'[i] = flock[i]
  BY <1>1, <1>7, <1>8, ReconcilerAssumption DEF Free
<1>10. LocksHeldBy(p)'
  <2>1. \A u \in locked[p] : Holds(p, u)'
    BY <1>2, <1>8 DEF LocksHeld, LocksHeldBy, Holds
  <2>2. ASSUME NEW u \in Targets, First(p, u)' PROVE Holds(p, u)'
    <3>1. First(p, u)
      BY <1>2, <2>2 DEF First
    <3>2. u = t
      BY <1>1, <3>1, FirstUnique
    <3> QED
      BY <1>2, <1>7, <1>8, <3>2 DEF Holds
  <2> QED
    BY <1>2, <1>5, <2>1, <2>2 DEF LocksHeldBy
<1> QED
  BY <1>3, <1>4, <1>6, <1>9, <1>10, OthersKeepLocks

LEMMA LockExpiresKeeps ==
    ASSUME IInv, NEW p \in Applies, LockExpires(p)
    PROVE  InodesApart' /\ LocksHeld' /\ TargetsTracked'
<1> USE DEF IInv, TypeOK
<1>1. OthersWait(p)
  BY DEF OthersWait, LockExpires, Goto, TypeOfControl, plan, handles, txn
<1>2. pc[p] \in Preparing /\ pc'[p] = "abandon"
  BY DEF LockExpires, Goto, TypeOfControl, Preparing
<1>3. Tracked(p)'
  BY <1>2, PreparingTracked DEF LockExpires, plan, handles, txn, Preparing
<1> QED
  BY <1>1, <1>2, <1>3, QuietStep DEF LockExpires, disk, handles

LEMMA OpenNamespaceKeeps ==
    ASSUME IInv, NEW p \in Applies, OpenNamespace(p)
    PROVE  InodesApart' /\ LocksHeld' /\ TargetsTracked'
<1> USE DEF IInv, TypeOK
<1>1. PICK t \in Targets :
         /\ First(p, t)
         /\ \/ locked' = [locked EXCEPT ![p] = @ \cup {t}] /\ Goto(p, "init")
            \/ locked' = locked /\ Goto(p, "abandon")
  BY DEF OpenNamespace
<1>2. /\ pc[p] = "ns" /\ left' = left /\ fd' = fd /\ flock' = flock
      /\ at' = at /\ alive' = alive /\ sel' = sel /\ journal' = journal
  BY DEF OpenNamespace, plan, txn
<1>3. OthersWait(p)
  BY <1>1, <1>2, OthersStay DEF OthersWait, TypeOfHandles
<1>4. CASE locked' = locked /\ Goto(p, "abandon")
  <2>1. pc'[p] = "abandon"
    BY <1>4 DEF Goto, TypeOfControl
  <2>2. Tracked(p)'
    BY <1>2, <1>4, <2>1, PreparingTracked DEF Preparing
  <2> QED
    BY <1>2, <1>3, <1>4, <2>1, <2>2, QuietStep
<1>5. CASE locked' = [locked EXCEPT ![p] = @ \cup {t}] /\ Goto(p, "init")
  <2>1. pc'[p] = "init" /\ locked'[p] = locked[p] \cup {t}
    BY <1>5 DEF Goto, TypeOfControl, TypeOfHandles
  <2>2. Holds(p, t) /\ \A u \in locked[p] : Holds(p, u)
    BY <1>1, <1>2 DEF LocksHeld, LocksHeldBy
  <2>3. LocksHeldBy(p)'
    BY <1>2, <2>1, <2>2 DEF LocksHeldBy, Holds
  <2>4. /\ sel[p] \subseteq locked[p] \cup left[p] /\ locked[p] \cap left[p] = {}
        /\ \A o \in journal[p] : o[1] \in locked[p]
        /\ t \in left[p]
    BY <1>1, <1>2 DEF TargetsTracked, Tracked, Preparing, First
  <2>5. \A u \in Targets : First(p, u)' => u = t
    BY <1>1, <1>2, FirstUnique DEF First
  <2>6. Tracked(p)'
    BY <1>2, <2>1, <2>4, <2>5
    DEF Tracked, Unlocked, Preparing, Working, Looping, Turning
  <2>7. InodesApart'
    BY <1>2 DEF InodesApart
  <2> QED
    BY <1>2, <1>3, <2>3, <2>6, <2>7, OthersKeepLocks
<1> QED
  BY <1>1, <1>4, <1>5

LEMMA AbandonKeeps ==
    ASSUME IInv, NEW p \in Applies, Abandon(p)
    PROVE  InodesApart' /\ LocksHeld' /\ TargetsTracked'
<1> USE DEF IInv, TypeOK
<1>1. PICK t \in Targets :
         /\ First(p, t)
         /\ flock' = [flock EXCEPT ![fd[p][t]] = IF @ = p THEN NoApply ELSE @]
         /\ fd' = [fd EXCEPT ![p][t] = NoInode]
  BY DEF Abandon
<1>2. /\ pc[p] = "abandon" /\ Goto(p, "unchain") /\ left' = left /\ locked' = locked
      /\ at' = at /\ alive' = alive /\ sel' = sel /\ journal' = journal
  BY DEF Abandon, disk, plan, txn
<1>3. /\ \A u \in Targets : fd'[p][u] = IF u = t THEN NoInode ELSE fd[p][u]
      /\ \A q \in Applies \ {p} : fd'[q] = fd[q]
  BY <1>1 DEF TypeOfHandles
<1>4. OthersWait(p)
  BY <1>2, <1>3, OthersStay DEF OthersWait
<1>5. InodesApart'
  BY <1>2, <1>3 DEF InodesApart
<1>6. pc'[p] = "unchain"
  BY <1>2 DEF Goto, TypeOfControl
<1>7. Tracked(p)'
  BY <1>2, <1>6, PreparingTracked DEF Preparing
<1>8. \A i \in Inodes : flock'[i] = IF i = fd[p][t] /\ flock[i] = p THEN NoApply ELSE flock[i]
  BY <1>1 DEF TypeOfHandles
<1>9. t \notin locked[p]
  BY <1>1, <1>2 DEF First, TargetsTracked, Tracked, Preparing
<1>10. ASSUME NEW u \in locked[p] PROVE Holds(p, u)'
  <2>1. u \in Targets /\ u # t
    BY <1>9 DEF TypeOfHandles
  <2>2. Holds(p, u)
    BY DEF LocksHeld, LocksHeldBy
  <2>3. fd[p][u] # fd[p][t]
    BY <2>1, <2>2, ReconcilerAssumption DEF InodesApart, Holds
  <2> QED
    BY <1>3, <1>8, <2>1, <2>2, <2>3 DEF Holds
<1>11. LocksHeldBy(p)'
  BY <1>2, <1>6, <1>10 DEF LocksHeldBy
<1>12. \A i \in Inodes : flock[i] \in Applies \ {p} => flock'[i] = flock[i]
  BY <1>8
<1> QED
  BY <1>4, <1>5, <1>7, <1>11, <1>12, OthersKeepLocks

LEMMA UnchainKeeps ==
    ASSUME IInv, NEW p \in Applies, Unchain(p)
    PROVE  InodesApart' /\ LocksHeld' /\ TargetsTracked'
<1> USE DEF IInv, TypeOK
<1>1. PICK t \in Targets :
         \/ /\ Removable(p, t)
            /\ at' = [at EXCEPT ![t] = NoInode] /\ alive' = alive \ {made[p][t]}
         \/ at' = at /\ alive' = alive
  BY DEF Unchain
<1>2. /\ pc[p] = "unchain" /\ Fail(p) /\ fd' = fd /\ locked' = locked /\ flock' = flock
      /\ sel' = sel /\ journal' = journal
  BY DEF Unchain, plan, txn
<1>3. InodesApart'
  <2>1. CASE at' = at /\ alive' = alive
    BY <1>2, <2>1 DEF InodesApart
  <2>2. CASE /\ Removable(p, t)
             /\ at' = [at EXCEPT ![t] = NoInode] /\ alive' = alive \ {made[p][t]}
    BY <1>2, <2>2, OldRootApart DEF Removable
  <2> QED
    BY <1>1, <2>1, <2>2
<1>4. OthersWait(p)
  BY <1>2, OthersStay DEF OthersWait
<1>5. Tracked(p)' /\ pc'[p] \in {"undo", "settle"}
  BY <1>2, FailTracked, JournalLocked
<1> QED
  BY <1>2, <1>3, <1>4, <1>5, LocksStay

LEMMA InitMetadataKeeps ==
    ASSUME IInv, NEW p \in Applies, InitMetadata(p)
    PROVE  InodesApart' /\ LocksHeld' /\ TargetsTracked'
<1> USE DEF IInv, TypeOK
<1>1. PICK t \in Targets :
         First(p, t) /\ (Loop(p, t, "root", "validate", locked[p]) \/ Fail(p))
  BY DEF InitMetadata
<1>2. /\ pc[p] = "init" /\ fd' = fd /\ locked' = locked /\ flock' = flock
      /\ at' = at /\ alive' = alive /\ sel' = sel /\ journal' = journal
  BY DEF InitMetadata, plan, handles
<1>3. OthersWait(p)
  BY <1>1, <1>2, OthersStay DEF OthersWait, Loop, TypeOfControl
<1>4. Tracked(p)' /\ pc'[p] \in {"root", "validate", "undo", "settle"}
  <2>1. CASE Fail(p)
    BY <1>2, <2>1, FailTracked, JournalLocked
  <2>2. CASE Loop(p, t, "root", "validate", locked[p])
    <3>1. /\ sel[p] \subseteq locked[p] \cup left[p] /\ left[p] \cap locked[p] = {t}
          /\ \A o \in journal[p] : o[1] \in locked[p]
      BY <1>1, <1>2 DEF TargetsTracked, Tracked
    <3>2. CASE left[p] = {t}
      <4>1. pc'[p] = "validate" /\ left'[p] = locked[p]
        BY <2>2, <3>2 DEF Loop, Goto, TypeOfControl
      <4> QED
        BY <1>2, <3>1, <3>2, <4>1 DEF Tracked, Unlocked, Preparing, Working, Looping, Turning
    <3>3. CASE left[p] # {t}
      <4>1. pc'[p] = "root" /\ left'[p] = left[p] \ {t}
        BY <2>2, <3>3 DEF Loop, Goto, TypeOfControl
      <4> QED
        BY <1>2, <3>1, <4>1 DEF Tracked, Unlocked, Preparing, Working, Looping, Turning
    <3> QED
      BY <3>2, <3>3
  <2> QED
    BY <1>1, <2>1, <2>2
<1> QED
  BY <1>2, <1>3, <1>4, QuietStep

(* Between validation and cleanup every selected target is locked.          *)
LEMMA WorkTracked ==
    ASSUME IInv, NEW p \in Applies, pc[p] \in Working, locked' = locked, sel' = sel,
           \A o \in journal'[p] : o[1] \in locked[p],
           pc'[p] \in {"stage", "promote", "move", "install", "clean"}
    PROVE  Tracked(p)'
BY DEF IInv, TargetsTracked, Tracked, Unlocked, Preparing, Working, Looping, Turning

LEMMA OpsLocked ==
    ASSUME IInv, NEW p \in Applies, pc[p] \in Working, NEW o \in Ops(p)
    PROVE  o[1] \in locked[p]
BY OpsTyped DEF IInv, TypeOK, TargetsTracked, Tracked, Working

(* A loop over locked targets, into the next loop over them.                *)
LEMMA LoopTracked ==
    ASSUME IInv, NEW p \in Applies, NEW t \in Targets, NEW after \in Steps,
           pc[p] \in {"validate", "publish", "drop", "settle", "restore", "discard", "report"},
           after \in {"drop", "release", "discard", "prune"},
           after = "drop" => pc[p] \in Working,
           Loop(p, t, pc[p], after, locked[p]), locked' = locked, sel' = sel, journal' = journal
    PROVE  Tracked(p)' /\ pc'[p] \in {pc[p], after}
<1> USE DEF IInv, TypeOK, TypeOfControl
<1>1. /\ \A o \in journal[p] : o[1] \in locked[p]
      /\ left[p] \subseteq locked[p]
      /\ pc[p] \in Working => sel[p] \subseteq locked[p]
  BY DEF TargetsTracked, Tracked, Looping, Working
<1>2. \/ pc'[p] = after /\ left'[p] = locked[p]
      \/ pc'[p] = pc[p] /\ left'[p] = left[p] \ {t}
  BY DEF Loop, Goto
<1> QED
  BY <1>1, <1>2 DEF Tracked, Unlocked, Preparing, Working, Looping, Turning

LEMMA LoopOthers ==
    ASSUME TypeOfControl, NEW p \in Applies, NEW t, NEW step, NEW after, NEW again,
           Loop(p, t, step, after, again)
    PROVE  \A q \in Applies \ {p} : pc'[q] = pc[q] /\ left'[q] = left[q]
BY DEF TypeOfControl, Loop, Goto

LEMMA ValidateKeeps ==
    ASSUME IInv, NEW p \in Applies, Validate(p)
    PROVE  InodesApart' /\ LocksHeld' /\ TargetsTracked'
<1> USE DEF IInv, TypeOK
<1>1. PICK t \in Targets : Loop(p, t, "validate", "stage", {}) \/ Fail(p)
  BY DEF Validate
<1>2. /\ pc[p] = "validate" /\ fd' = fd /\ locked' = locked /\ flock' = flock
      /\ at' = at /\ alive' = alive /\ sel' = sel /\ journal' = journal
  BY DEF Validate, disk, plan, handles, txn
<1>3. OthersWait(p)
  BY <1>1, <1>2, OthersStay, LoopOthers DEF OthersWait
<1>4. Tracked(p)' /\ pc'[p] \in {"stage", "validate", "undo", "settle"}
  <2>1. CASE Fail(p)
    BY <1>2, <2>1, FailTracked, JournalLocked
  <2>2. CASE Loop(p, t, "validate", "stage", {})
    <3>1. /\ \A o \in journal[p] : o[1] \in locked[p]
          /\ left[p] \subseteq locked[p] /\ sel[p] \subseteq locked[p]
      BY <1>2 DEF TargetsTracked, Tracked, Working, Looping
    <3>2. \/ pc'[p] = "stage"
          \/ pc'[p] = "validate" /\ left'[p] = left[p] \ {t}
      BY <2>2 DEF Loop, Goto, TypeOfControl
    <3> QED
      BY <1>2, <3>1, <3>2 DEF Tracked, Unlocked, Preparing, Working, Looping, Turning
  <2> QED
    BY <1>1, <2>1, <2>2
<1> QED
  BY <1>2, <1>3, <1>4, QuietStep

LEMMA StageKeeps ==
    ASSUME IInv, NEW p \in Applies, Stage(p)
    PROVE  InodesApart' /\ LocksHeld' /\ TargetsTracked'
<1> USE DEF IInv, TypeOK
<1>1. (Goto(p, "promote") /\ left' = left) \/ Fail(p)
  BY DEF Stage
<1>2. /\ pc[p] = "stage" /\ fd' = fd /\ locked' = locked /\ flock' = flock
      /\ at' = at /\ alive' = alive /\ sel' = sel /\ journal' = journal
  BY DEF Stage, disk, plan, handles, txn
<1>3. OthersWait(p)
  BY <1>1, <1>2, OthersStay DEF OthersWait
<1>4. Tracked(p)' /\ pc'[p] \in {"promote", "undo", "settle"}
  BY <1>1, <1>2, OthersStay, FailTracked, JournalLocked, WorkTracked DEF Working
<1> QED
  BY <1>2, <1>3, <1>4, QuietStep

LEMMA PromoteKeeps ==
    ASSUME IInv, NEW p \in Applies, Promote(p)
    PROVE  InodesApart' /\ LocksHeld' /\ TargetsTracked'
<1> USE DEF IInv, TypeOK
<1>1. \/ Goto(p, "install") /\ left' = left
      \/ Goto(p, "move") /\ left' = left
      \/ Fail(p)
  BY DEF Promote
<1>2. /\ pc[p] = "promote" /\ fd' = fd /\ locked' = locked /\ flock' = flock
      /\ at' = at /\ alive' = alive /\ sel' = sel /\ journal' = journal
  BY DEF Promote, plan, handles
<1>3. OthersWait(p)
  BY <1>1, <1>2, OthersStay DEF OthersWait
<1>4. Tracked(p)' /\ pc'[p] \in {"install", "move", "undo", "settle"}
  BY <1>1, <1>2, OthersStay, FailTracked, JournalLocked, WorkTracked DEF Working
<1> QED
  BY <1>2, <1>3, <1>4, QuietStep

(* What the two halves of a promotion do to control and journal.            *)
LEMMA JournaledPlace ==
    ASSUME IInv, NEW p \in Applies, pc[p] \in Working, NEW o \in Ops(p), Journaled(p, o)
    PROVE  /\ \A q \in Applies \ {p} : pc'[q] = pc[q] /\ left'[q] = left[q] /\ journal'[q] = journal[q]
           /\ \A e \in journal'[p] : e[1] \in locked[p]
           /\ pc'[p] \in {"clean", "promote"} \/ Fail(p)
<1> USE DEF IInv, TypeOK
<1>1. \/ Goto(p, "clean") /\ left' = left
      \/ Goto(p, "promote") /\ left' = left
      \/ Fail(p)
  BY DEF Journaled
<1>2. journal'[p] = journal[p] \cup {o} /\ \A q \in Applies \ {p} : journal'[q] = journal[q]
  BY DEF Journaled, TypeOfTxn
<1>3. \A e \in journal'[p] : e[1] \in locked[p]
  BY <1>2, OpsLocked, JournalLocked DEF Working
<1> QED
  BY <1>1, <1>2, <1>3, OthersStay

LEMMA PromotionKeeps ==
    ASSUME IInv, NEW p \in Applies, MoveAside(p) \/ Install(p)
    PROVE  InodesApart' /\ LocksHeld' /\ TargetsTracked'
<1> USE DEF IInv, TypeOK
<1>1. /\ pc[p] \in Working /\ pc[p] # "release"
      /\ fd' = fd /\ locked' = locked /\ flock' = flock
      /\ at' = at /\ alive' = alive /\ sel' = sel
  BY DEF MoveAside, Install, plan, handles, Working
<1>2. PICK o \in Ops(p) :
         \/ Journaled(p, o)
         \/ Goto(p, "install") /\ left' = left /\ journal' = journal
         \/ Fail(p) /\ journal' = journal
  BY DEF MoveAside, PutAside, Install, PutLink, PutNoLink
<1>3. CASE Journaled(p, o)
  <2>1. OthersWait(p)
    BY <1>1, <1>3, JournaledPlace DEF OthersWait
  <2>2. Tracked(p)' /\ pc'[p] \in {"clean", "promote", "undo", "settle"}
    BY <1>1, <1>3, JournaledPlace, FailTracked, WorkTracked
  <2> QED
    BY <1>1, <2>1, <2>2, QuietStep
<1>4. CASE Goto(p, "install") /\ left' = left /\ journal' = journal
  <2>1. OthersWait(p) /\ pc'[p] = "install"
    BY <1>1, <1>4, OthersStay DEF OthersWait
  <2>2. Tracked(p)'
    BY <1>1, <1>4, <2>1, WorkTracked, JournalLocked
  <2> QED
    BY <1>1, <2>1, <2>2, QuietStep
<1>5. CASE Fail(p) /\ journal' = journal
  <2>1. OthersWait(p)
    BY <1>1, <1>5, OthersStay DEF OthersWait
  <2>2. Tracked(p)' /\ pc'[p] \in {"undo", "settle"}
    BY <1>1, <1>5, FailTracked, JournalLocked
  <2> QED
    BY <1>1, <2>1, <2>2, QuietStep
<1> QED
  BY <1>2, <1>3, <1>4, <1>5

LEMMA CleanStagingKeeps ==
    ASSUME IInv, NEW p \in Applies, CleanStaging(p)
    PROVE  InodesApart' /\ LocksHeld' /\ TargetsTracked'
<1> USE DEF IInv, TypeOK
<1>1. (Goto(p, "publish") /\ left' = [left EXCEPT ![p] = locked[p]]) \/ Fail(p)
  BY DEF CleanStaging
<1>2. /\ pc[p] = "clean" /\ fd' = fd /\ locked' = locked /\ flock' = flock
      /\ at' = at /\ alive' = alive /\ sel' = sel /\ journal' = journal
  BY DEF CleanStaging, disk, plan, handles, txn
<1>3. OthersWait(p)
  BY <1>1, <1>2, OthersStay DEF OthersWait, TypeOfControl
<1>4. Tracked(p)' /\ pc'[p] \in {"publish", "undo", "settle"}
  <2>1. CASE Fail(p)
    BY <1>2, <2>1, FailTracked, JournalLocked
  <2>2. CASE Goto(p, "publish") /\ left' = [left EXCEPT ![p] = locked[p]]
    <3>1. sel[p] \subseteq locked[p] /\ \A o \in journal[p] : o[1] \in locked[p]
      BY <1>2 DEF TargetsTracked, Tracked, Working
    <3>2. pc'[p] = "publish" /\ left'[p] = locked[p]
      BY <2>2 DEF Goto, TypeOfControl
    <3> QED
      BY <1>2, <3>1, <3>2 DEF Tracked, Unlocked, Preparing, Working, Looping, Turning
  <2> QED
    BY <1>1, <2>1, <2>2
<1> QED
  BY <1>2, <1>3, <1>4, QuietStep

(* The loops over locked targets: each goes on, ends, or fails.             *)
LEMMA LoopKeeps ==
    ASSUME IInv, NEW p \in Applies,
           \/ Publish(p) \/ DropBackup(p) \/ Settle(p)
           \/ RestoreMetadata(p) \/ Discard(p)
    PROVE  InodesApart' /\ LocksHeld' /\ TargetsTracked'
<1> USE DEF IInv, TypeOK
<1>1. /\ pc[p] \in {"publish", "drop", "settle", "restore", "discard"}
      /\ fd' = fd /\ locked' = locked /\ flock' = flock
      /\ at' = at /\ alive' = alive /\ sel' = sel /\ journal' = journal
  BY DEF Publish, DropBackup, Settle, RestoreMetadata, Discard, disk, plan, handles, txn
<1>2. PICK t \in Targets :
         \/ pc[p] = "publish" /\ Loop(p, t, "publish", "drop", locked[p])
         \/ pc[p] = "drop" /\ Loop(p, t, "drop", "release", locked[p])
         \/ pc[p] = "settle" /\ Loop(p, t, "settle", "release", locked[p])
         \/ pc[p] = "restore" /\ Loop(p, t, "restore", "discard", locked[p])
         \/ pc[p] = "discard" /\ Loop(p, t, "discard", "prune", locked[p])
         \/ Fail(p)
  BY DEF Publish, DropBackup, Settle, RestoreMetadata, Discard
<1>3. OthersWait(p)
  BY <1>1, <1>2, OthersStay, LoopOthers DEF OthersWait
<1>4. Tracked(p)' /\ pc'[p] \notin {"flock", "ns"}
  <2>1. CASE Fail(p)
    BY <1>1, <2>1, FailTracked, JournalLocked
  <2>2. ASSUME NEW after \in {"drop", "release", "discard", "prune"},
               after = "drop" => pc[p] \in Working,
               Loop(p, t, pc[p], after, locked[p])
        PROVE  Tracked(p)' /\ pc'[p] \notin {"flock", "ns"}
    <3>1. after \in Steps
      BY DEF Steps
    <3> QED
      BY <1>1, <2>2, <3>1, LoopTracked
  <2> QED
    BY <1>2, <2>1, <2>2 DEF Working
<1> QED
  BY <1>1, <1>3, <1>4, QuietStep

(* Rolling back one entry, and what follows the journal, keeps the targets  *)
(* of the run ahead of it.                                                  *)
LEMMA UndoKeeps ==
    ASSUME IInv, NEW p \in Applies, Undo(p) \/ PutBackup(p) \/ Prune(p)
    PROVE  InodesApart' /\ LocksHeld' /\ TargetsTracked'
<1> USE DEF IInv, TypeOK
<1>1. /\ pc[p] \in {"undo", "putback", "prune"}
      /\ fd' = fd /\ locked' = locked /\ flock' = flock /\ left' = left
      /\ at' = at /\ alive' = alive /\ sel' = sel
  BY DEF Undo, PutBackup, Prune, plan, handles
<1>2. journal'[p] \subseteq journal[p] /\ \A q \in Applies \ {p} : journal'[q] = journal[q]
  BY DEF Undo, PutBackup, Prune, TypeOfTxn
<1>3. /\ pc'[p] \in {"undo", "putback", "restore", "release", "report"}
      /\ \A q \in Applies \ {p} : pc'[q] = pc[q]
  BY DEF Undo, PutBackup, Prune, Goto, TypeOfControl
<1>4. OthersWait(p)
  BY <1>1, <1>2, <1>3 DEF OthersWait
<1>5. left[p] = locked[p] /\ \A o \in journal[p] : o[1] \in locked[p]
  BY <1>1 DEF TargetsTracked, Tracked, Turning
<1>6. Tracked(p)'
  BY <1>1, <1>2, <1>3, <1>5 DEF Tracked, Unlocked, Preparing, Working, Looping, Turning
<1> QED
  BY <1>1, <1>3, <1>4, <1>6, QuietStep

LEMMA ReportKeeps ==
    ASSUME IInv, NEW p \in Applies, Report(p)
    PROVE  InodesApart' /\ LocksHeld' /\ TargetsTracked'
<1> USE DEF IInv, TypeOK
<1>1. PICK t \in Targets :
         /\ Loop(p, t, "report", "release", locked[p])
         /\ \/ /\ Removable(p, t) /\ left[p] # {} /\ t \in left[p]
               /\ at' = [at EXCEPT ![t] = NoInode] /\ alive' = alive \ {fd[p][t]}
            \/ at' = at /\ alive' = alive
  BY DEF Report, First, Vanishes
<1>2. /\ pc[p] = "report" /\ fd' = fd /\ locked' = locked /\ flock' = flock
      /\ sel' = sel /\ journal' = journal
  BY DEF Report, plan, handles
<1>3. OthersWait(p)
  BY <1>1, <1>2, LoopOthers DEF OthersWait
<1>4. "release" \in Steps
  BY DEF Steps
<1>5. Tracked(p)' /\ pc'[p] \in {"report", "release"}
  BY <1>1, <1>2, <1>4, LoopTracked
<1>6. InodesApart'
  <2>1. CASE at' = at /\ alive' = alive
    BY <1>2, <2>1 DEF InodesApart
  <2>2. CASE /\ Removable(p, t) /\ t \in left[p]
             /\ at' = [at EXCEPT ![t] = NoInode] /\ alive' = alive \ {fd[p][t]}
    <3>1. \A u \in Targets : at'[u] = IF u = t THEN NoInode ELSE at[u]
      BY <2>2 DEF TypeOfDisk
    <3>2. \A u \in Targets : u # t => at[u] # fd[p][t] \/ at[u] = NoInode
      BY DEF InodesApart
    <3> QED
      BY <1>2, <2>2, <3>1, <3>2 DEF InodesApart
  <2> QED
    BY <1>1, <2>1, <2>2
<1> QED
  BY <1>2, <1>3, <1>5, <1>6, LocksStay

LEMMA ReleaseKeeps ==
    ASSUME IInv, NEW p \in Applies, Release(p)
    PROVE  InodesApart' /\ LocksHeld' /\ TargetsTracked'
<1> USE DEF IInv, TypeOK
<1>1. /\ pc[p] = "release" /\ left[p] = locked[p] /\ at' = at /\ alive' = alive
  BY DEF Release, disk, TargetsTracked, Tracked, Turning
<1>2. ASSUME NEW t \in Targets, Last(p, t),
             flock' = [flock EXCEPT ![fd[p][t]] = NoApply],
             fd' = [fd EXCEPT ![p][t] = NoInode],
             locked' = [locked EXCEPT ![p] = @ \ {t}],
             left' = [left EXCEPT ![p] = @ \ {t}],
             pc' = pc, sel' = sel, journal' = journal
      PROVE  InodesApart' /\ LocksHeld' /\ TargetsTracked'
  <2>1. /\ \A u \in Targets : fd'[p][u] = IF u = t THEN NoInode ELSE fd[p][u]
        /\ \A q \in Applies \ {p} : /\ fd'[q] = fd[q] /\ locked'[q] = locked[q]
                                    /\ left'[q] = left[q]
        /\ locked'[p] = locked[p] \ {t} /\ left'[p] = left[p] \ {t}
    BY <1>2 DEF TypeOfHandles, TypeOfControl
  <2>2. OthersWait(p)
    BY <1>2, <2>1 DEF OthersWait
  <2>3. InodesApart'
    BY <1>1, <2>1 DEF InodesApart
  <2>4. Tracked(p)'
    BY <1>1, <1>2, <2>1 DEF Tracked, Unlocked, Preparing, Working, Looping, Turning
  <2>5. t \in locked[p] /\ Holds(p, t)
    BY <1>1, <1>2 DEF Last, LocksHeld, LocksHeldBy
  <2>6. \A i \in Inodes : flock'[i] = IF i = fd[p][t] THEN NoApply ELSE flock[i]
    BY <1>2 DEF TypeOfHandles
  <2>7. ASSUME NEW u \in locked'[p] PROVE Holds(p, u)'
    <3>1. u \in Targets /\ u # t /\ Holds(p, u)
      BY <2>1, <2>7 DEF LocksHeld, LocksHeldBy, TypeOfHandles
    <3>2. fd[p][u] # fd[p][t]
      BY <3>1, ReconcilerAssumption DEF InodesApart, Holds
    <3> QED
      BY <2>1, <2>6, <3>1, <3>2 DEF Holds
  <2>8. LocksHeldBy(p)'
    BY <1>1, <1>2, <2>7 DEF LocksHeldBy
  <2>9. \A i \in Inodes : flock[i] \in Applies \ {p} => flock'[i] = flock[i]
    BY <2>5, <2>6 DEF Holds
  <2> QED
    BY <2>2, <2>3, <2>4, <2>8, <2>9, OthersKeepLocks
<1>3. ASSUME left[p] = {}, Goto(p, "done"), Forget(p), Reset(p), UNCHANGED handles
      PROVE  InodesApart' /\ LocksHeld' /\ TargetsTracked'
  <2>1. /\ pc'[p] = "done" /\ journal'[p] = {}
        /\ \A q \in Applies \ {p} : /\ pc'[q] = pc[q] /\ left'[q] = left[q]
                                    /\ sel'[q] = sel[q] /\ journal'[q] = journal[q]
    BY <1>3 DEF Goto, Forget, Reset, TypeOfControl, TypeOfPlan, TypeOfTxn
  <2>2. OthersWait(p)
    BY <1>3, <2>1 DEF OthersWait, handles
  <2>3. Tracked(p)'
    BY <1>1, <1>3, <2>1 DEF handles, Tracked, Unlocked, Preparing, Working, Looping, Turning
  <2> QED
    BY <1>1, <1>3, <2>1, <2>2, <2>3, QuietStep DEF handles
<1> QED
  BY <1>2, <1>3 DEF Release, plan

(* A run that is killed holds nothing any more.                             *)
LEMMA CrashKeeps ==
    ASSUME IInv, NEW p \in Applies, Crash(p)
    PROVE  InodesApart' /\ LocksHeld' /\ TargetsTracked'
<1> USE DEF IInv, TypeOK
<1>1. /\ pc'[p] = "done" /\ journal'[p] = {} /\ locked'[p] = {}
      /\ \A q \in Applies \ {p} : /\ pc'[q] = pc[q] /\ left'[q] = left[q]
                                  /\ sel'[q] = sel[q] /\ journal'[q] = journal[q]
                                  /\ locked'[q] = locked[q]
  BY DEF Crash, Goto, Forget, Reset, TypeOfControl, TypeOfPlan, TypeOfTxn, TypeOfHandles
<1>2. /\ \A u \in Targets : fd'[p][u] = NoInode
      /\ \A q \in Applies \ {p} : fd'[q] = fd[q]
  BY DEF Crash, TypeOfHandles
<1>3. OthersWait(p)
  BY <1>1, <1>2 DEF OthersWait
<1>4. InodesApart'
  BY <1>2 DEF Crash, disk, InodesApart
<1>5. Tracked(p)' /\ LocksHeldBy(p)'
  BY <1>1 DEF LocksHeldBy, Tracked, Unlocked, Preparing, Working, Looping, Turning
<1>6. \A i \in Inodes : flock[i] \in Applies \ {p} => flock'[i] = flock[i]
  BY DEF Crash
<1> QED
  BY <1>3, <1>4, <1>5, <1>6, OthersKeepLocks

LEMMA UserStepKeeps ==
    ASSUME IInv, UserStep PROVE InodesApart' /\ LocksHeld' /\ TargetsTracked'
<1> USE DEF IInv, TypeOK
<1>1. /\ pc' = pc /\ left' = left /\ sel' = sel /\ locked' = locked /\ journal' = journal
      /\ fd' = fd /\ flock' = flock
  BY DEF UserStep, control, plan, handles, txn
<1>2. InodesApart'
  <2>1. PICK t \in Targets : UserReplacesRoot(t) \/ (at' = at /\ alive' = alive)
    <3>1. \A t \in Targets : \A x \in Paths :
             UserWrites(t, x) \/ UserRelinks(t, x) \/ UserUnlinks(t, x)
                => at' = at /\ alive' = alive
      BY DEF UserWrites, UserRelinks, UserUnlinks
    <3> QED
      BY <3>1 DEF UserStep
  <2>2. CASE UserReplacesRoot(t)
    BY <1>1, <2>2, NewRootApart DEF UserReplacesRoot
  <2>3. CASE at' = at /\ alive' = alive
    BY <1>1, <2>3 DEF InodesApart
  <2> QED
    BY <2>1, <2>2, <2>3
<1>3. LocksHeld' /\ TargetsTracked'
  BY <1>1 DEF LocksHeld, LocksHeldBy, Holds, First, TargetsTracked, Tracked
<1> QED
  BY <1>2, <1>3

LEMMA StepKeeps ==
    ASSUME IInv, NEW p \in Applies, Begin(p) \/ Step(p) \/ Crash(p)
    PROVE  IInv'
<1>1. TypeOK'
  BY BeginTyped, ReadRecordTyped, WalkTreeTyped, BuildPlanTyped, LookAtRootTyped, MakeRootTyped,
     OpenRootTyped, LockRootTyped, OpenNamespaceTyped, AbandonTyped, UnchainTyped,
     InitMetadataTyped, ValidateTyped, StageTyped, PromoteTyped, MoveAsideTyped, InstallTyped,
     PublishTyped, DropBackupTyped, SettleTyped, UndoTyped, PutBackupTyped,
     RestoreMetadataTyped, DiscardTyped, PruneTyped, ReportTyped, ReleaseTyped, CrashTyped
  DEF Step
<1>2. InodesApart' /\ LocksHeld' /\ TargetsTracked'
  BY BeginKeeps, ScanKeeps, BuildPlanKeeps, LookAtRootKeeps, MakeRootKeeps, OpenRootKeeps,
     LockRootKeeps, LockExpiresKeeps, OpenNamespaceKeeps, AbandonKeeps, UnchainKeeps,
     InitMetadataKeeps, ValidateKeeps, StageKeeps, PromoteKeeps, PromotionKeeps,
     CleanStagingKeeps, LoopKeeps, UndoKeeps, ReportKeeps, ReleaseKeeps, CrashKeeps
  DEF Step
<1> QED
  BY <1>1, <1>2 DEF IInv

(* The invariant holds at the start: nothing is open, nothing is locked.    *)
LEMMA InvariantInit == Init => IInv
<1> SUFFICES ASSUME Init PROVE IInv
  OBVIOUS
<1>1. TypeOK
  BY InitTyped
<1>2. InodesApart
  <2>1. PICK w \in [Targets -> Priors] :
           /\ at = [t \in Targets |-> IF w[t].present THEN Home[t] ELSE NoInode]
           /\ alive = {i \in Inodes : {t \in Targets : w[t].present /\ Home[t] = i} # {}}
    BY DEF Init
  <2>2. \A p \in Applies : \A t \in Targets : fd[p][t] = NoInode
    BY DEF Init
  <2>3. \A t \in Targets : Home[t] \in Inodes
    BY ReconcilerAssumption
  <2> QED
    BY <2>1, <2>2, <2>3, ReconcilerAssumption DEF InodesApart
<1>3. LocksHeld /\ TargetsTracked
  BY DEF Init, LocksHeld, LocksHeldBy, TargetsTracked, Tracked, Unlocked, Preparing, Working,
     Looping, Turning
<1> QED
  BY <1>1, <1>2, <1>3 DEF IInv

LEMMA InvariantStutters == ASSUME IInv, UNCHANGED vars PROVE IInv'
<1> USE DEF IInv, TypeOK, vars, disk, plan, control, handles, txn, budget
<1>1. TypeOK'
  BY DEF TypeOfDisk, TypeOfPlan, TypeOfControl, TypeOfHandles, TypeOfTxn, TypeOfBudget
<1>2. InodesApart'
  BY DEF InodesApart
<1>3. LocksHeld' /\ TargetsTracked'
  BY DEF LocksHeld, LocksHeldBy, Holds, First, TargetsTracked, Tracked
<1> QED
  BY <1>1, <1>2, <1>3

LEMMA InvariantNext == IInv /\ [Next]_vars => IInv'
<1> SUFFICES ASSUME IInv, [Next]_vars PROVE IInv'
  OBVIOUS
<1>1. CASE \E p \in Applies : Begin(p) \/ Step(p) \/ Crash(p)
  BY <1>1, StepKeeps
<1>2. CASE UserStep
  BY <1>2, UserStepTyped, UserStepKeeps DEF IInv
<1>3. CASE UNCHANGED vars
  BY <1>3, InvariantStutters
<1> QED
  BY <1>1, <1>2, <1>3 DEF Next, Finished

(* The inductive invariant of concurrent applies: types, one directory per  *)
(* target, every locked target's flock held, every loop within the locked   *)
(* targets, for all runs, targets, configurations and faults.               *)
THEOREM Invariance == Spec => []IInv
<1> QED
  BY InvariantInit, InvariantNext, PTL DEF Spec

(* The state of apply_plan is well typed in every reachable state.          *)
THEOREM TypeCorrectness == Spec => []TypeOK
<1>1. IInv => TypeOK
  BY DEF IInv
<1> QED
  BY <1>1, Invariance, PTL

(* Two runs of skillctl never hold the same target directory locked.        *)
THEOREM Exclusion == Spec => []MutualExclusion
<1>1. IInv => MutualExclusion
  <2> SUFFICES ASSUME IInv, NEW p \in Applies, NEW q \in Applies,
                      NEW t \in locked[p], NEW u \in locked[q], p # q
               PROVE  fd[p][t] # fd[q][u]
    BY DEF MutualExclusion
  <2>1. flock[fd[p][t]] = p /\ flock[fd[q][u]] = q
    BY DEF IInv, LocksHeld, LocksHeldBy, Holds
  <2> QED
    BY <2>1
<1> QED
  BY <1>1, Invariance, PTL

(* A run writes below the roots it has locked only.                         *)
WritesUnderLock(p) ==
    \A i \in Inodes : tree'[i] # tree[i] \/ ns'[i].managed # ns[i].managed
        => \E t \in locked[p] : fd[p][t] = i

LEMMA PromotionWrites ==
    ASSUME IInv, NEW p \in Applies, Promote(p) \/ MoveAside(p) \/ Install(p)
    PROVE  WritesUnderLock(p)
<1> USE DEF IInv, TypeOK, TypeOfDisk
<1>1. PICK o \in Ops(p) : \/ tree' = tree
                          \/ \E sub : tree' = [tree EXCEPT ![fd[p][o[1]]] = sub]
  <2>1. CASE Promote(p)
    BY <2>1, PromoteMakes DEF MakesOnly, MakesParents
  <2>2. CASE MoveAside(p)
    BY <2>2 DEF MoveAside, PutAside
  <2>3. CASE Install(p)
    BY <2>3 DEF Install, PutLink, PutNoLink, PutBack
  <2> QED
    BY <2>1, <2>2, <2>3
<1>2. ns' = ns /\ pc[p] \in Working
  BY DEF Promote, MoveAside, Install, Working
<1>3. o[1] \in locked[p]
  BY <1>2, OpsLocked
<1> QED
  BY <1>1, <1>2, <1>3 DEF WritesUnderLock

LEMMA RollbackWrites ==
    ASSUME IInv, NEW p \in Applies, Undo(p) \/ PutBackup(p) \/ Prune(p)
    PROVE  WritesUnderLock(p)
<1> USE DEF IInv, TypeOK, TypeOfDisk
<1>1. ns' = ns /\ \A o \in journal[p] : o[1] \in locked[p]
  BY JournalLocked DEF Undo, PutBackup, Prune
<1>2. CASE Undo(p) \/ PutBackup(p)
  <2>1. \/ tree' = tree
        \/ \E o \in journal[p] : \E sub : tree' = [tree EXCEPT ![fd[p][o[1]]] = sub]
    BY <1>2 DEF Undo, PutBackup, PutBack
  <2> QED
    BY <1>1, <2>1 DEF WritesUnderLock
<1>3. CASE Prune(p)
  <2>1. ASSUME NEW i \in Inodes, \A t \in locked[p] : fd[p][t] # i
        PROVE  tree'[i] = tree[i]
    BY <1>3, <2>1 DEF Prune
  <2> QED
    BY <1>1, <2>1 DEF WritesUnderLock
<1> QED
  BY <1>2, <1>3

------------------------------------------------------------------------------
(* What Records says of a run changes by its own steps only: its variables  *)
(* are its own, and the roots it has locked are written by nobody else.     *)
OthersUntouched(p) ==
    \A q \in Applies \ {p} :
        /\ pc'[q] = pc[q] /\ left'[q] = left[q] /\ sel'[q] = sel[q]
        /\ want'[q] = want[q] /\ seen'[q] = seen[q]
        /\ fd'[q] = fd[q] /\ locked'[q] = locked[q] /\ made'[q] = made[q]
        /\ fresh'[q] = fresh[q] /\ prev'[q] = prev[q]
        /\ journal'[q] = journal[q] /\ parents'[q] = parents[q]

OwnRootsOnly(p) ==
    \A i \in Inodes : tree'[i] # tree[i] \/ ns'[i] # ns[i] => flock[i] = p

LEMMA OthersRecords ==
    ASSUME IInv, RInv, NEW p \in Applies, OthersUntouched(p), OwnRootsOnly(p), envs' = envs
    PROVE  \A q \in Applies \ {p} : Records(q)'
<1> SUFFICES ASSUME NEW q \in Applies \ {p} PROVE Records(q)'
  OBVIOUS
<1>1. /\ pc'[q] = pc[q] /\ left'[q] = left[q] /\ sel'[q] = sel[q]
      /\ want'[q] = want[q] /\ seen'[q] = seen[q]
      /\ fd'[q] = fd[q] /\ locked'[q] = locked[q] /\ made'[q] = made[q]
      /\ fresh'[q] = fresh[q] /\ prev'[q] = prev[q]
      /\ journal'[q] = journal[q] /\ parents'[q] = parents[q]
  BY DEF OthersUntouched
<1>2. \A t \in locked[q] : tree'[fd[q][t]] = tree[fd[q][t]] /\ ns'[fd[q][t]] = ns[fd[q][t]]
  BY DEF OwnRootsOnly, IInv, LocksHeld, LocksHeldBy, Holds
<1>3. Records(q) /\ locked[q] \subseteq Targets
  BY DEF RInv, IInv, TypeOK, TypeOfHandles
<1>4. Remembers(q)'
  BY <1>1, <1>3 DEF Records, Remembers, First
<1>5. SameAuthority(q)' /\ Initialized(q)'
  BY <1>1, <1>2, <1>3 DEF Records, SameAuthority, Initialized, Rec, First, EmptyRecord
<1>6. Unblocked(q)'
  BY <1>1, <1>3 DEF Records, Unblocked, PlanBlocked
<1>7. Checked(q)' = Checked(q) /\ Checked(q) \subseteq locked[q]
  BY <1>1 DEF Checked
<1>8. OwnRecords(q)'
  BY <1>1, <1>2, <1>3, <1>7 DEF Records, OwnRecords, Rec
<1>9. StillPlanned(q)'
  BY <1>1, <1>2, <1>3, <1>7 DEF Records, StillPlanned, AsPlannedFor, Current, Unchanged
<1> QED
  BY <1>4, <1>5, <1>6, <1>8, <1>9 DEF Records

(* Before and after its transaction a run promises little: what it still    *)
(* remembers of old records names the authority that is there.              *)
LEMMA ResultIsQuiet ==
    ASSUME NEW p \in Applies, Remembers(p)', SameAuthority(p)',
           pc'[p] \notin Early \cup Promoting
    PROVE  Records(p)'
BY DEF Records, Initialized, Unblocked, OwnRecords, Checked, StillPlanned, Early, Promoting

(* ... which stays so while it writes no record and remembers no other.     *)
LEMMA QuietRecords ==
    ASSUME IInv, RInv, NEW p \in Applies, pc[p] # "release",
           pc'[p] \notin Early \cup Promoting,
           fd' = fd, locked' = locked, fresh' = fresh, prev' = prev,
           \A i \in Inodes : ns'[i].managed \in {ns[i].managed, NoFile}
    PROVE  Records(p)'
<1>1. Remembers(p) /\ SameAuthority(p)
  BY DEF RInv, Records
<1>2. Remembers(p)'
  BY <1>1 DEF Remembers, Early
<1>3. \A t \in locked[p] : fd[p][t] \in Inodes
  BY DEF IInv, LocksHeld, LocksHeldBy, Holds
<1>4. SameAuthority(p)'
  BY <1>1, <1>3 DEF SameAuthority, Rec
<1> QED
  BY <1>2, <1>4, ResultIsQuiet

(* The frames of the steps.                                                 *)
LEMMA ScanFrame ==
    ASSUME IInv, NEW p \in Applies, Begin(p) \/ ReadRecord(p) \/ WalkTree(p) \/ BuildPlan(p)
    PROVE  OthersUntouched(p) /\ OwnRootsOnly(p) /\ envs' = envs
<1> USE DEF IInv, TypeOK, TypeOfControl, TypeOfPlan
<1>1. UNCHANGED <<disk, handles, txn, budget>>
  BY DEF Begin, ReadRecord, WalkTree, BuildPlan
<1>2. \A q \in Applies \ {p} :
         pc'[q] = pc[q] /\ left'[q] = left[q] /\ sel'[q] = sel[q]
         /\ want'[q] = want[q] /\ seen'[q] = seen[q]
  <2>1. CASE Begin(p)
    BY <2>1 DEF Begin, Goto
  <2>2. CASE ReadRecord(p)
    BY <2>2 DEF ReadRecord, Loop, Goto, Leave, Forget
  <2>3. CASE WalkTree(p)
    BY <2>3 DEF WalkTree, Loop, Goto, Leave, Forget
  <2>4. CASE BuildPlan(p)
    BY <2>4 DEF BuildPlan, Goto, Leave, Forget, plan
  <2> QED
    BY <2>1, <2>2, <2>3, <2>4
<1> QED
  BY <1>1, <1>2 DEF OthersUntouched, OwnRootsOnly, disk, handles, txn, budget

LEMMA PrepareFrame ==
    ASSUME IInv, NEW p \in Applies,
           \/ LookAtRoot(p) \/ MakeRoot(p) \/ OpenRoot(p) \/ LockRoot(p) \/ LockExpires(p)
           \/ Abandon(p) \/ Unchain(p)
    PROVE  OthersUntouched(p) /\ OwnRootsOnly(p) /\ envs' = envs
<1> USE DEF IInv, TypeOK, TypeOfControl, TypeOfPlan, TypeOfHandles
<1>1. UNCHANGED <<tree, ns, plan, locked, txn, budget>>
  BY DEF LookAtRoot, MakeRoot, OpenRoot, LockRoot, LockExpires, Abandon, Unchain, disk, handles
<1>2. \A q \in Applies \ {p} :
         pc'[q] = pc[q] /\ left'[q] = left[q] /\ fd'[q] = fd[q] /\ made'[q] = made[q]
  BY DEF LookAtRoot, MakeRoot, OpenRoot, LockRoot, LockExpires, Abandon, Unchain, Fail, Goto, handles
<1> QED
  BY <1>1, <1>2 DEF OthersUntouched, OwnRootsOnly, plan, txn, budget

(* A run writes to the namespace of a root whose flock it holds.            *)
LEMMA NamespaceFrame ==
    ASSUME IInv, NEW p \in Applies,
           \/ OpenNamespace(p) \/ InitMetadata(p) \/ Publish(p) \/ Settle(p)
           \/ RestoreMetadata(p) \/ Report(p)
    PROVE  OthersUntouched(p) /\ OwnRootsOnly(p) /\ envs' = envs
<1> USE DEF IInv, TypeOK, TypeOfControl, TypeOfPlan, TypeOfHandles, TypeOfTxn, TypeOfDisk
<1>1. UNCHANGED <<tree, plan, fd, made, journal, parents, envs>>
  BY DEF OpenNamespace, InitMetadata, Publish, Settle, RestoreMetadata, Report, handles, txn,
     disk, budget, Fault
<1>2. \A q \in Applies \ {p} : pc'[q] = pc[q] /\ left'[q] = left[q]
  <2>1. CASE OpenNamespace(p)
    BY <2>1 DEF OpenNamespace, Goto
  <2>2. CASE ~OpenNamespace(p)
    BY <2>2, OthersStay, LoopOthers DEF InitMetadata, Publish, Settle, RestoreMetadata, Report
  <2> QED
    BY <2>1, <2>2
<1>3. \A q \in Applies \ {p} : locked'[q] = locked[q] /\ fresh'[q] = fresh[q] /\ prev'[q] = prev[q]
  BY DEF OpenNamespace, InitMetadata, Publish, Settle, RestoreMetadata, Report, handles, txn
<1>4. \E t \in Targets : First(p, t) /\ (ns' = ns \/ \E n : ns' = [ns EXCEPT ![fd[p][t]] = n])
  <2>1. CASE OpenNamespace(p)
    BY <2>1 DEF OpenNamespace
  <2>2. CASE InitMetadata(p)
    BY <2>2 DEF InitMetadata
  <2>3. CASE Publish(p)
    BY <2>3 DEF Publish
  <2>4. CASE Settle(p)
    BY <2>4 DEF Settle
  <2>5. CASE RestoreMetadata(p)
    BY <2>5 DEF RestoreMetadata
  <2>6. CASE Report(p)
    BY <2>6 DEF Report
  <2> QED
    BY <2>1, <2>2, <2>3, <2>4, <2>5, <2>6
<1>5. \A t \in Targets : First(p, t) => Holds(p, t)
  <2>1. pc[p] \in {"ns", "init", "publish", "settle", "restore", "report"}
    BY DEF OpenNamespace, InitMetadata, Publish, Settle, RestoreMetadata, Report
  <2>2. pc[p] # "ns" => \A t \in Targets : First(p, t) => t \in locked[p]
    BY <2>1 DEF TargetsTracked, Tracked, Looping, First
  <2> QED
    BY <2>2 DEF LocksHeld, LocksHeldBy
<1>6. OwnRootsOnly(p)
  BY <1>1, <1>4, <1>5 DEF OwnRootsOnly, Holds
<1> QED
  BY <1>1, <1>2, <1>3, <1>6 DEF OthersUntouched, plan

LEMMA WorkFrame ==
    ASSUME IInv, NEW p \in Applies,
           \/ Validate(p) \/ Stage(p) \/ CleanStaging(p) \/ DropBackup(p) \/ Discard(p)
    PROVE  OthersUntouched(p) /\ OwnRootsOnly(p) /\ envs' = envs
<1> USE DEF IInv, TypeOK, TypeOfControl
<1>1. UNCHANGED <<disk, plan, handles, fresh, prev, journal, parents, envs>>
  BY DEF Validate, Stage, CleanStaging, DropBackup, Discard, txn, budget
<1>2. \A q \in Applies \ {p} : pc'[q] = pc[q] /\ left'[q] = left[q]
  BY OthersStay, LoopOthers DEF Validate, Stage, CleanStaging, DropBackup, Discard
<1> QED
  BY <1>1, <1>2 DEF OthersUntouched, OwnRootsOnly, disk, plan, handles

(* Entries are changed below locked roots only.                             *)
LEMMA TreeFrame ==
    ASSUME IInv, NEW p \in Applies,
           \/ Promote(p) \/ MoveAside(p) \/ Install(p)
           \/ Undo(p) \/ PutBackup(p) \/ Prune(p)
    PROVE  OthersUntouched(p) /\ OwnRootsOnly(p) /\ envs' = envs
<1> USE DEF IInv, TypeOK, TypeOfControl, TypeOfTxn
<1>1. UNCHANGED <<ns, plan, handles, fresh, prev, envs>>
  BY DEF Promote, MoveAside, Install, Undo, PutBackup, Prune, budget
<1>2. \A q \in Applies \ {p} : pc'[q] = pc[q] /\ left'[q] = left[q] /\ journal'[q] = journal[q]
                                /\ parents'[q] = parents[q]
  <2>1. CASE Promote(p)
    <3>1. \A q \in Applies \ {p} : parents'[q] = parents[q]
      <4>1. PICK o \in Ops(p) :
               \/ parents' = parents
               \/ \E dirs, noted : MakesParents(p, o, dirs, noted)
        BY <2>1, PromoteMakes DEF MakesOnly
      <4> QED
        BY <4>1 DEF MakesParents
    <3> QED
      BY <2>1, <3>1, OthersStay DEF Promote
  <2>2. CASE MoveAside(p)
    BY <2>2, OthersStay DEF MoveAside, PutAside, Journaled
  <2>3. CASE Install(p)
    BY <2>3, OthersStay DEF Install, PutLink, PutNoLink, Journaled
  <2>4. CASE Undo(p)
    BY <2>4, OthersStay DEF Undo
  <2>5. CASE PutBackup(p)
    BY <2>5, OthersStay DEF PutBackup
  <2>6. CASE Prune(p)
    BY <2>6, OthersStay DEF Prune
  <2> QED
    BY <2>1, <2>2, <2>3, <2>4, <2>5, <2>6
<1>3. WritesUnderLock(p)
  BY PromotionWrites, RollbackWrites
<1>4. OwnRootsOnly(p)
  <2>1. ASSUME NEW i \in Inodes, tree'[i] # tree[i] PROVE flock[i] = p
    <3>1. PICK t \in locked[p] : fd[p][t] = i
      BY <1>3, <2>1 DEF WritesUnderLock
    <3> QED
      BY <3>1 DEF LocksHeld, LocksHeldBy, Holds
  <2> QED
    BY <1>1, <2>1 DEF OwnRootsOnly
<1> QED
  BY <1>1, <1>2, <1>4 DEF OthersUntouched, plan, handles

LEMMA EndFrame ==
    ASSUME IInv, NEW p \in Applies, Release(p) \/ Crash(p)
    PROVE  OthersUntouched(p) /\ OwnRootsOnly(p) /\ envs' = envs
<1> USE DEF IInv, TypeOK, TypeOfControl, TypeOfPlan, TypeOfHandles, TypeOfTxn
<1>1. tree' = tree /\ ns' = ns /\ envs' = envs
  BY DEF Release, Crash, disk, budget
<1>2. CASE Release(p)
  BY <1>1, <1>2 DEF Release, Goto, Forget, Reset, plan, handles, OthersUntouched, OwnRootsOnly
<1>3. CASE Crash(p)
  BY <1>1, <1>3 DEF Crash, Goto, Forget, Reset, OthersUntouched, OwnRootsOnly
<1> QED
  BY <1>2, <1>3

------------------------------------------------------------------------------
(* What the steps of a run do to its own records.  Nothing is locked while  *)
(* it scans.                                                                *)
LEMMA ScanRecords ==
    ASSUME IInv, RInv, NEW p \in Applies, Begin(p) \/ ReadRecord(p) \/ WalkTree(p)
    PROVE  Records(p)'
<1> USE DEF IInv, TypeOK, TypeOfControl
<1>1. UNCHANGED <<disk, handles, txn>>
  BY DEF Begin, ReadRecord, WalkTree
<1>2. pc[p] # "release" /\ pc'[p] \notin Early \cup Promoting
  BY DEF Begin, ReadRecord, WalkTree, Loop, Goto, Leave, Early, Preparing, Promoting
<1> QED
  BY <1>1, <1>2, QuietRecords DEF disk, handles, txn, TypeOfDisk

(* The plan that a run prepares for is not blocked.                         *)
LEMMA PlanRecords ==
    ASSUME IInv, RInv, NEW p \in Applies, BuildPlan(p)
    PROVE  Records(p)'
<1> USE DEF IInv, TypeOK, TypeOfControl
<1>1. UNCHANGED <<disk, handles, txn>> /\ pc[p] = "plan"
  BY DEF BuildPlan
<1>2. CASE pc'[p] # "root"
  <2>1. pc'[p] = "done"
    BY <1>2 DEF BuildPlan, Leave, Goto
  <2> QED
    BY <1>1, <2>1, QuietRecords DEF disk, handles, txn, Early, Preparing, Promoting
<1>3. CASE pc'[p] = "root"
  <2>1. ~PlanBlocked(p) /\ plan' = plan /\ left' = left
    BY <1>3 DEF BuildPlan, Leave, Goto
  <2>2. locked[p] = {} /\ left[p] = sel[p]
    BY <1>1 DEF TargetsTracked, Tracked, Unlocked
  <2>3. locked'[p] = {} /\ Remembers(p)
    BY <1>1, <2>2 DEF handles, RInv, Records
  <2>4. Remembers(p)'
    BY <1>1, <1>3, <2>2, <2>3 DEF handles, txn, Remembers
  <2>5. SameAuthority(p)' /\ Initialized(p)' /\ OwnRecords(p)' /\ StillPlanned(p)'
    BY <2>3 DEF SameAuthority, Initialized, OwnRecords, StillPlanned, Checked
  <2>6. Unblocked(p)'
    BY <2>1, <2>2, <2>3 DEF Unblocked, PlanBlocked, plan
  <2> QED
    BY <2>4, <2>5, <2>6 DEF Records
<1> QED
  BY <1>2, <1>3

(* On its way to the next lock a run keeps what it has.                     *)
LEMMA PrepareRecords ==
    ASSUME IInv, RInv, NEW p \in Applies,
           \/ LookAtRoot(p) \/ MakeRoot(p) \/ OpenRoot(p) \/ LockRoot(p) \/ LockExpires(p)
           \/ Abandon(p) \/ Unchain(p)
    PROVE  Records(p)'
<1> USE DEF IInv, TypeOK, TypeOfControl, TypeOfHandles
<1>1. UNCHANGED <<ns, plan, locked, fresh, prev>> /\ pc[p] \in Preparing
  BY DEF LookAtRoot, MakeRoot, OpenRoot, LockRoot, LockExpires, Abandon, Unchain, disk, handles,
     txn, Preparing
<1>2. \A t \in locked[p] : fd'[p][t] = fd[p][t] /\ fd[p][t] \in Inodes /\ t \in Targets
  <2>1. fd' = fd \/ \E t \in Targets : \E i : First(p, t) /\ fd' = [fd EXCEPT ![p][t] = i]
    BY DEF LookAtRoot, MakeRoot, OpenRoot, LockRoot, LockExpires, Abandon, Unchain, handles
  <2>2. \A t \in Targets : First(p, t) => t \notin locked[p]
    BY <1>1 DEF TargetsTracked, Tracked, First
  <2>3. \A t \in locked[p] : fd[p][t] \in Inodes
    BY DEF LocksHeld, LocksHeldBy, Holds
  <2> QED
    BY <2>1, <2>2, <2>3
<1>3. \/ pc'[p] \in Preparing /\ left' = left
      \/ pc'[p] \in {"undo", "settle"}
  BY DEF LookAtRoot, MakeRoot, OpenRoot, LockRoot, LockExpires, Abandon, Unchain, Goto, Fail, Preparing
<1>4. Records(p)
  BY DEF RInv
<1>5. Remembers(p)'
  BY <1>1, <1>3, <1>4 DEF Records, Remembers, Preparing
<1>6. SameAuthority(p)'
  BY <1>1, <1>2, <1>4 DEF Records, SameAuthority, Rec
<1>7. CASE pc'[p] \in Preparing /\ left' = left
  <2>1. Initialized(p)'
    BY <1>1, <1>2, <1>4, <1>7 DEF Records, Initialized, Rec, Early, Preparing, EmptyRecord
  <2>2. Unblocked(p)'
    BY <1>1, <1>4, <1>7 DEF Records, Unblocked, PlanBlocked, plan, Early
  <2>3. OwnRecords(p)' /\ StillPlanned(p)'
    BY <1>7 DEF OwnRecords, StillPlanned, Checked, Preparing, Promoting
  <2> QED
    BY <1>5, <1>6, <2>1, <2>2, <2>3 DEF Records
<1>8. CASE pc'[p] \in {"undo", "settle"}
  BY <1>5, <1>6, <1>8, ResultIsQuiet DEF Early, Preparing, Promoting
<1> QED
  BY <1>3, <1>7, <1>8

(* Of a target just locked nothing is remembered.                           *)
LEMMA OpenNamespaceRecords ==
    ASSUME IInv, RInv, NEW p \in Applies, OpenNamespace(p)
    PROVE  Records(p)'
<1> USE DEF IInv, TypeOK, TypeOfControl, TypeOfHandles, TypeOfDisk
<1>1. /\ UNCHANGED <<tree, plan, left, fd, made, txn>> /\ pc[p] = "ns"
      /\ sel' = sel /\ want' = want /\ seen' = seen /\ prev' = prev /\ fresh' = fresh
  BY DEF OpenNamespace, plan, txn
<1>2. PICK t \in Targets :
         /\ First(p, t)
         /\ \/ /\ ns' = [ns EXCEPT ![fd[p][t]].exists = TRUE]
               /\ locked' = [locked EXCEPT ![p] = @ \cup {t}]
               /\ Goto(p, "init")
            \/ /\ Goto(p, "abandon")
               /\ ns' = ns /\ locked' = locked
  BY DEF OpenNamespace
<1>3. Records(p) /\ \A u \in locked[p] : fd[p][u] \in Inodes /\ u \in Targets
  BY DEF RInv, LocksHeld, LocksHeldBy, Holds
<1>4. t \notin locked[p] /\ t \in left[p] /\ fd[p][t] \in Inodes
  BY <1>1, <1>2 DEF TargetsTracked, Tracked, Preparing, First, LocksHeld, LocksHeldBy, Holds
<1>5. prev[p][t] = NoFile /\ ~fresh[p][t]
  BY <1>1, <1>3, <1>4 DEF Records, Remembers
<1>6. CASE locked' = locked
  <2>1. ns' = ns /\ pc'[p] = "abandon"
    BY <1>2, <1>4, <1>6 DEF Goto
  <2>2. Remembers(p)' /\ SameAuthority(p)'
    BY <1>1, <1>3, <1>6, <2>1 DEF Records, Remembers, SameAuthority, Rec
  <2>3. Initialized(p)' /\ Unblocked(p)'
    BY <1>1, <1>3, <1>6, <2>1
    DEF Records, Initialized, Unblocked, PlanBlocked, Rec, Early, Preparing, EmptyRecord
  <2>4. OwnRecords(p)' /\ StillPlanned(p)'
    BY <2>1 DEF OwnRecords, StillPlanned, Checked, Promoting
  <2> QED
    BY <2>2, <2>3, <2>4 DEF Records
<1>7. CASE locked' = [locked EXCEPT ![p] = @ \cup {t}] /\ locked' # locked
  <2>1. /\ ns' = [ns EXCEPT ![fd[p][t]].exists = TRUE] /\ pc'[p] = "init"
        /\ locked'[p] = locked[p] \cup {t}
    BY <1>2, <1>7 DEF Goto
  <2>2. \A i \in Inodes : /\ ns'[i].managed = ns[i].managed
                          /\ ns[i].exists => ns'[i].exists
    BY <2>1 DEF Namespace
  <2>3. ns'[fd[p][t]].exists
    BY <1>4, <2>1 DEF Namespace
  <2>4. \A u \in Targets : First(p, u) => u = t
    BY <1>2, FirstUnique
  <2>5. First(p, t)' /\ \A u \in Targets : First(p, u)' => u = t
    BY <1>1, <1>2, <2>4 DEF First
  <2>6. Remembers(p)'
    BY <1>1, <1>3, <1>5, <2>1, <2>5 DEF Records, Remembers
  <2>7. SameAuthority(p)'
    BY <1>1, <1>3, <1>5, <2>1, <2>2 DEF Records, SameAuthority, Rec
  <2>8. Initialized(p)'
    BY <1>1, <1>3, <2>1, <2>2, <2>3, <2>5
    DEF Records, Initialized, Rec, Early, Preparing, EmptyRecord
  <2>9. Unblocked(p)'
    BY <1>1, <1>3, <1>4, <2>1 DEF Records, Unblocked, PlanBlocked, Early, Preparing
  <2>10. OwnRecords(p)' /\ StillPlanned(p)'
    BY <2>1 DEF OwnRecords, StillPlanned, Checked, Promoting
  <2> QED
    BY <2>6, <2>7, <2>8, <2>9, <2>10 DEF Records
<1> QED
  BY <1>2, <1>6, <1>7

(* A record that a run reads or writes first is remembered as what it was:  *)
(* its own empty one, or that of the authority that is there.               *)
LEMMA InitMetadataRecords ==
    ASSUME IInv, RInv, NEW p \in Applies, InitMetadata(p)
    PROVE  Records(p)'
<1> USE DEF IInv, TypeOK, TypeOfControl, TypeOfHandles, TypeOfDisk, TypeOfTxn
<1>1. /\ UNCHANGED <<tree, plan, fd, locked, made>> /\ pc[p] = "init"
      /\ sel' = sel /\ want' = want /\ seen' = seen
  BY DEF InitMetadata, plan, handles
<1>2. PICK t \in Targets :
         /\ First(p, t)
         /\ \/ /\ ns[fd[p][t]].managed # NoFile
               /\ ns' = ns /\ fresh' = fresh
               /\ prev' = [prev EXCEPT ![p][t] = ns[fd[p][t]].managed]
            \/ /\ ns[fd[p][t]].managed = NoFile
               /\ ns' = [ns EXCEPT ![fd[p][t]].managed = EmptyRecord(p)]
               /\ prev' = prev
               /\ fresh' = [fresh EXCEPT ![p][t] = TRUE] \/ (fresh' = fresh /\ Fail(p))
            \/ /\ ns[fd[p][t]].managed = NoFile
               /\ ns' = [ns EXCEPT ![fd[p][t]].managed = NoFile]
               /\ prev' = prev /\ fresh' = fresh /\ Fail(p)
            \/ ns' = ns /\ prev' = prev /\ fresh' = fresh /\ Fail(p)
         /\ Loop(p, t, "root", "validate", locked[p]) \/ Fail(p)
  BY DEF InitMetadata
<1>3. Records(p) /\ \A u \in locked[p] : fd[p][u] \in Inodes /\ u \in Targets
  BY DEF RInv, LocksHeld, LocksHeldBy, Holds
<1>4. t \in locked[p] /\ left[p] \cap locked[p] = {t}
  BY <1>1, <1>2 DEF TargetsTracked, Tracked
<1>5. prev[p][t] = NoFile /\ ~fresh[p][t]
  BY <1>1, <1>2, <1>3 DEF Records, Remembers
<1>6. \A u \in locked[p] : u # t => fd[p][u] # fd[p][t]
  BY <1>3, <1>4, ReconcilerAssumption DEF InodesApart
<1>7. \A u \in locked[p] : u # t => /\ ns'[fd[p][u]] = ns[fd[p][u]]
                                    /\ prev'[p][u] = prev[p][u] /\ fresh'[p][u] = fresh[p][u]
  BY <1>2, <1>3, <1>4, <1>6
<1>8. \A u \in Targets : u # t => prev'[p][u] = prev[p][u] /\ fresh'[p][u] = fresh[p][u]
  BY <1>2
<1>9. EmptyRecord(p).cache = CacheRoot[p] /\ EmptyRecord(p) # NoFile
  <2>1. EmptyRecord(p) \in Record /\ NoFile \notin Record
    BY ReconcilerAssumption, RecordAssumption DEF EmptyRecord, Record, NoLinks, Links
  <2> QED
    BY <2>1 DEF EmptyRecord
<1>10. pc'[p] \in {"root", "validate", "undo", "settle"}
  BY <1>2 DEF Loop, Goto, Fail
<1>11. Remembers(p)'
  BY <1>1, <1>3, <1>4, <1>8, <1>10 DEF Records, Remembers
<1>12. prev'[p][t] # NoFile /\ Rec(p, t)' # NoFile => prev'[p][t] = Rec(p, t)'
  BY <1>1, <1>2, <1>4, <1>5 DEF Rec
<1>13. SameAuthority(p)'
  BY <1>1, <1>3, <1>7, <1>12 DEF Records, SameAuthority, Rec
<1>14. CASE pc'[p] \in {"undo", "settle"}
  BY <1>11, <1>13, <1>14, ResultIsQuiet DEF Early, Preparing, Promoting
<1>15. CASE pc'[p] \in {"root", "validate"}
  <2>1. ~Fail(p)
    BY <1>15 DEF Fail, Goto
  <2>2. /\ Loop(p, t, "root", "validate", locked[p])
        /\ \/ left'[p] = left[p] \ {t} /\ pc'[p] = "root"
           \/ left'[p] = locked[p] /\ pc'[p] = "validate"
    BY <1>2, <2>1 DEF Loop, Goto
  <2>3. Rec(p, t)' # NoFile /\ (fresh'[p][t] => Rec(p, t)' = EmptyRecord(p))
    BY <1>1, <1>2, <1>3, <1>4, <1>5, <1>9, <2>1 DEF Rec, Namespace
  <2>4. ns'[fd[p][t]].exists
    <3>1. ns[fd[p][t]].exists /\ fd[p][t] \in Inodes
      BY <1>1, <1>3, <1>4 DEF Records, Initialized, Early
    <3>2. CASE ns' = ns
      BY <3>1, <3>2
    <3>3. CASE ns' # ns
      <4>1. PICK r : ns' = [ns EXCEPT ![fd[p][t]].managed = r]
        BY <1>2, <3>3
      <4>2. ns'[fd[p][t]] = [ns[fd[p][t]] EXCEPT !.managed = r]
        BY <3>1, <4>1
      <4> QED
        BY <3>1, <4>2 DEF Namespace
    <3> QED
      BY <3>2, <3>3
  <2>5. ASSUME NEW u \in locked[p]
        PROVE  /\ ns'[fd[p][u]].exists
               /\ Rec(p, u)' # NoFile /\ (fresh'[p][u] => Rec(p, u)' = EmptyRecord(p))
    <3>1. CASE u = t
      BY <2>3, <2>4, <3>1
    <3>2. CASE u # t
      <4>1. ~First(p, u)
        BY <1>2, <1>3, <3>2, FirstUnique
      <4> QED
        BY <1>1, <1>3, <1>7, <3>2, <4>1 DEF Records, Initialized, Rec, Early
    <3> QED
      BY <3>1, <3>2
  <2>6. Initialized(p)'
    BY <1>1, <2>5 DEF Initialized, EmptyRecord, Rec
  <2>7. Unblocked(p)'
    BY <1>1, <1>3, <2>2 DEF Records, Unblocked, PlanBlocked, Early
  <2>8. Checked(p)' = {}
    BY <1>1, <2>2 DEF Checked, Promoting
  <2> QED
    BY <1>11, <1>13, <2>6, <2>7, <2>8 DEF Records, OwnRecords, StillPlanned
<1> QED
  BY <1>10, <1>14, <1>15

(* A target that passes validation has a record of this run's authority:    *)
(* the one the run has just written, or the one the plan was not blocked    *)
(* for.                                                                     *)
LEMMA ValidatedRecord ==
    ASSUME IInv, RInv, NEW p \in Applies, pc[p] = "validate", NEW t \in locked[p],
           StillCurrent(p, t)
    PROVE  Rec(p, t) # NoFile /\ Rec(p, t).cache = CacheRoot[p]
<1> USE DEF IInv, TypeOK, TypeOfControl, TypeOfHandles, TypeOfDisk, TypeOfTxn
<1> DEFINE i == fd[p][t]
<1>1. t \in Targets /\ i \in Inodes /\ t \in sel[p] /\ ~PlanBlocked(p)
  BY DEF RInv, Records, Unblocked, Early, LocksHeld, LocksHeldBy, Holds
<1>2. ns[i].exists /\ Rec(p, t) # NoFile /\ (fresh[p][t] => Rec(p, t) = EmptyRecord(p))
  BY DEF RInv, Records, Initialized, Early
<1>3. CASE fresh[p][t]
  BY <1>2, <1>3 DEF EmptyRecord
<1>4. CASE ~fresh[p][t]
  <2>1. Current(i).cache = Rec(p, t).cache
    BY <1>2 DEF Current, Scan, RecordedCache, HasRecord, Rec
  <2>2. seen[p][t].cache = Current(i).cache
    BY <1>4 DEF StillCurrent, AsReviewed, Current, Scan
  <2>3. seen[p][t].cache \in {NoCache, CacheRoot[p]}
    BY <1>1 DEF PlanBlocked, Blocked, ForeignCache
  <2>4. Rec(p, t) \in Record
    BY <1>1, <1>2 DEF Rec, Namespace
  <2>5. Rec(p, t).cache # NoCache
    BY <2>4, PlannerAssumption DEF Record
  <2> QED
    BY <1>2, <2>1, <2>2, <2>3, <2>5
<1> QED
  BY <1>3, <1>4

LEMMA ValidateRecords ==
    ASSUME IInv, RInv, NEW p \in Applies, Validate(p)
    PROVE  Records(p)'
<1> USE DEF IInv, TypeOK, TypeOfControl, TypeOfHandles
<1>1. /\ UNCHANGED <<disk, plan, handles, txn, budget>> /\ pc[p] = "validate"
      /\ ns' = ns /\ tree' = tree /\ fd' = fd /\ locked' = locked /\ made' = made
      /\ sel' = sel /\ want' = want /\ seen' = seen /\ envs' = envs
      /\ fresh' = fresh /\ prev' = prev /\ journal' = journal /\ parents' = parents
  BY DEF Validate, disk, plan, handles, txn, budget
<1>2. PICK t \in Targets :
         /\ First(p, t)
         /\ (StillCurrent(p, t) /\ Loop(p, t, "validate", "stage", {})) \/ Fail(p)
  BY DEF Validate
<1>3. Records(p) /\ \A u \in locked[p] : u \in Targets
  BY DEF RInv
<1>4. left[p] \subseteq locked[p] /\ t \in left[p]
  BY <1>1, <1>2 DEF TargetsTracked, Tracked, Looping, First
<1>5. CASE Fail(p)
  <2>1. pc'[p] \notin Early \cup Promoting
    BY <1>5 DEF Fail, Goto, Early, Preparing, Promoting
  <2> QED
    BY <1>1, <2>1, QuietRecords
<1>6. CASE StillCurrent(p, t) /\ Loop(p, t, "validate", "stage", {})
  <2>1. left'[p] = left[p] \ {t} /\ pc'[p] \in {"validate", "stage"}
        /\ (pc'[p] = "stage" => left'[p] = {})
    BY <1>6 DEF Loop, Goto
  <2>2. Remembers(p)' /\ SameAuthority(p)'
    BY <1>1, <1>3, <2>1 DEF Records, Remembers, SameAuthority, Rec
  <2>3. Initialized(p)'
    BY <1>1, <1>3, <2>1 DEF Records, Initialized, Rec, EmptyRecord, Early
  <2>4. Unblocked(p)'
    BY <1>1, <1>3, <1>4, <2>1 DEF Records, Unblocked, PlanBlocked, Early
  <2>5. Checked(p)' \subseteq Checked(p) \cup {t}
    BY <1>1, <2>1 DEF Checked, Promoting
  <2>6. Rec(p, t) # NoFile /\ Rec(p, t).cache = CacheRoot[p]
    BY <1>1, <1>4, <1>6, ValidatedRecord
  <2>7. OwnRecords(p)'
    BY <1>1, <1>3, <2>5, <2>6 DEF Records, OwnRecords, Rec
  <2>8. AsPlannedFor(p, t)
    BY <1>6 DEF StillCurrent, AsPlannedFor
  <2>9. StillPlanned(p)'
    BY <1>1, <1>3, <2>5, <2>8 DEF Records, StillPlanned, AsPlannedFor, Current, Unchanged
  <2> QED
    BY <2>2, <2>3, <2>4, <2>7, <2>9 DEF Records
<1> QED
  BY <1>2, <1>5, <1>6

(* Links are promoted below targets whose records stay.                     *)
LEMMA PromotionRecords ==
    ASSUME IInv, RInv, NEW p \in Applies,
           Stage(p) \/ Promote(p) \/ MoveAside(p) \/ Install(p) \/ CleanStaging(p)
    PROVE  Records(p)'
<1> USE DEF IInv, TypeOK, TypeOfControl, TypeOfHandles, TypeOfTxn
<1>1. /\ ns' = ns /\ fd' = fd /\ locked' = locked /\ made' = made
      /\ sel' = sel /\ want' = want /\ seen' = seen /\ envs' = envs
      /\ fresh' = fresh /\ prev' = prev
  BY DEF Stage, Promote, MoveAside, Install, CleanStaging, disk, plan, handles, txn, budget
<1>2. pc[p] \in Promoting /\ pc[p] \notin Early \cup {"release"}
  BY DEF Stage, Promote, MoveAside, Install, CleanStaging, Promoting, Early, Preparing
<1>3. Records(p)
  BY DEF RInv
<1>4. Remembers(p)' /\ SameAuthority(p)'
  <2>1. pc'[p] # "init"
    BY DEF Stage, Promote, MoveAside, Install, PutAside, PutLink, PutNoLink, Journaled,
       CleanStaging, Fail, Goto
  <2> QED
    BY <1>1, <1>2, <1>3, <2>1 DEF Records, Remembers, SameAuthority, Rec
<1>5. \/ pc'[p] \in {"undo", "settle", "move", "install", "clean", "publish"}
      \/ pc'[p] = "promote" /\ Stage(p) /\ tree' = tree /\ journal' = journal /\ parents' = parents
      \/ pc'[p] = "promote" /\ journal'[p] # {}
  <2>1. CASE Stage(p)
    BY <2>1 DEF Stage, Fail, Goto, disk, txn
  <2>2. CASE Promote(p)
    BY <2>2 DEF Promote, Fail, Goto
  <2>3. CASE MoveAside(p) \/ Install(p)
    <3>1. PICK o : Journaled(p, o) \/ Fail(p) \/ Goto(p, "install")
      BY <2>3 DEF MoveAside, Install, PutAside, PutLink, PutNoLink
    <3>2. Journaled(p, o) => journal'[p] # {} /\ pc'[p] \in {"clean", "promote", "undo", "settle"}
      BY DEF Journaled, Fail, Goto
    <3> QED
      BY <3>1, <3>2 DEF Fail, Goto
  <2>4. CASE CleanStaging(p)
    BY <2>4 DEF CleanStaging, Fail, Goto
  <2> QED
    BY <2>1, <2>2, <2>3, <2>4
<1>6. pc'[p] \notin Early
  BY <1>5 DEF Early, Preparing
<1>7. Initialized(p)' /\ Unblocked(p)'
  BY <1>6 DEF Initialized, Unblocked
<1>8. Checked(p)' \subseteq Checked(p) /\ Checked(p) = locked[p]
  BY <1>1, <1>2, <1>6 DEF Checked, Early
<1>9. OwnRecords(p)'
  BY <1>1, <1>3, <1>8 DEF Records, OwnRecords, Rec
<1>10. StillPlanned(p)'
  <2>1. CASE pc'[p] = "promote" /\ Stage(p) /\ tree' = tree /\ journal' = journal /\ parents' = parents
    <3>1. pc[p] = "stage"
      BY <2>1 DEF Stage
    <3> QED
      BY <1>1, <1>3, <1>8, <2>1, <3>1 DEF Records, StillPlanned, AsPlannedFor, Current
  <2>2. CASE pc'[p] = "promote" /\ journal'[p] # {}
    BY <2>2 DEF StillPlanned, Unchanged
  <2>3. CASE pc'[p] \in {"undo", "settle", "move", "install", "clean", "publish"}
    BY <2>3 DEF StillPlanned
  <2> QED
    BY <1>5, <2>1, <2>2, <2>3
<1> QED
  BY <1>4, <1>7, <1>9, <1>10 DEF Records

(* A published record names the authority of the one it replaces.           *)
LEMMA PublishRecords ==
    ASSUME IInv, RInv, NEW p \in Applies, Publish(p)
    PROVE  Records(p)'
<1> USE DEF IInv, TypeOK, TypeOfControl, TypeOfHandles, TypeOfDisk, TypeOfPlan
<1>1. /\ fd' = fd /\ locked' = locked /\ fresh' = fresh /\ prev' = prev
      /\ pc[p] = "publish"
  BY DEF Publish, handles, txn
<1>2. PICK t \in Targets :
         /\ First(p, t)
         /\ ns' = ns \/ ns' = [ns EXCEPT ![fd[p][t]].managed = Published(p, t)]
         /\ Loop(p, t, "publish", "drop", locked[p]) \/ Fail(p)
  BY DEF Publish
<1>3. Records(p) /\ \A u \in locked[p] : fd[p][u] \in Inodes /\ u \in Targets
  BY DEF RInv, LocksHeld, LocksHeldBy, Holds
<1>4. Published(p, t) # NoFile /\ Published(p, t).cache = CacheRoot[p]
  <2>1. Published(p, t) \in Record
    BY ReconcilerAssumption DEF Published, Record
  <2> QED
    BY <2>1, RecordAssumption DEF Published
<1>5. Checked(p) = locked[p]
  BY <1>1 DEF Checked, Promoting
<1>6. ASSUME NEW u \in locked[p]
      PROVE  Rec(p, u)' # NoFile /\ Rec(p, u)'.cache = CacheRoot[p]
  <2>1. Rec(p, u) # NoFile /\ Rec(p, u).cache = CacheRoot[p]
    BY <1>3, <1>5 DEF Records, OwnRecords
  <2>2. Rec(p, u)' \in {Rec(p, u), Published(p, t)}
    <3>1. Rec(p, u)' = ns'[fd[p][u]].managed /\ fd[p][u] \in Inodes
      BY <1>1, <1>3 DEF Rec
    <3>2. CASE ns' = ns
      BY <3>1, <3>2 DEF Rec
    <3>3. CASE ns' = [ns EXCEPT ![fd[p][t]].managed = Published(p, t)]
      BY <3>1, <3>3 DEF Rec, Namespace
    <3> QED
      BY <1>2, <3>2, <3>3
  <2> QED
    BY <1>4, <2>1, <2>2
<1>7. SameAuthority(p)'
  <2>1. \A u \in locked[p] : prev[p][u] # NoFile => prev[p][u].cache = CacheRoot[p]
    BY <1>3, <1>5 DEF Records, SameAuthority, OwnRecords
  <2> QED
    BY <1>1, <1>6, <2>1 DEF SameAuthority
<1>8. pc'[p] \in {"publish", "drop", "undo", "settle"}
  BY <1>2 DEF Loop, Goto, Fail
<1>9. Remembers(p)'
  BY <1>1, <1>3, <1>8 DEF Records, Remembers
<1>10. Initialized(p)' /\ Unblocked(p)' /\ StillPlanned(p)'
  BY <1>8 DEF Initialized, Unblocked, StillPlanned, Early, Preparing
<1>11. OwnRecords(p)'
  BY <1>1, <1>6 DEF OwnRecords, Checked
<1> QED
  BY <1>7, <1>9, <1>10, <1>11 DEF Records

(* A record put back is the remembered one.                                 *)
LEMMA RestoreRecords ==
    ASSUME IInv, RInv, NEW p \in Applies, RestoreMetadata(p)
    PROVE  Records(p)'
<1> USE DEF IInv, TypeOK, TypeOfControl, TypeOfHandles, TypeOfDisk, TypeOfTxn
<1>1. /\ fd' = fd /\ locked' = locked /\ fresh' = fresh /\ prev' = prev
      /\ pc[p] = "restore"
  BY DEF RestoreMetadata, handles
<1>2. PICK t \in Targets :
         /\ First(p, t)
         /\ ns' = ns \/ ns' = [ns EXCEPT ![fd[p][t]].managed = prev[p][t]]
         /\ Loop(p, t, "restore", "discard", locked[p])
  BY DEF RestoreMetadata, OldRecord
<1>3. Records(p) /\ \A u \in locked[p] : fd[p][u] \in Inodes /\ u \in Targets
  BY DEF RInv, LocksHeld, LocksHeldBy, Holds
<1>4. t \in locked[p]
  BY <1>1, <1>2 DEF TargetsTracked, Tracked, Looping, First
<1>5. pc'[p] \in {"restore", "discard"}
  BY <1>2 DEF Loop, Goto
<1>6. Remembers(p)'
  BY <1>1, <1>3, <1>5 DEF Records, Remembers
<1>7. SameAuthority(p)'
  <2>1. ASSUME NEW u \in locked[p], prev[p][u] # NoFile, Rec(p, u)' # NoFile
        PROVE  prev[p][u].cache = Rec(p, u)'.cache
    <3>1. CASE u = t /\ ns' # ns
      BY <1>1, <1>2, <1>3, <1>4, <3>1 DEF Rec, Namespace
    <3>2. CASE u # t \/ ns' = ns
      <4>1. u # t => fd[p][u] # fd[p][t]
        BY <1>3, <1>4, ReconcilerAssumption DEF InodesApart
      <4>2. Rec(p, u)' = Rec(p, u)
        BY <1>1, <1>2, <1>3, <1>4, <3>2, <4>1 DEF Rec
      <4> QED
        BY <1>3, <2>1, <4>2 DEF Records, SameAuthority
    <3> QED
      BY <3>1, <3>2
  <2> QED
    BY <1>1, <2>1 DEF SameAuthority
<1> QED
  BY <1>5, <1>6, <1>7, ResultIsQuiet DEF Early, Preparing, Promoting

(* The other steps behind the last record, and those of the rollback.       *)
LEMMA AftermathRecords ==
    ASSUME IInv, RInv, NEW p \in Applies,
           \/ DropBackup(p) \/ Settle(p) \/ Undo(p) \/ PutBackup(p) \/ Discard(p)
           \/ Prune(p) \/ Report(p)
    PROVE  Records(p)'
<1> USE DEF IInv, TypeOK, TypeOfControl, TypeOfDisk
<1>1. /\ fd' = fd /\ locked' = locked /\ fresh' = fresh /\ prev' = prev
      /\ pc[p] # "release"
  BY DEF DropBackup, Settle, Undo, PutBackup, Discard, Prune, Report, handles, txn
<1>2. pc'[p] \notin Early \cup Promoting
  BY DEF DropBackup, Settle, Undo, PutBackup, Discard, Prune, Report, Loop, Goto, Fail,
     Early, Preparing, Promoting
<1>3. ASSUME NEW i \in Inodes PROVE ns'[i].managed \in {ns[i].managed, NoFile}
  <2>1. \/ ns' = ns
        \/ \E j : \/ ns' = [ns EXCEPT ![j].failure = TRUE]
                  \/ ns' = [ns EXCEPT ![j] = Emptied(j)]
                  \/ ns' = [ns EXCEPT ![j].managed = NoFile]
    <3>1. CASE Settle(p)
      BY <3>1 DEF Settle
    <3>2. CASE Report(p)
      BY <3>2 DEF Report
    <3>3. CASE ~Settle(p) /\ ~Report(p)
      BY <3>3 DEF DropBackup, Undo, PutBackup, Discard, Prune, disk
    <3> QED
      BY <3>1, <3>2, <3>3
  <2> QED
    BY <2>1, EmptiedTyped DEF Namespace
<1> QED
  BY <1>1, <1>2, <1>3, QuietRecords

(* A run that ends forgets.                                                 *)
LEMMA EndRecords ==
    ASSUME IInv, RInv, NEW p \in Applies, Release(p) \/ Crash(p)
    PROVE  Records(p)'
<1> USE DEF IInv, TypeOK, TypeOfControl, TypeOfHandles, TypeOfTxn
<1>1. ns' = ns
  BY DEF Release, Crash, disk
<1>2. CASE pc'[p] = "release"
  <2>1. PICK t \in Targets : /\ fd' = [fd EXCEPT ![p][t] = NoInode]
                             /\ locked' = [locked EXCEPT ![p] = @ \ {t}]
                             /\ prev' = prev
    BY <1>2 DEF Release, Crash, Goto
  <2>2. \A u \in locked'[p] : u \in locked[p] /\ u \in Targets /\ fd'[p][u] = fd[p][u]
    BY <2>1
  <2>3. SameAuthority(p)'
    BY <1>1, <2>1, <2>2 DEF RInv, Records, SameAuthority, Rec
  <2>4. Remembers(p)'
    BY <1>2 DEF Remembers
  <2> QED
    BY <1>2, <2>3, <2>4, ResultIsQuiet DEF Early, Preparing, Promoting
<1>3. CASE pc'[p] # "release"
  <2>1. pc'[p] = "done" /\ Reset(p)
    BY <1>3 DEF Release, Crash, Goto
  <2>2. \A t \in Targets : prev'[p][t] = NoFile /\ ~fresh'[p][t]
    BY <2>1 DEF Reset
  <2>3. locked'[p] \subseteq Targets
    BY DEF Release, Crash, handles
  <2> QED
    BY <2>1, <2>2, <2>3, ResultIsQuiet DEF Remembers, SameAuthority, Early, Preparing, Promoting
<1> QED
  BY <1>2, <1>3

(* Users write entries, not records, and are counted.                       *)
LEMMA UserRecords ==
    ASSUME IInv, RInv, UserStep PROVE RInv'
<1> USE DEF IInv, TypeOK, TypeOfBudget
<1>1. /\ ns' = ns /\ pc' = pc /\ left' = left /\ sel' = sel /\ want' = want /\ seen' = seen
      /\ fd' = fd /\ locked' = locked /\ fresh' = fresh /\ prev' = prev
  BY DEF UserStep, plan, control, handles, txn
<1>2. envs' # 0
  BY DEF UserStep
<1>3. ASSUME NEW p \in Applies PROVE Records(p)'
  <2>1. Records(p)
    BY DEF RInv
  <2>2. StillPlanned(p)'
    BY <1>2 DEF StillPlanned
  <2> QED
    BY <1>1, <2>1, <2>2 DEF Records, Remembers, SameAuthority, Initialized, Unblocked, PlanBlocked,
       OwnRecords, Checked, Rec, First, EmptyRecord
<1> QED
  BY <1>3 DEF RInv

------------------------------------------------------------------------------
LEMMA StepRecords ==
    ASSUME IInv, RInv, NEW p \in Applies, Begin(p) \/ Step(p) \/ Crash(p)
    PROVE  RInv'
<1>1. OthersUntouched(p) /\ OwnRootsOnly(p) /\ envs' = envs
  BY ScanFrame, PrepareFrame, NamespaceFrame, WorkFrame, TreeFrame, EndFrame DEF Step
<1>2. Records(p)'
  BY ScanRecords, PlanRecords, PrepareRecords, OpenNamespaceRecords, InitMetadataRecords,
     ValidateRecords, PromotionRecords, PublishRecords, RestoreRecords, AftermathRecords,
     EndRecords
  DEF Step
<1>3. \A q \in Applies \ {p} : Records(q)'
  BY <1>1, OthersRecords
<1> QED
  BY <1>2, <1>3 DEF RInv

LEMMA RecordsInit == Init => RInv
BY DEF Init, RInv, Records, Remembers, SameAuthority, Initialized, Unblocked, OwnRecords,
   StillPlanned, Checked, Early, Preparing, Promoting

LEMMA RecordsNext == IInv /\ RInv /\ [Next]_vars => RInv'
<1> SUFFICES ASSUME IInv, RInv, [Next]_vars PROVE RInv'
  OBVIOUS
<1>1. CASE \E p \in Applies : Begin(p) \/ Step(p) \/ Crash(p)
  BY <1>1, StepRecords
<1>2. CASE UserStep
  BY <1>2, UserRecords
<1>3. CASE UNCHANGED vars
  BY <1>3 DEF vars, disk, plan, control, handles, txn, budget, RInv, Records, Remembers,
     SameAuthority, Initialized, Unblocked, PlanBlocked, OwnRecords, Checked, StillPlanned,
     AsPlannedFor, Current, Unchanged, Rec, First, EmptyRecord
<1> QED
  BY <1>1, <1>2, <1>3 DEF Next, Finished

(* What every run knows of the records and trees of its locked targets, in  *)
(* every reachable state of _prepare_lock, validation and promotion.        *)
THEOREM RecordsAreKnown == Spec => []RInv
<1> QED
  BY InvariantInit, InvariantNext, RecordsInit, RecordsNext, PTL DEF Spec

(* The plan a run carries out is the one that was reviewed: from validation *)
(* until its first change every target is as it was when it was planned     *)
(* for, whatever other runs did in between, as long as users keep away      *)
(* (_fresh_fingerprint under the locks of _prepare_lock).                   *)
THEOREM ReviewedPlanIsCurrent == Spec => [](envs = 0 => PlanIsCurrent)
<1>1. IInv /\ RInv => (envs = 0 => PlanIsCurrent)
  <2> SUFFICES ASSUME IInv, RInv, envs = 0, NEW p \in Applies,
                      pc[p] \in {"stage", "promote"}, Unchanged(p), NEW t \in sel[p]
               PROVE  t \in locked[p] /\ AsPlannedFor(p, t)
    BY DEF PlanIsCurrent
  <2>1. t \in locked[p]
    BY DEF IInv, TargetsTracked, Tracked, Working
  <2>2. t \in Checked(p)
    BY <2>1 DEF Checked, Promoting
  <2> QED
    BY <2>1, <2>2 DEF RInv, Records, StillPlanned
<1> QED
  BY <1>1, Invariance, RecordsAreKnown, PTL

(* Records are written by three steps; the others at most remove one.       *)
LEMMA RecordsOnlyGo ==
    ASSUME IInv, NEW p \in Applies, Begin(p) \/ Step(p) \/ Crash(p), NEW i \in Inodes,
           ~(InitMetadata(p) \/ Publish(p) \/ RestoreMetadata(p))
    PROVE  ns'[i].managed \in {ns[i].managed, NoFile}
<1> USE DEF IInv, TypeOK, TypeOfDisk, TypeOfHandles
<1>1. \/ ns' = ns
      \/ \E j : \/ ns' = [ns EXCEPT ![j].failure = TRUE]
                \/ ns' = [ns EXCEPT ![j].exists = TRUE]
                \/ ns' = [ns EXCEPT ![j] = Emptied(j)]
                \/ ns' = [ns EXCEPT ![j].managed = NoFile]
  <2>1. CASE Settle(p)
    BY <2>1 DEF Settle
  <2>2. CASE Report(p)
    BY <2>2 DEF Report
  <2>3. CASE OpenNamespace(p)
    BY <2>3 DEF OpenNamespace
  <2>4. CASE ~(Settle(p) \/ Report(p) \/ OpenNamespace(p))
    BY <2>4 DEF Step, Begin, ReadRecord, WalkTree, BuildPlan, LookAtRoot, MakeRoot, OpenRoot,
       LockRoot, LockExpires, Abandon, Unchain, Validate, Stage, Promote, MoveAside, Install,
       CleanStaging, DropBackup, Undo, PutBackup, Discard, Prune, Release, Crash, disk
  <2> QED
    BY <2>1, <2>2, <2>3, <2>4
<1>2. ns'[i].managed \in {ns[i].managed, NoFile}
  <2>1. \/ ns'[i] = ns[i]
        \/ ns'[i] = [ns[i] EXCEPT !.failure = TRUE]
        \/ ns'[i] = [ns[i] EXCEPT !.exists = TRUE]
        \/ ns'[i] = Emptied(i)
        \/ ns'[i] = [ns[i] EXCEPT !.managed = NoFile]
    BY <1>1
  <2>2. ns[i] \in Namespace
    OBVIOUS
  <2> QED
    BY <2>1, <2>2, EmptiedTyped DEF Namespace
<1> QED
  BY <1>2

(* The record of one step: kept, made from none, or of the same authority.  *)
LEMMA AuthorityStep ==
    ASSUME IInv, RInv, NEW p \in Applies, Begin(p) \/ Step(p) \/ Crash(p), NEW i \in Inodes,
           ns[i].managed # NoFile, ns'[i].managed # NoFile
    PROVE  ns'[i].managed.cache = ns[i].managed.cache
<1> USE DEF IInv, TypeOK, TypeOfDisk, TypeOfHandles
<1>1. CASE InitMetadata(p)
  <2>1. PICK t \in Targets : \/ ns' = ns
                             \/ /\ ns[fd[p][t]].managed = NoFile
                                /\ \E r : ns' = [ns EXCEPT ![fd[p][t]].managed = r]
    BY <1>1 DEF InitMetadata
  <2>2. ns'[i] = ns[i]
    BY <2>1
  <2> QED
    BY <2>2
<1>2. CASE Publish(p)
  <2>1. PICK t \in Targets :
           First(p, t) /\ (ns' = ns \/ ns' = [ns EXCEPT ![fd[p][t]].managed = Published(p, t)])
    BY <1>2 DEF Publish
  <2>2. t \in locked[p] /\ pc[p] = "publish"
    BY <1>2, <2>1 DEF Publish, TargetsTracked, Tracked, Looping, First
  <2>3. Rec(p, t).cache = CacheRoot[p]
    BY <2>2 DEF RInv, Records, OwnRecords, Checked, Promoting
  <2>4. Published(p, t).cache = CacheRoot[p]
    BY DEF Published
  <2>5. ns'[i].managed = ns[i].managed \/ (i = fd[p][t] /\ ns'[i].managed = Published(p, t))
    BY <2>1 DEF Namespace
  <2> QED
    BY <2>3, <2>4, <2>5 DEF Rec
<1>3. CASE RestoreMetadata(p)
  <2>1. PICK t \in Targets :
           First(p, t) /\ (ns' = ns \/ ns' = [ns EXCEPT ![fd[p][t]].managed = prev[p][t]])
    BY <1>3 DEF RestoreMetadata, OldRecord
  <2>2. t \in locked[p]
    BY <1>3, <2>1 DEF RestoreMetadata, TargetsTracked, Tracked, Looping, First
  <2>3. prev[p][t] # NoFile /\ Rec(p, t) # NoFile => prev[p][t].cache = Rec(p, t).cache
    BY <2>2 DEF RInv, Records, SameAuthority
  <2> QED
    BY <2>1, <2>3 DEF Rec, Namespace
<1>4. CASE ~(InitMetadata(p) \/ Publish(p) \/ RestoreMetadata(p))
  BY <1>4, RecordsOnlyGo
<1> QED
  BY <1>1, <1>2, <1>3, <1>4

(* No schedule, error, kill or user makes a run of one authority take over  *)
(* the record of another: the check of the plan still holds when records    *)
(* are published, and a rollback puts nothing else back.                    *)
THEOREM AuthorityStays == Spec => AuthorityKeepsTarget
<1>1. ASSUME IInv, RInv, [Next]_vars
      PROVE  [\A i \in Inodes : ns[i].managed # NoFile /\ ns'[i].managed # NoFile
                 => ns'[i].managed.cache = ns[i].managed.cache]_vars
  <2>1. SUFFICES ASSUME Next, NEW i \in Inodes,
                        ns[i].managed # NoFile, ns'[i].managed # NoFile
                 PROVE  ns'[i].managed.cache = ns[i].managed.cache
    BY <1>1
  <2>2. CASE UserStep \/ Finished
    BY <2>2 DEF UserStep, Finished, vars, disk
  <2>3. CASE \E p \in Applies : Begin(p) \/ Step(p) \/ Crash(p)
    BY <1>1, <2>1, <2>3, AuthorityStep
  <2> QED
    BY <2>1, <2>2, <2>3 DEF Next
<1> QED
  BY <1>1, Invariance, RecordsAreKnown, PTL DEF Spec, AuthorityKeepsTarget

------------------------------------------------------------------------------
(* The verifier and the planner, which compare a scanned target with its   *)
(* desired links each in its own way, come to the same result, for every   *)
(* tree, record, configuration and contents of the cache.                  *)

(* What a scan guarantees of its view: managed links are not among the      *)
(* unmanaged entries, and only directories are above them.                  *)
SoundView(view) ==
    /\ view.entries \in Links
    /\ \A x \in Managed(view.entries) :
          /\ view.unmanaged[x].kind = "absent"
          /\ \A y \in Above[x] : /\ y \notin Managed(view.entries)
                                 /\ view.unmanaged[y].kind \in {"absent", "dir"}

LEMMA ScanIsSound ==
    ASSUME NEW n \in Namespace, NEW nodes \in [Paths -> Node], Scannable(n, nodes)
    PROVE  SoundView(Scan(n, nodes))
<1> DEFINE links == RecordedLinks(n)  view == Scan(n, nodes)
<1>1. links \in Links
  BY DEF RecordedLinks, HasRecord, Namespace, Record, Links, NoLinks
<1>2. view.entries = links /\ view.unmanaged = Unmanaged(links, nodes)
  BY DEF Scan
<1>3. LinksSound(links, nodes)
  BY DEF Scannable
<1>4. ASSUME NEW x \in Managed(links)
      PROVE  /\ view.unmanaged[x].kind = "absent"
             /\ \A y \in Above[x] : y \notin Managed(links)
                                    /\ view.unmanaged[y].kind \in {"absent", "dir"}
  <2>1. x \in Artifacts /\ x \in Paths /\ Above[x] \subseteq Paths
    BY PlannerAssumption DEF Managed
  <2>2. view.unmanaged[x].kind = "absent"
    BY <1>2, <2>1 DEF Unmanaged, Nothing
  <2>3. \A y \in Above[x] : nodes[y].kind = "dir"
    BY <1>3 DEF LinksSound, Managed
  <2>4. \A y \in Managed(links) : nodes[y].kind = "link"
    BY <1>3 DEF LinksSound, Managed
  <2>5. \A y \in Above[x] : y \notin Managed(links)
    BY <2>3, <2>4
  <2>6. \A y \in Above[x] : view.unmanaged[y].kind = "dir"
    BY <1>2, <2>1, <2>3, <2>5 DEF Unmanaged
  <2> QED
    BY <2>2, <2>5, <2>6
<1> QED
  BY <1>1, <1>2, <1>4 DEF SoundView

LEMMA AbsentIsSound == SoundView(AbsentView)
<1>1. AbsentView.entries = NoLinks /\ NoLinks \in Links
  BY DEF AbsentView, NoLinks, Links
<1>2. Managed(NoLinks) = {}
  BY DEF Managed, NoLinks
<1> QED
  BY <1>1, <1>2 DEF SoundView

(* Without drift the recorded links are the desired ones.                   *)
LEMMA NoDriftNoMutation ==
    ASSUME NEW entries \in Links, NEW desired \in Links, NEW view, view.entries = entries,
           NEW cache, NEW skill, Unreadable(desired, cache, skill) = {}
    PROVE  /\ Mutations(view, desired) = {} <=> entries = desired
           /\ entries = desired <=> /\ MissingEntries(view, desired) = {}
                                 /\ UnexpectedEntries(view, desired) = {}
                                 /\ WrongEntries(view, desired, cache, skill) = {}
<1>1. ASSUME NEW x \in Artifacts
      PROVE  Action(view, desired, x) = "KEEP" <=> entries[x] = desired[x]
  BY DEF Action
<1>2. (\A x \in Artifacts : entries[x] = desired[x]) <=> entries = desired
  BY DEF Links
<1>3. Mutations(view, desired) = {} <=> entries = desired
  BY <1>1, <1>2 DEF Mutations
<1>4. Readable(desired, cache, skill) = Managed(desired)
  BY DEF Unreadable, Readable, InCache
<1>5. ASSUME MissingEntries(view, desired) = {}, UnexpectedEntries(view, desired) = {},
             WrongEntries(view, desired, cache, skill) = {}, NEW x \in Artifacts
      PROVE  entries[x] = desired[x]
  <2>1. x \in Managed(desired) <=> x \in Managed(entries)
    BY <1>5 DEF MissingEntries, UnexpectedEntries
  <2>2. CASE x \in Managed(desired)
    BY <1>4, <1>5, <2>1, <2>2 DEF WrongEntries
  <2>3. CASE x \notin Managed(desired)
    BY <2>1, <2>3 DEF Managed
  <2> QED
    BY <2>2, <2>3
<1>6. ASSUME entries = desired
      PROVE  /\ MissingEntries(view, desired) = {} /\ UnexpectedEntries(view, desired) = {}
             /\ WrongEntries(view, desired, cache, skill) = {}
  BY <1>6 DEF MissingEntries, UnexpectedEntries, WrongEntries
<1> QED
  BY <1>2, <1>3, <1>5, <1>6

(* A target that holds its desired links is blocked by nothing but a        *)
(* foreign cache or a source it cannot use.                                 *)
LEMMA SettledNotBlocked ==
    ASSUME NEW view, SoundView(view), NEW cache,
           NEW desired, view.entries = desired,
           ~RootMismatch(view, cache), InCache(desired, cache) = Managed(desired)
    PROVE  ~Blocked(view, desired, cache)
<1>1. ~ForeignCache(view, cache)
  BY DEF ForeignCache, RootMismatch
<1>2. ~NestedDesired(desired)
  BY DEF NestedDesired, SoundView
<1>3. \A x \in Managed(desired) : SourceUsable(desired[x], cache)
  BY DEF SourceUsable, InCache
<1>4. \A x \in Managed(desired) : ~Obstructed(view, x)
  BY DEF Obstructed, SoundView
<1> QED
  BY <1>1, <1>2, <1>3, <1>4 DEF Blocked

(* An invalid target is one that the planner blocks as well, or one with a  *)
(* skill or snapshot that reads as damaged.                                 *)
LEMMA InvalidIsBlocked ==
    ASSUME NEW view, NEW desired, NEW cache, NEW skill, NEW snapshot,
           Invalid(view, desired, cache, skill, snapshot)
    PROVE  Blocked(view, desired, cache) \/ Damaged(desired, skill, snapshot)
<1>1. CASE RootMismatch(view, cache)
  BY <1>1 DEF RootMismatch, ForeignCache, Blocked
<1>2. CASE Unreadable(desired, cache, skill) # {}
  <2>1. PICK x \in Managed(desired) :
            ~SourceUsable(desired[x], cache) \/ skill[desired[x]] = "malformed"
    BY <1>2 DEF Unreadable, Readable, InCache, SourceUsable
  <2> QED
    BY <2>1 DEF Blocked, Damaged
<1>3. CASE InSnapshots(desired, snapshot, "malformed") # {}
  BY <1>3 DEF InSnapshots, Damaged
<1> QED
  BY <1>1, <1>2, <1>3 DEF Invalid

(* The verdict "converged" means: nothing to do, nothing to refuse, and all *)
(* contents as locked; "invalid" means that apply refuses, or that contents *)
(* which the planner never reads are damaged (verify_state, build_plan).    *)
THEOREM VerdictMatchesPlan ==
    ASSUME NEW view, SoundView(view), NEW desired \in Links, NEW cache,
           NEW skill \in [Wanted(desired) -> Conditions],
           NEW snapshot \in [Wanted(desired) -> Conditions]
    PROVE  Agree(view, desired, cache, skill, snapshot)
<1> DEFINE verdict == Verdict(view, desired, cache, skill, snapshot)
           settled == /\ ~Blocked(view, desired, cache) /\ Mutations(view, desired) = {}
                      /\ AsLocked(desired, skill, snapshot)
<1>0. /\ view.entries \in Links
      /\ \A x \in Managed(desired) :
            skill[desired[x]] \in Conditions /\ snapshot[desired[x]] \in Conditions
  BY DEF SoundView, Wanted
<1>1. CASE Invalid(view, desired, cache, skill, snapshot)
  <2>1. verdict = "invalid"
    BY <1>1 DEF Verdict
  <2>2. Blocked(view, desired, cache) \/ Damaged(desired, skill, snapshot)
    BY <1>1, InvalidIsBlocked
  <2>3. Damaged(desired, skill, snapshot) => ~AsLocked(desired, skill, snapshot)
    BY DEF Damaged, AsLocked
  <2> QED
    BY <2>1, <2>2, <2>3 DEF Agree
<1>2. CASE ~Invalid(view, desired, cache, skill, snapshot)
  <2>1. /\ ~RootMismatch(view, cache) /\ Unreadable(desired, cache, skill) = {}
        /\ \A x \in Managed(desired) : snapshot[desired[x]] # "malformed"
    BY <1>2 DEF Invalid, InSnapshots
  <2>2. /\ Readable(desired, cache, skill) = Managed(desired)
        /\ InCache(desired, cache) = Managed(desired)
        /\ \A x \in Managed(desired) : skill[desired[x]] # "malformed"
    BY <2>1 DEF Unreadable, Readable, InCache
  <2>3. /\ Mutations(view, desired) = {} <=> view.entries = desired
        /\ view.entries = desired <=> /\ MissingEntries(view, desired) = {}
                                   /\ UnexpectedEntries(view, desired) = {}
                                   /\ WrongEntries(view, desired, cache, skill) = {}
    BY <1>0, <2>1, NoDriftNoMutation
  <2>4. AsLocked(desired, skill, snapshot) <=>
           Stale(desired, cache, skill) = {} /\ InSnapshots(desired, snapshot, "altered") = {}
    BY <1>0, <2>1, <2>2 DEF AsLocked, Stale, InSnapshots, Conditions
  <2>5. CASE Drift(view, desired, cache, skill, snapshot)
    <3>1. verdict = "drift"
      BY <1>2, <2>5 DEF Verdict
    <3>2. ~settled
      BY <2>3, <2>4, <2>5 DEF Drift
    <3> QED
      BY <3>1, <3>2 DEF Agree
  <2>6. CASE ~Drift(view, desired, cache, skill, snapshot)
    <3>1. verdict = "converged"
      BY <1>2, <2>6 DEF Verdict
    <3>2. view.entries = desired /\ AsLocked(desired, skill, snapshot)
      BY <2>3, <2>4, <2>6 DEF Drift
    <3>3. settled
      BY <2>1, <2>2, <2>3, <3>2, SettledNotBlocked
    <3>4. AllVerified(view, desired, cache, skill, snapshot)
      BY <2>1, <2>2, <2>6, <3>2 DEF AllVerified, AsLocked, Drift
    <3> QED
      BY <3>1, <3>3, <3>4 DEF Agree
  <2> QED
    BY <2>5, <2>6
<1> QED
  BY <1>1, <1>2

(* `verify' and `apply' agree on every target that can be scanned, in every *)
(* state that runs, errors, kills and users lead to.                        *)
THEOREM VerdictsAgree == Spec => []VerdictAgrees
<1>1. IInv => VerdictAgrees
  <2> SUFFICES ASSUME IInv, NEW t \in Targets,
                      at[t] # NoInode => Scannable(ns[at[t]], tree[at[t]]),
                      NEW p \in Applies, NEW c \in Configs,
                      NEW skill \in [Wanted(c[t]) -> Conditions],
                      NEW snapshot \in [Wanted(c[t]) -> Conditions]
               PROVE  Agree(Fresh(t), c[t], CacheRoot[p], skill, snapshot)
    BY DEF VerdictAgrees
  <2>1. c[t] \in Links
    BY ReconcilerAssumption
  <2>2. SoundView(Fresh(t))
    <3>1. CASE at[t] = NoInode
      BY <3>1, AbsentIsSound DEF Fresh
    <3>2. CASE at[t] # NoInode
      <4>1. ns[at[t]] \in Namespace /\ tree[at[t]] \in [Paths -> Node]
        BY <3>2 DEF IInv, TypeOK, TypeOfDisk
      <4> QED
        BY <3>2, <4>1, ScanIsSound DEF Fresh, Current
    <3> QED
      BY <3>1, <3>2
  <2> QED
    BY <2>1, <2>2, VerdictMatchesPlan
<1> QED
  BY <1>1, Invariance, PTL

------------------------------------------------------------------------------
(* Runs wait in one direction only.                                         *)
(* Another run keeps its flocks and its way through the targets.            *)
LEMMA OthersOrdered ==
    ASSUME IInv, OInv, NEW p \in Applies, OthersUntouched(p), OneTarget',
           Ascending(p)', HeldByOwn(p)',
           \A i \in Inodes : flock'[i] \in Applies \ {p} => flock'[i] = flock[i]
    PROVE  OInv'
<1>1. ASSUME NEW q \in Applies \ {p} PROVE Ascending(q)' /\ HeldByOwn(q)'
  <2>1. /\ pc'[q] = pc[q] /\ left'[q] = left[q] /\ locked'[q] = locked[q] /\ fd'[q] = fd[q]
    BY DEF OthersUntouched
  <2>2. Ascending(q) /\ HeldByOwn(q)
    BY DEF OInv
  <2>3. Ascending(q)'
    BY <2>1, <2>2 DEF Ascending
  <2>4. \A t \in Targets : HeldFor(q, t) => HeldFor(q, t)'
    BY <2>1 DEF HeldFor, First
  <2>5. HeldByOwn(q)'
    BY <2>1, <2>2, <2>4 DEF HeldByOwn
  <2> QED
    BY <2>3, <2>5
<1> QED
  BY <1>1 DEF OInv

(* A step that opens and locks nothing has only to stay in the order.       *)
LEMMA QuietOrdered ==
    ASSUME IInv, OInv, NEW p \in Applies, OthersUntouched(p),
           fd' = fd, flock' = flock, locked' = locked, pc[p] \notin {"ns", "abandon"},
           Ascending(p)'
    PROVE  OInv'
<1>1. OneTarget'
  BY DEF OInv, OneTarget
<1>2. HeldByOwn(p)'
  BY DEF OInv, HeldByOwn, HeldFor
<1> QED
  BY <1>1, <1>2, OthersOrdered

(* Preparing the same target on, and leaving the preparation.               *)
LEMMA StillAscending ==
    ASSUME OInv, NEW p \in Applies,
           \/ pc'[p] \notin Preparing \cup {"init"}
           \/ pc[p] \in Preparing /\ locked' = locked /\ left' = left
    PROVE  Ascending(p)'
BY DEF OInv, Ascending

LEMMA FailAscends ==
    ASSUME TypeOfControl, OInv, NEW p \in Applies, Fail(p) PROVE Ascending(p)'
<1>1. pc'[p] \in {"undo", "settle"}
  BY DEF TypeOfControl, Fail, Goto
<1> QED
  BY <1>1, StillAscending DEF Preparing

LEMMA ScanOrdered ==
    ASSUME IInv, OInv, NEW p \in Applies,
           Begin(p) \/ ReadRecord(p) \/ WalkTree(p) \/ BuildPlan(p)
    PROVE  OInv'
<1> USE DEF IInv, TypeOK, TypeOfControl
<1>1. /\ OthersUntouched(p) /\ UNCHANGED handles
      /\ pc[p] \in {"idle", "scan", "walk", "plan"}
  BY ScanFrame DEF Begin, ReadRecord, WalkTree, BuildPlan
<1>2. locked[p] = {}
  BY <1>1 DEF TargetsTracked, Tracked, Unlocked
<1>3. Ascending(p)'
  BY <1>1, <1>2 DEF Ascending, handles
<1> QED
  BY <1>1, <1>3, QuietOrdered DEF handles

LEMMA PrepareOrdered ==
    ASSUME IInv, OInv, NEW p \in Applies,
           LookAtRoot(p) \/ MakeRoot(p) \/ LockExpires(p) \/ Unchain(p)
    PROVE  OInv'
<1> USE DEF IInv, TypeOK
<1>1. /\ OthersUntouched(p) /\ UNCHANGED <<fd, locked, flock>>
      /\ pc[p] \in Preparing \ {"ns", "abandon"}
      /\ left' = left \/ Fail(p)
  BY PrepareFrame DEF LookAtRoot, MakeRoot, LockExpires, Unchain, handles, Preparing
<1>2. Ascending(p)'
  BY <1>1, StillAscending, FailAscends
<1> QED
  BY <1>1, <1>2, QuietOrdered

(* What a path names is one target to every run that opened it.             *)
LEMMA OpenRootOrdered ==
    ASSUME IInv, OInv, NEW p \in Applies, OpenRoot(p) PROVE OInv'
<1> USE DEF IInv, TypeOK
<1>1. /\ OthersUntouched(p) /\ pc[p] = "open" /\ UNCHANGED <<locked, flock>>
  BY PrepareFrame DEF OpenRoot
<1>2. PICK t \in Targets :
         /\ First(p, t)
         /\ \/ Fail(p) /\ fd' = fd
            \/ /\ at[t] # NoInode /\ fd' = [fd EXCEPT ![p][t] = at[t]]
               /\ left' = left
  BY DEF OpenRoot
<1>3. CASE Fail(p) /\ fd' = fd
  BY <1>1, <1>3, FailAscends, QuietOrdered
<1>4. CASE at[t] # NoInode /\ fd' = [fd EXCEPT ![p][t] = at[t]] /\ left' = left
  <2>1. /\ fd'[p][t] = at[t] /\ \A u \in Targets \ {t} : fd'[p][u] = fd[p][u]
        /\ \A q \in Applies \ {p} : fd'[q] = fd[q]
    BY <1>4 DEF TypeOfHandles
  <2>2. \A q \in Applies : \A u \in Targets : fd[q][u] = at[t] => u = t
    BY <1>4 DEF InodesApart
  <2>3. OneTarget'
    BY <1>4, <2>1, <2>2 DEF OInv, OneTarget
  <2>4. t \notin locked[p] /\ locked[p] \subseteq Targets
    BY <1>1, <1>2 DEF First, TargetsTracked, Tracked, Preparing, TypeOfHandles
  <2>5. HeldByOwn(p)'
    <3> SUFFICES ASSUME NEW i \in Inodes, flock[i] = p
                 PROVE  \E u \in Targets : fd'[p][u] = i /\ u \in locked[p]
      BY <1>1 DEF HeldByOwn, HeldFor
    <3>1. PICK u \in Targets : fd[p][u] = i /\ u \in locked[p]
      BY <1>1 DEF OInv, HeldByOwn, HeldFor
    <3> QED
      BY <2>1, <2>4, <3>1
  <2>6. Ascending(p)'
    BY <1>1, <1>4, StillAscending DEF Preparing
  <2> QED
    BY <1>1, <2>3, <2>5, <2>6, OthersOrdered
<1> QED
  BY <1>2, <1>3, <1>4

LEMMA LockRootOrdered ==
    ASSUME IInv, OInv, NEW p \in Applies, LockRoot(p) PROVE OInv'
<1> USE DEF IInv, TypeOK
<1>1. /\ OthersUntouched(p) /\ pc[p] = "flock" /\ UNCHANGED <<fd, locked, left>>
  BY PrepareFrame DEF LockRoot
<1>2. PICK t \in Targets :
         First(p, t) /\ flock' = [flock EXCEPT ![fd[p][t]] = p]
  BY DEF LockRoot
<1>3. pc'[p] = "ns"
  BY DEF LockRoot, Goto, TypeOfControl
<1>4. \A i \in Inodes : flock'[i] = IF i = fd[p][t] THEN p ELSE flock[i]
  BY <1>2 DEF TypeOfHandles
<1>5. OneTarget'
  BY <1>1 DEF OInv, OneTarget
<1>6. Ascending(p)'
  BY <1>1, StillAscending DEF Preparing
<1>7. HeldByOwn(p)'
  <2> SUFFICES ASSUME NEW i \in Inodes, flock'[i] = p
               PROVE  \E u \in Targets : fd'[p][u] = i /\ HeldFor(p, u)'
    BY DEF HeldByOwn
  <2>1. CASE i = fd[p][t]
    BY <1>1, <1>2, <1>3, <2>1 DEF HeldFor, First
  <2>2. CASE i # fd[p][t]
    BY <1>1, <1>4, <2>2 DEF OInv, HeldByOwn, HeldFor
  <2> QED
    BY <2>1, <2>2
<1>8. \A i \in Inodes : flock'[i] \in Applies \ {p} => flock'[i] = flock[i]
  BY <1>4
<1> QED
  BY <1>1, <1>5, <1>6, <1>7, <1>8, OthersOrdered

LEMMA OpenNamespaceOrdered ==
    ASSUME IInv, OInv, NEW p \in Applies, OpenNamespace(p) PROVE OInv'
<1> USE DEF IInv, TypeOK
<1>1. /\ OthersUntouched(p) /\ pc[p] = "ns" /\ UNCHANGED <<fd, flock, left>>
  BY NamespaceFrame DEF OpenNamespace
<1>2. PICK t \in Targets :
         /\ First(p, t)
         /\ \/ locked' = [locked EXCEPT ![p] = @ \cup {t}] /\ Goto(p, "init")
            \/ locked' = locked /\ Goto(p, "abandon")
  BY DEF OpenNamespace
<1>3. \/ locked'[p] = locked[p] \cup {t} /\ pc'[p] = "init"
      \/ locked' = locked /\ pc'[p] = "abandon"
  BY <1>2 DEF TypeOfHandles, TypeOfControl, Goto
<1>4. OneTarget'
  BY <1>1 DEF OInv, OneTarget
<1>5. Ascending(p)'
  BY <1>1, <1>2, <1>3 DEF OInv, Ascending, Preparing, First
<1>6. ASSUME NEW u \in Targets, HeldFor(p, u) PROVE HeldFor(p, u)'
  <2>1. CASE u \in locked[p]
    BY <1>3, <2>1 DEF HeldFor
  <2>2. CASE u \notin locked[p]
    <3>1. First(p, u)
      BY <1>6, <2>2 DEF HeldFor
    <3>2. u = t
      BY <1>2, <3>1, FirstUnique
    <3> QED
      BY <1>1, <1>2, <1>3, <3>2 DEF HeldFor, First
  <2> QED
    BY <2>1, <2>2
<1>7. HeldByOwn(p)'
  BY <1>1, <1>6 DEF OInv, HeldByOwn
<1> QED
  BY <1>1, <1>4, <1>5, <1>7, OthersOrdered

(* Closing the root gives the flock back and forgets the directory.         *)
LEMMA AbandonOrdered ==
    ASSUME IInv, OInv, NEW p \in Applies, Abandon(p) PROVE OInv'
<1> USE DEF IInv, TypeOK
<1>1. /\ OthersUntouched(p) /\ pc[p] = "abandon" /\ UNCHANGED <<locked, left>>
  BY PrepareFrame DEF Abandon
<1>2. PICK t \in Targets :
         /\ First(p, t)
         /\ flock' = [flock EXCEPT ![fd[p][t]] = IF @ = p THEN NoApply ELSE @]
         /\ fd' = [fd EXCEPT ![p][t] = NoInode]
  BY DEF Abandon
<1>3. /\ \A u \in Targets : fd'[p][u] = IF u = t THEN NoInode ELSE fd[p][u]
      /\ \A q \in Applies \ {p} : fd'[q] = fd[q]
      /\ \A i \in Inodes : flock'[i] = IF i = fd[p][t] /\ flock[i] = p THEN NoApply ELSE flock[i]
  BY <1>2 DEF TypeOfHandles
<1>4. OneTarget'
  BY <1>3 DEF OInv, OneTarget
<1>5. Ascending(p)'
  BY <1>1, StillAscending DEF Preparing
<1>6. HeldByOwn(p)'
  <2> SUFFICES ASSUME NEW i \in Inodes, flock'[i] = p
               PROVE  \E u \in Targets : fd'[p][u] = i /\ u \in locked'[p]
    BY DEF HeldByOwn, HeldFor
  <2>1. flock[i] = p /\ i # fd[p][t]
    BY <1>3, ReconcilerAssumption
  <2>2. PICK u \in Targets : fd[p][u] = i /\ HeldFor(p, u)
    BY <2>1 DEF OInv, HeldByOwn
  <2>3. u # t
    BY <2>1, <2>2
  <2>4. u \in locked[p]
    BY <1>2, <2>2, <2>3, FirstUnique DEF HeldFor
  <2> QED
    BY <1>1, <1>3, <2>2, <2>3, <2>4
<1>7. \A i \in Inodes : flock'[i] \in Applies \ {p} => flock'[i] = flock[i]
  BY <1>3, ReconcilerAssumption
<1> QED
  BY <1>1, <1>4, <1>5, <1>6, <1>7, OthersOrdered

(* The next target of the sorted loop ranks behind the one just locked.     *)
LEMMA InitMetadataOrdered ==
    ASSUME IInv, OInv, NEW p \in Applies, InitMetadata(p) PROVE OInv'
<1> USE DEF IInv, TypeOK
<1>1. /\ OthersUntouched(p) /\ pc[p] = "init" /\ UNCHANGED <<fd, flock, locked>>
  BY NamespaceFrame DEF InitMetadata, handles
<1>2. PICK t \in Targets : Loop(p, t, "root", "validate", locked[p]) \/ Fail(p)
  BY DEF InitMetadata
<1>3. CASE Loop(p, t, "root", "validate", locked[p])
  <2>1. pc'[p] = "validate" \/ left'[p] = left[p] \ {t}
    BY <1>3 DEF Loop, Goto, TypeOfControl
  <2>2. Ascending(p)'
    BY <1>1, <2>1 DEF OInv, Ascending, Preparing
  <2> QED
    BY <1>1, <2>2, QuietOrdered
<1>4. CASE Fail(p)
  BY <1>1, <1>4, FailAscends, QuietOrdered
<1> QED
  BY <1>2, <1>3, <1>4

(* A run that works on its locked targets prepares no other.                *)
LEMMA WorkOrdered ==
    ASSUME IInv, OInv, NEW p \in Applies,
           \/ Validate(p) \/ Stage(p) \/ Promote(p) \/ MoveAside(p) \/ Install(p)
           \/ CleanStaging(p) \/ Publish(p) \/ DropBackup(p) \/ Settle(p)
           \/ Undo(p) \/ PutBackup(p) \/ RestoreMetadata(p) \/ Discard(p) \/ Prune(p)
           \/ Report(p)
    PROVE  OInv'
<1> USE DEF IInv, TypeOK, TypeOfControl
<1>1. OthersUntouched(p)
  BY WorkFrame, TreeFrame, NamespaceFrame
<1>2. /\ UNCHANGED handles
      /\ pc[p] \notin {"ns", "abandon"}
  BY DEF Validate, Stage, Promote, MoveAside, Install, CleanStaging, Publish, DropBackup, Settle,
     Undo, PutBackup, RestoreMetadata, Discard, Prune, Report
<1>3. pc'[p] \notin Preparing \cup {"init"}
  <2>1. CASE Validate(p) \/ Stage(p) \/ CleanStaging(p) \/ Promote(p)
    BY <2>1 DEF Validate, Stage, CleanStaging, Promote, Loop, Fail, Goto, Preparing
  <2>2. CASE MoveAside(p) \/ Install(p)
    BY <2>2 DEF MoveAside, PutAside, Install, PutLink, PutNoLink, Journaled, Fail, Goto, Preparing
  <2>3. CASE Publish(p) \/ DropBackup(p) \/ Settle(p)
    BY <2>3 DEF Publish, DropBackup, Settle, Loop, Fail, Goto, Preparing
  <2>4. CASE RestoreMetadata(p) \/ Discard(p) \/ Report(p)
    BY <2>4 DEF RestoreMetadata, Discard, Report, Loop, Goto, Preparing
  <2>5. CASE Undo(p) \/ PutBackup(p) \/ Prune(p)
    BY <2>5 DEF Undo, PutBackup, Prune, Goto, Preparing
  <2> QED
    BY <2>1, <2>2, <2>3, <2>4, <2>5
<1>4. Ascending(p)'
  BY <1>3, StillAscending
<1> QED
  BY <1>1, <1>2, <1>4, QuietOrdered DEF handles

(* Closing a locked target gives its flock back, being killed all of them.  *)
LEMMA ReleaseOrdered ==
    ASSUME IInv, OInv, NEW p \in Applies, Release(p) PROVE OInv'
<1> USE DEF IInv, TypeOK
<1>1. OthersUntouched(p) /\ pc[p] = "release"
  BY EndFrame DEF Release
<1>2. ASSUME NEW t \in Targets, flock' = [flock EXCEPT ![fd[p][t]] = NoApply],
             fd' = [fd EXCEPT ![p][t] = NoInode],
             locked' = [locked EXCEPT ![p] = @ \ {t}], pc' = pc
      PROVE  OInv'
  <2>1. /\ \A u \in Targets : fd'[p][u] = IF u = t THEN NoInode ELSE fd[p][u]
        /\ \A q \in Applies \ {p} : fd'[q] = fd[q]
        /\ \A i \in Inodes : flock'[i] = IF i = fd[p][t] THEN NoApply ELSE flock[i]
        /\ locked'[p] = locked[p] \ {t}
    BY <1>2 DEF TypeOfHandles
  <2>2. OneTarget'
    BY <2>1 DEF OInv, OneTarget
  <2>3. Ascending(p)'
    BY <1>1, <1>2, StillAscending DEF Preparing
  <2>4. HeldByOwn(p)'
    <3> SUFFICES ASSUME NEW i \in Inodes, flock'[i] = p
                 PROVE  \E u \in Targets : fd'[p][u] = i /\ u \in locked'[p]
      BY DEF HeldByOwn, HeldFor
    <3>1. flock[i] = p /\ i # fd[p][t]
      BY <2>1, ReconcilerAssumption
    <3>2. PICK u \in Targets : fd[p][u] = i /\ u \in locked[p]
      BY <1>1, <3>1 DEF OInv, HeldByOwn, HeldFor
    <3> QED
      BY <2>1, <3>1, <3>2
  <2>5. \A i \in Inodes : flock'[i] \in Applies \ {p} => flock'[i] = flock[i]
    BY <2>1, ReconcilerAssumption
  <2> QED
    BY <1>1, <2>2, <2>3, <2>4, <2>5, OthersOrdered
<1>3. ASSUME Goto(p, "done"), UNCHANGED handles PROVE OInv'
  <2>1. pc'[p] = "done"
    BY <1>3 DEF Goto, TypeOfControl
  <2>2. Ascending(p)'
    BY <2>1, StillAscending DEF Preparing
  <2> QED
    BY <1>1, <1>3, <2>2, QuietOrdered DEF handles
<1> QED
  BY <1>2, <1>3 DEF Release

LEMMA CrashOrdered ==
    ASSUME IInv, OInv, NEW p \in Applies, Crash(p) PROVE OInv'
<1> USE DEF IInv, TypeOK
<1>1. OthersUntouched(p)
  BY EndFrame
<1>2. /\ pc'[p] = "done" /\ \A t \in Targets : fd'[p][t] = NoInode
      /\ \A q \in Applies \ {p} : fd'[q] = fd[q]
      /\ \A i \in Inodes : flock'[i] = IF flock[i] = p THEN NoApply ELSE flock[i]
  BY DEF Crash, Goto, TypeOfControl, TypeOfHandles
<1>3. OneTarget'
  BY <1>2 DEF OInv, OneTarget
<1>4. Ascending(p)'
  BY <1>2, StillAscending DEF Preparing
<1>5. HeldByOwn(p)'
  BY <1>2, ReconcilerAssumption DEF HeldByOwn
<1>6. \A i \in Inodes : flock'[i] \in Applies \ {p} => flock'[i] = flock[i]
  BY <1>2, ReconcilerAssumption
<1> QED
  BY <1>1, <1>3, <1>4, <1>5, <1>6, OthersOrdered

LEMMA OrderInit == Init => OInv
BY ReconcilerAssumption
DEF Init, OInv, OneTarget, Ascending, Preparing, HeldByOwn

LEMMA OrderNext == IInv /\ OInv /\ [Next]_vars => OInv'
<1> SUFFICES ASSUME IInv, OInv, [Next]_vars PROVE OInv'
  OBVIOUS
<1>1. CASE \E p \in Applies : Begin(p) \/ Step(p) \/ Crash(p)
  BY <1>1, ScanOrdered, PrepareOrdered, OpenRootOrdered, LockRootOrdered, OpenNamespaceOrdered,
     AbandonOrdered, InitMetadataOrdered, WorkOrdered, ReleaseOrdered, CrashOrdered
  DEF Step
<1>2. CASE UserStep \/ UNCHANGED vars
  <2>1. UNCHANGED <<pc, left, fd, locked, flock>>
    BY <1>2 DEF UserStep, vars, control, handles
  <2> QED
    BY <2>1 DEF OInv, OneTarget, Ascending, HeldByOwn, HeldFor, First
<1> QED
  BY <1>1, <1>2 DEF Next, Finished

(* Whom a run waits for has locked the target, and has only later ones to   *)
(* lock: the later it waits, the fewer can be waiting for it.               *)
LEMMA WaitsAscend ==
    ASSUME IInv, OInv, NEW p \in Applies, NEW q \in Applies,
           NEW t \in Targets, NEW u \in Targets,
           pc[p] = "flock", First(p, t), flock[fd[p][t]] = q,
           pc[q] = "flock", First(q, u)
    PROVE  TargetRank[t] < TargetRank[u]
<1> USE DEF IInv, TypeOK
<1>1. fd[p][t] \in Inodes
  BY DEF LocksHeld, LocksHeldBy
<1>2. PICK v \in Targets : fd[q][v] = fd[p][t] /\ v \in locked[q]
  BY <1>1 DEF OInv, HeldByOwn, HeldFor
<1>3. v = t
  BY <1>1, <1>2, ReconcilerAssumption DEF OInv, OneTarget
<1>4. t \in locked[q] /\ u \in left[q]
  BY <1>2, <1>3 DEF First
<1>5. TargetRank[t] <= TargetRank[u]
  BY <1>4 DEF OInv, Ascending, Preparing
<1>6. t # u
  BY <1>4 DEF TargetsTracked, Tracked, Preparing
<1> QED
  BY <1>5, <1>6, ReconcilerAssumption

(* Of any runs, the one that waits at the target that is locked last waits  *)
(* for a run that waits for none of them.                                   *)
LEMMA OrderFreesAll == IInv /\ OInv => NoDeadlock
<1> SUFFICES ASSUME IInv, OInv, NEW S \in SUBSET Applies, S # {},
                    \A p \in S : \E q \in S : WaitsFor(p, q)
             PROVE  FALSE
  BY DEF NoDeadlock
<1> DEFINE Awaited == {t \in Targets : \E p \in S : pc[p] = "flock" /\ First(p, t)}
<1>1. Awaited # {}
  BY DEF WaitsFor
<1>2. PICK t \in Awaited : \A u \in Awaited : TargetRank[u] <= TargetRank[t]
  BY <1>1, TargetsAssumption
<1>3. PICK p \in S : pc[p] = "flock" /\ First(p, t)
  BY <1>2
<1>4. PICK q \in S : WaitsFor(p, q)
  OBVIOUS
<1>5. flock[fd[p][t]] = q
  BY <1>3, <1>4, FirstUnique DEF WaitsFor, IInv, TypeOK
<1>6. PICK u \in Targets : pc[q] = "flock" /\ First(q, u)
  BY DEF WaitsFor
<1>7. TargetRank[t] < TargetRank[u]
  BY <1>3, <1>5, <1>6, WaitsAscend
<1>8. TargetRank[u] <= TargetRank[t]
  BY <1>2, <1>6
<1> QED
  BY <1>7, <1>8, ReconcilerAssumption

(* Runs never wait for each other in a circle: that the targets are locked  *)
(* in the order of their roots is enough, without the deadline of a lock,   *)
(* for any number of runs and targets, with users, errors and kills.        *)
THEOREM NobodyDeadlocks == Spec => []NoDeadlock
<1>1. Init => IInv /\ OInv
  BY InvariantInit, OrderInit
<1>2. IInv /\ OInv /\ [Next]_vars => (IInv /\ OInv)'
  BY InvariantNext, OrderNext
<1> QED
  BY <1>1, <1>2, OrderFreesAll, PTL DEF Spec
=============================================================================
