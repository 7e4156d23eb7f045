---------------------------- MODULE RollbackProofs ----------------------------
(***************************************************************************)
(* What a run gives up, and when: records that it made itself, and backups *)
(* whose entries are back or whose transaction is committed.               *)
(***************************************************************************)
EXTENDS CommitProofs

------------------------------------------------------------------------------
(* DInv is inductive, whatever users do, and no step of the manager         *)
(* destroys what is not its own.                                            *)

(* Users leave directories where they are, and write at the place of a      *)
(* pending link as racers.                                                  *)
LEMMA UserKeepsOwn ==
    ASSUME IInv, DInv, UserStep PROVE DInv'
<1> USE DEF IInv, TypeOK, TypeOfDisk
<1>1. UNCHANGED <<ns, plan, control, handles, txn, outcome>>
  BY DEF UserStep
<1>2. /\ pc' = pc /\ phase' = phase /\ left' = left /\ fd' = fd /\ locked' = locked
      /\ sel' = sel /\ want' = want /\ seen' = seen /\ journal' = journal /\ parents' = parents
      /\ outcome' = outcome
  BY <1>1 DEF plan, control, handles, txn
<1>3. \/ tree' = tree
      \/ \E t \in Targets : \E x \in Paths : \E n :
            /\ at[t] # NoInode /\ tree[at[t]][x].kind # "dir"
            /\ tree' = [tree EXCEPT ![at[t]][x] = n]
            /\ n.kind = "absent" \/ n.by = User(t, x)
  <2>1. ASSUME NEW t \in Targets, NEW x \in Paths,
               UserWrites(t, x) \/ UserRelinks(t, x) \/ UserUnlinks(t, x)
        PROVE  \E n : /\ at[t] # NoInode /\ tree[at[t]][x].kind # "dir"
                      /\ tree' = [tree EXCEPT ![at[t]][x] = n]
                      /\ n.kind = "absent" \/ n.by = User(t, x)
    <3>1. ASSUME NEW n, tree' = [tree EXCEPT ![at[t]][x] = n], n.kind = "absent" \/ n.by = User(t, x),
                 at[t] # NoInode, tree[at[t]][x].kind # "dir"
          PROVE  \E m : /\ at[t] # NoInode /\ tree[at[t]][x].kind # "dir"
                        /\ tree' = [tree EXCEPT ![at[t]][x] = m]
                        /\ m.kind = "absent" \/ m.by = User(t, x)
      BY <3>1
    <3>2. CASE UserWrites(t, x)
      <4>1. PICK k : tree' = [tree EXCEPT ![at[t]][x] = [kind |-> k, to |-> NoSource, by |-> User(t, x)]]
        BY <3>2 DEF UserWrites
      <4> QED
        BY <3>1, <3>2, <4>1 DEF UserWrites, Absent
    <3>3. CASE UserRelinks(t, x)
      <4>1. PICK s : tree' = [tree EXCEPT ![at[t]][x] = [kind |-> "link", to |-> s, by |-> User(t, x)]]
        BY <3>3 DEF UserRelinks
      <4> QED
        BY <3>1, <3>3, <4>1 DEF UserRelinks
    <3>4. CASE UserUnlinks(t, x)
      BY <3>1, <3>4 DEF UserUnlinks, Hole
    <3> QED
      BY <2>1, <3>2, <3>3, <3>4
  <2>2. \/ \E t \in Targets : UserReplacesRoot(t)
        \/ \E t \in Targets : \E x \in Paths :
              UserWrites(t, x) \/ UserRelinks(t, x) \/ UserUnlinks(t, x)
    BY DEF UserStep
  <2> QED
    BY <2>1, <2>2 DEF UserReplacesRoot
<1>4. CASE tree' = tree
  BY <1>2, <1>4 DEF DInv, Owned, Course, RolledBack, Settled, NothingMade,
     OnlyRacersInTheWay, OwnParents, NextOp, Todo, Ops
<1>5. ASSUME NEW t \in Targets, NEW x \in Paths, NEW n,
             at[t] # NoInode, tree[at[t]][x].kind # "dir",
             tree' = [tree EXCEPT ![at[t]][x] = n],
             n.kind = "absent" \/ n.by = User(t, x)
      PROVE  DInv'
  <2> SUFFICES ASSUME NEW p \in Applies
               PROVE  Owned(p)'
    BY DEF DInv
  <2>1. Course(p) /\ NothingMade(p) /\ OnlyRacersInTheWay(p) /\ OwnParents(p)
    BY DEF DInv, Owned
  <2>2. Course(p)' /\ NothingMade(p)'
    BY <1>2, <2>1 DEF Course, RolledBack, Settled, NothingMade
  <2>3. /\ Ops(p)' = Ops(p) /\ Todo(p)' = Todo(p) /\ \A o : NextOp(p, o)' = NextOp(p, o)
    BY <1>2 DEF Ops, Todo, NextOp
  <2>4. \A i \in Inodes : \A y \in Paths :
           tree'[i][y] = IF i = at[t] /\ y = x THEN n ELSE tree[i][y]
    BY <1>5
  <2>5. locked[p] \subseteq Targets /\ \A u \in locked[p] : fd[p][u] \in Inodes
    BY DEF TypeOfHandles, LocksHeld, LocksHeldBy, Holds
  <2>6. OwnParents(p)'
    BY <1>2, <1>5, <2>1, <2>3, <2>4, <2>5 DEF OwnParents
  <2>7. OnlyRacersInTheWay(p)'
    <3>1. SUFFICES ASSUME pc[p] = "install", NEW o \in Ops(p), NextOp(p, o)
                   PROVE  LET node == tree'[fd[p][o[1]]][o[2]] IN
                          node.kind = "absent" \/ node.by = "racer"
      BY <1>2, <2>3 DEF OnlyRacersInTheWay
    <3>2. /\ o[1] \in locked[p] /\ o[1] \in Targets /\ o[2] \in Paths
          /\ o = <<o[1], o[2]>>
      BY <3>1, OpsTyped, OpsLocked DEF Working
    <3>3. LET node == tree[fd[p][o[1]]][o[2]] IN node.kind = "absent" \/ node.by = "racer"
      BY <2>1, <3>1 DEF OnlyRacersInTheWay
    <3>4. CASE fd[p][o[1]] = at[t] /\ o[2] = x
      <4>1. o[1] = t
        BY <1>5, <3>2, <3>4 DEF InodesApart
      <4>2. Racing(t, x)
        BY <3>1, <3>2, <3>4, <4>1 DEF Racing
      <4> QED
        BY <1>5, <2>4, <2>5, <3>2, <3>4, <4>2 DEF User
    <3>5. CASE ~(fd[p][o[1]] = at[t] /\ o[2] = x)
      BY <2>4, <2>5, <3>2, <3>3, <3>5
    <3> QED
      BY <3>4, <3>5
  <2> QED
    BY <2>2, <2>6, <2>7 DEF Owned
<1> QED
  BY <1>3, <1>4, <1>5

LEMMA OthersOwn ==
    ASSUME IInv, DInv, NEW p \in Applies, Begin(p) \/ Step(p) \/ Crash(p), NEW q \in Applies \ {p}
    PROVE  Owned(q)'
<1> USE DEF IInv
<1>1. OthersUntouched(p) /\ OwnRootsOnly(p)
  BY StepFrame
<1>2. /\ pc'[q] = pc[q] /\ left'[q] = left[q] /\ sel'[q] = sel[q] /\ want'[q] = want[q]
      /\ seen'[q] = seen[q] /\ fd'[q] = fd[q] /\ locked'[q] = locked[q]
      /\ journal'[q] = journal[q] /\ parents'[q] = parents[q]
      /\ phase'[q] = phase[q] /\ outcome'[q] = outcome[q]
  BY <1>1, OthersCourse DEF OthersUntouched
<1>3. \A t \in locked[q] : tree'[fd[q][t]] = tree[fd[q][t]]
  BY <1>1 DEF OwnRootsOnly, LocksHeld, LocksHeldBy, Holds
<1>4. Course(q) /\ NothingMade(q) /\ OnlyRacersInTheWay(q) /\ OwnParents(q)
  BY DEF DInv, Owned
<1>5. Ops(q)' = Ops(q) /\ Todo(q)' = Todo(q) /\ \A o : NextOp(q, o)' = NextOp(q, o)
  BY <1>2 DEF Ops, Todo, NextOp
<1>6. Course(q)' /\ NothingMade(q)'
  BY <1>2, <1>4 DEF Course, RolledBack, Settled, NothingMade
<1>7. OnlyRacersInTheWay(q)'
  <2>1. pc[q] = "install" => \A o \in Ops(q) : o[1] \in locked[q]
    BY OpsLocked DEF Working
  <2> QED
    BY <1>2, <1>3, <1>4, <1>5, <2>1 DEF OnlyRacersInTheWay
<1>8. OwnParents(q)'
  BY <1>2, <1>3, <1>4, <1>5 DEF OwnParents
<1> QED
  BY <1>6, <1>7, <1>8 DEF Owned

(* Where no directory of a run is touched and no operation comes back.      *)
LEMMA SameParents ==
    ASSUME IInv, DInv, NEW p \in Applies, Begin(p) \/ Step(p), ~Release(p),
           pc[p] # "report", parents'[p] \subseteq parents[p],
           \A t \in locked[p] : \A x \in Paths :
              tree[fd[p][t]][x].kind = "dir" => tree'[fd[p][t]][x] = tree[fd[p][t]][x],
           pc'[p] \in {"promote", "move", "install"} =>
              parents'[p] = {} \/ (pc[p] \in {"promote", "move", "install"} /\ Todo(p)' \subseteq Todo(p))
    PROVE  OwnParents(p)'
<1>1. pc[p] # "release"
  <2>1. ~(pc[p] = "release")
    BY DEF Step, Begin, ReadRecord, WalkTree, BuildPlan, LookAtRoot, MakeRoot, OpenRoot, LockRoot,
       LockExpires, OpenNamespace, Abandon, Unchain, InitMetadata, Validate, Stage, Promote,
       MoveAside, Install, CleanStaging, Publish, DropBackup, Settle, Undo, PutBackup,
       RestoreMetadata, Discard, Prune, Report
  <2> QED
    BY <2>1
<1>2. OwnParents(p)
  BY DEF DInv, Owned
<1>3. \A t \in locked[p] : t \in locked'[p] /\ fd'[p][t] = fd[p][t]
  BY LockedHandles
<1> QED
  BY <1>1, <1>2, <1>3 DEF OwnParents

LEMMA MadeRootsOwned ==
    ASSUME IInv, DInv, NEW p \in Applies,
           \/ Begin(p) \/ ReadRecord(p) \/ WalkTree(p) \/ BuildPlan(p)
           \/ LookAtRoot(p) \/ MakeRoot(p) \/ OpenRoot(p) \/ LockRoot(p) \/ LockExpires(p)
           \/ OpenNamespace(p) \/ Abandon(p) \/ Unchain(p) \/ InitMetadata(p) \/ Validate(p)
           \/ Stage(p)
    PROVE  OnlyRacersInTheWay(p)' /\ OwnParents(p)'
<1> USE DEF IInv, TypeOK, TypeOfControl
<1>1. Unstarted(p)
  BY DEF Begin, ReadRecord, WalkTree, BuildPlan, LookAtRoot, MakeRoot, OpenRoot, LockRoot,
     LockExpires, OpenNamespace, Abandon, Unchain, InitMetadata, Validate, Stage, Unstarted, Early,
     Preparing
<1>2. parents[p] = {}
  BY <1>1 DEF DInv, Owned, NothingMade, Unstarted
<1>3. parents' = parents
  BY DEF Begin, ReadRecord, WalkTree, BuildPlan, LookAtRoot, MakeRoot, OpenRoot, LockRoot,
     LockExpires, OpenNamespace, Abandon, Unchain, InitMetadata, Validate, Stage, txn
<1>4. pc'[p] # "install"
  <2>1. CASE Begin(p) \/ ReadRecord(p) \/ WalkTree(p) \/ BuildPlan(p)
    BY <2>1 DEF Begin, ReadRecord, WalkTree, BuildPlan, Loop, Leave, Goto
  <2>2. CASE \/ LookAtRoot(p) \/ MakeRoot(p) \/ OpenRoot(p) \/ LockRoot(p) \/ LockExpires(p)
             \/ OpenNamespace(p) \/ Abandon(p) \/ Unchain(p)
    BY <2>2 DEF LookAtRoot, MakeRoot, OpenRoot, LockRoot, LockExpires, OpenNamespace, Abandon,
       Unchain, Goto, Fail
  <2>3. CASE InitMetadata(p) \/ Validate(p) \/ Stage(p)
    <3>1. \/ Fail(p) \/ Goto(p, "promote")
          \/ \E t \in Targets : \/ Loop(p, t, "root", "validate", locked[p])
                               \/ Loop(p, t, "validate", "stage", {})
      BY <2>3 DEF InitMetadata, Validate, Stage
    <3> QED
      BY <3>1 DEF Loop, Goto, Fail
  <2> QED
    BY <2>1, <2>2, <2>3
<1> QED
  BY <1>2, <1>3, <1>4 DEF OnlyRacersInTheWay, OwnParents

LEMMA PromoteOwned ==
    ASSUME IInv, DInv, NEW p \in Applies, Promote(p)
    PROVE  OnlyRacersInTheWay(p)' /\ OwnParents(p)'
<1> USE DEF IInv, TypeOK, TypeOfControl, TypeOfDisk, TypeOfTxn
<1>1. /\ pc[p] = "promote" /\ sel' = sel /\ want' = want /\ seen' = seen /\ fd' = fd
      /\ locked' = locked /\ journal' = journal /\ phase' = phase
  BY DEF Promote, plan, handles
<1>2. OwnParents(p) /\ Course(p)
  BY DEF DInv, Owned
<1>3. PICK o \in Ops(p) :
         /\ NextOp(p, o)
         /\ \/ Fail(p) /\ UNCHANGED <<tree, parents>>
            \/ \E dirs, noted : /\ MakesOnly(p, o, dirs, noted)
                                /\ Fail(p) \/ GoesOn(p, o)
  BY PromoteMakes
<1> DEFINE t == o[1]
           i == fd[p][t]
<1>4. /\ o = <<t, o[2]>> /\ t \in Targets /\ o[2] \in Artifacts /\ o[2] \in Paths
      /\ t \in locked[p] /\ i \in Inodes /\ o \in Todo(p)
      /\ \A q \in Todo(p) \ {o} : Before(o, q)
  BY <1>1, <1>3, OpsTyped, OpsLocked DEF Working, LocksHeld, LocksHeldBy, Holds, NextOp
<1>5. Todo(p)' = Todo(p) /\ Ops(p)' = Ops(p) /\ \A q : NextOp(p, q)' = NextOp(p, q)
  BY <1>1 DEF Todo, Ops, NextOp
<1>6. \A y \in Above[o[2]] : y \in Paths /\ y # o[2] /\ <<t, y>> \notin Todo(p)
  <2>1. ASSUME NEW y \in Above[o[2]], <<t, y>> \in Todo(p) PROVE FALSE
    <3>1. /\ y \in Paths /\ PathRank[y] < PathRank[o[2]] /\ PathRank[y] \in Nat
          /\ PathRank[o[2]] \in Nat
      BY <1>4, PlannerAssumption
    <3>2. <<t, y>> # o
      BY <1>4, <3>1
    <3>3. Before(o, <<t, y>>)
      BY <1>4, <2>1, <3>2
    <3> QED
      BY <1>4, <3>1, <3>3, ReconcilerAssumption DEF Before
  <2>2. \A y \in Above[o[2]] : y \in Paths /\ y # o[2]
    BY <1>4, PlannerAssumption
  <2> QED
    BY <2>1, <2>2
<1>7. CASE Fail(p) /\ UNCHANGED <<tree, parents>>
  <2>1. pc'[p] = "undo"
    BY <1>1, <1>2, <1>7, FailEnds DEF Promoting
  <2> QED
    BY <1>1, <1>2, <1>7, <2>1 DEF OnlyRacersInTheWay, OwnParents
<1>8. ASSUME NEW dirs, NEW noted, MakesOnly(p, o, dirs, noted), Fail(p) \/ GoesOn(p, o)
      PROVE  OnlyRacersInTheWay(p)' /\ OwnParents(p)'
  <2>1. \A j \in Inodes : \A x \in Paths :
           tree'[j][x] = IF j = i /\ x \in dirs
                         THEN [kind |-> "dir", to |-> NoSource, by |-> p] ELSE tree[j][x]
    BY <1>4, <1>8 DEF MakesOnly, MakesParents
  <2>2. parents'[p] = parents[p] \cup {<<t, y>> : y \in noted}
    BY <1>8 DEF MakesOnly, MakesParents
  <2>3. \A y \in dirs : y \in Above[o[2]] /\ tree[i][y].kind = "absent"
    BY <1>8 DEF MakesOnly, Parents, Absent
  <2>4. \A u \in locked[p] : fd[p][u] \in Inodes
    BY DEF LocksHeld, LocksHeldBy, Holds
  <2>5. ASSUME NEW u \in Targets, NEW x \in Paths, <<u, x>> \in parents'[p]
        PROVE  /\ u \in locked[p] /\ <<u, x>> \notin Todo(p)
               /\ tree'[fd[p][u]][x].kind = "dir" /\ tree'[fd[p][u]][x].by = p
    <3>1. CASE <<u, x>> \in parents[p]
      <4>1. /\ u \in locked[p] /\ <<u, x>> \notin Todo(p)
            /\ tree[fd[p][u]][x].kind = "dir" /\ tree[fd[p][u]][x].by = p
        BY <1>1, <1>2, <3>1 DEF OwnParents
      <4>2. tree'[fd[p][u]][x] = tree[fd[p][u]][x]
        BY <2>1, <2>3, <2>4, <4>1
      <4> QED
        BY <4>1, <4>2
    <3>2. CASE u = t /\ x \in noted
      <4>0. x \in dirs
        BY <1>8, <3>2 DEF MakesOnly
      <4>1. x \in Above[o[2]] /\ <<t, x>> \notin Todo(p)
        BY <1>6, <2>3, <4>0
      <4>2. tree'[i][x] = [kind |-> "dir", to |-> NoSource, by |-> p]
        BY <1>4, <2>1, <4>0
      <4> QED
        BY <1>4, <3>2, <4>1, <4>2
    <3> QED
      BY <2>2, <2>5, <3>1, <3>2
  <2>6. OwnParents(p)'
    BY <1>1, <1>5, <2>5 DEF OwnParents
  <2>7. OnlyRacersInTheWay(p)'
    <3>1. SUFFICES ASSUME pc'[p] = "install", NEW q, NextOp(p, q)
                   PROVE  tree'[fd[p][q[1]]][q[2]].kind = "absent"
      BY <1>1, <1>5 DEF OnlyRacersInTheWay
    <3>2. ~Fail(p)
      BY <1>1, <1>2, <3>1, FailEnds DEF Promoting
    <3>3. AsPlanned(p, o) /\ Kind(p, o) = "CREATE"
      BY <1>8, <3>1, <3>2 DEF GoesOn, Goto
    <3>4. q = o
      BY <1>3, <3>1, NextUnique
    <3> QED
      BY <1>4, <1>6, <2>1, <2>3, <3>3, <3>4 DEF AsPlanned
  <2> QED
    BY <2>6, <2>7
<1> QED
  BY <1>3, <1>7, <1>8

(* A directory of the run is at no place that an operation writes to.       *)
LEMMA OperationBeside ==
    ASSUME IInv, DInv, NEW p \in Applies, pc[p] \in {"move", "install"}, NEW o \in Ops(p),
           NextOp(p, o), NEW n, tree' = [tree EXCEPT ![fd[p][o[1]]][o[2]] = n]
    PROVE  \A t \in Targets : \A x \in Paths : <<t, x>> \in parents[p] =>
              /\ tree'[fd[p][t]][x] = tree[fd[p][t]][x]
              /\ t \in locked[p] /\ tree[fd[p][t]][x].kind = "dir" /\ tree[fd[p][t]][x].by = p
<1> USE DEF IInv, TypeOK, TypeOfDisk
<1> SUFFICES ASSUME NEW t \in Targets, NEW x \in Paths, <<t, x>> \in parents[p]
             PROVE  /\ tree'[fd[p][t]][x] = tree[fd[p][t]][x]
                    /\ t \in locked[p] /\ tree[fd[p][t]][x].kind = "dir"
                    /\ tree[fd[p][t]][x].by = p
  OBVIOUS
<1>1. /\ t \in locked[p] /\ <<t, x>> \notin Todo(p)
      /\ tree[fd[p][t]][x].kind = "dir" /\ tree[fd[p][t]][x].by = p
  BY DEF DInv, Owned, OwnParents
<1>2. /\ o[1] \in locked[p] /\ o[1] \in Targets /\ o = <<o[1], o[2]>> /\ o \in Todo(p)
  BY OpsTyped, OpsLocked DEF Working, NextOp
<1>3. fd[p][t] \in Inodes /\ fd[p][t] # NoInode
  BY <1>1, ReconcilerAssumption DEF LocksHeld, LocksHeldBy, Holds
<1>4. fd[p][t] = fd[p][o[1]] => t = o[1]
  BY <1>2, <1>3 DEF InodesApart
<1>5. ~(fd[p][t] = fd[p][o[1]] /\ x = o[2])
  BY <1>1, <1>2, <1>4
<1> QED
  BY <1>1, <1>3, <1>5

(* Behind the operation nothing comes back to the list.                     *)
LEMMA OperationOwned ==
    ASSUME IInv, DInv, NEW p \in Applies, MoveAside(p) \/ Install(p)
    PROVE  OnlyRacersInTheWay(p)' /\ OwnParents(p)'
<1> USE DEF IInv, TypeOK, TypeOfControl, TypeOfDisk, TypeOfTxn
<1>1. /\ pc[p] \in {"move", "install"} /\ sel' = sel /\ want' = want /\ seen' = seen /\ fd' = fd
      /\ locked' = locked /\ parents' = parents
  BY DEF MoveAside, Install, plan, handles
<1>2. Course(p) /\ OwnParents(p)
  BY DEF DInv, Owned
<1>3. PICK o \in Ops(p) :
         /\ NextOp(p, o)
         /\ \/ Fail(p) /\ tree' = tree
            \/ Fail(p) /\ \E n : tree' = [tree EXCEPT ![fd[p][o[1]]][o[2]] = n]
            \/ Journaled(p, o) /\ \E n : tree' = [tree EXCEPT ![fd[p][o[1]]][o[2]] = n]
            \/ /\ Goto(p, "install") /\ journal' = journal
               /\ tree' = [tree EXCEPT ![fd[p][o[1]]][o[2]] = Hole]
  <2>1. CASE MoveAside(p)
    BY <2>1 DEF MoveAside, PutAside
  <2>2. CASE Install(p)
    BY <2>2 DEF Install, PutLink, PutNoLink, PutBack
  <2> QED
    BY <2>1, <2>2
<1>4. o \in Todo(p) /\ o[1] \in Targets /\ o[2] \in Paths
  BY <1>3, OpsTyped DEF NextOp
<1>5. \A t \in Targets : \A x \in Paths : <<t, x>> \in parents[p] =>
         /\ tree'[fd[p][t]][x] = tree[fd[p][t]][x]
         /\ t \in locked[p] /\ tree[fd[p][t]][x].kind = "dir" /\ tree[fd[p][t]][x].by = p
  <2>1. CASE tree' = tree
    BY <1>1, <1>2, <2>1 DEF OwnParents
  <2>2. ASSUME NEW n, tree' = [tree EXCEPT ![fd[p][o[1]]][o[2]] = n]
        PROVE  \A t \in Targets : \A x \in Paths : <<t, x>> \in parents[p] =>
                  /\ tree'[fd[p][t]][x] = tree[fd[p][t]][x]
                  /\ t \in locked[p] /\ tree[fd[p][t]][x].kind = "dir"
                  /\ tree[fd[p][t]][x].by = p
    <3>1. NextOp(p, o)
      BY <1>3
    <3> QED
      BY ONLY IInv, DInv, p \in Applies, <1>1, o \in Ops(p), <3>1, <2>2, OperationBeside
  <2>3. \/ tree' = tree
        \/ \E n : tree' = [tree EXCEPT ![fd[p][o[1]]][o[2]] = n]
    BY <1>3
  <2> QED
    BY <2>1, <2>2, <2>3
<1>6. \/ pc'[p] \in {"undo", "clean"}
      \/ /\ pc'[p] = "promote" /\ Todo(p)' \subseteq Todo(p)
      \/ /\ pc'[p] = "install" /\ Todo(p)' = Todo(p)
         /\ tree' = [tree EXCEPT ![fd[p][o[1]]][o[2]] = Hole]
  <2>1. Ops(p)' = Ops(p)
    BY <1>1 DEF Ops
  <2>2. CASE Fail(p)
    BY <1>1, <1>2, <2>2, FailEnds DEF Promoting
  <2>3. CASE Journaled(p, o) /\ ~Fail(p)
    BY <2>1, <2>3 DEF Journaled, Goto, Todo
  <2>4. CASE /\ Goto(p, "install") /\ journal' = journal
             /\ tree' = [tree EXCEPT ![fd[p][o[1]]][o[2]] = Hole]
    BY <2>1, <2>4 DEF Goto, Todo
  <2> QED
    BY <1>3, <2>2, <2>3, <2>4
<1>7. OwnParents(p)'
  <2>1. SUFFICES ASSUME NEW t \in Targets, NEW x \in Paths, <<t, x>> \in parents[p]
                 PROVE  /\ t \in locked[p]
                        /\ tree'[fd[p][t]][x].kind = "dir" /\ tree'[fd[p][t]][x].by = p
                        /\ pc'[p] \in {"promote", "move", "install"} => <<t, x>> \notin Todo(p)'
    BY <1>1 DEF OwnParents
  <2>2. <<t, x>> \notin Todo(p)
    BY <1>1, <1>2, <2>1 DEF OwnParents
  <2>3. pc'[p] \in {"promote", "move", "install"} => Todo(p)' \subseteq Todo(p)
    BY <1>6
  <2>4. /\ tree'[fd[p][t]][x] = tree[fd[p][t]][x]
        /\ t \in locked[p] /\ tree[fd[p][t]][x].kind = "dir" /\ tree[fd[p][t]][x].by = p
    BY <1>5, <2>1
  <2>5. tree'[fd[p][t]][x].kind = "dir" /\ tree'[fd[p][t]][x].by = p
    BY ONLY <2>4
  <2>6. pc'[p] \in {"promote", "move", "install"} => <<t, x>> \notin Todo(p)'
    BY ONLY <2>2, <2>3
  <2> QED
    BY ONLY <2>4, <2>5, <2>6
<1>8. OnlyRacersInTheWay(p)'
  <2>1. SUFFICES ASSUME pc'[p] = "install", NEW q \in Ops(p)', NextOp(p, q)'
                 PROVE  tree'[fd'[p][q[1]]][q[2]].kind = "absent"
    BY DEF OnlyRacersInTheWay
  <2>2. Todo(p)' = Todo(p) /\ tree' = [tree EXCEPT ![fd[p][o[1]]][o[2]] = Hole]
    BY <1>6, <2>1
  <2>3. NextOp(p, q)
    BY <2>1, <2>2 DEF NextOp
  <2>4. q = o
    BY <1>3, <2>3, NextUnique
  <2>5. fd[p][o[1]] \in Inodes
    BY <1>1, <1>3, OpsLocked DEF Working, LocksHeld, LocksHeldBy, Holds
  <2> QED
    BY <1>1, <1>4, <2>2, <2>4, <2>5 DEF Hole
<1> QED
  BY <1>7, <1>8

(* Later steps leave directories that they do not prune.                    *)
LEMMA LaterOwned ==
    ASSUME IInv, DInv, NEW p \in Applies,
           \/ CleanStaging(p) \/ Publish(p) \/ DropBackup(p) \/ Settle(p) \/ Undo(p)
           \/ PutBackup(p) \/ RestoreMetadata(p) \/ Discard(p)
    PROVE  OnlyRacersInTheWay(p)' /\ OwnParents(p)'
<1> USE DEF IInv, TypeOK, TypeOfControl, TypeOfDisk
<1>1. pc'[p] \notin {"promote", "move", "install"}
  <2>1. CASE CleanStaging(p)
    BY <2>1 DEF CleanStaging, Goto, Fail
  <2>2. CASE Publish(p) \/ DropBackup(p) \/ Settle(p) \/ RestoreMetadata(p) \/ Discard(p)
    <3>1. \/ Fail(p)
          \/ \E t \in Targets : \/ Loop(p, t, "publish", "drop", locked[p])
                               \/ Loop(p, t, "drop", "release", locked[p])
                               \/ Loop(p, t, "settle", "release", locked[p])
                               \/ Loop(p, t, "restore", "discard", locked[p])
                               \/ Loop(p, t, "discard", "prune", locked[p])
      BY <2>2 DEF Publish, DropBackup, Settle, RestoreMetadata, Discard
    <3> QED
      BY <3>1 DEF Loop, Goto, Fail
  <2>3. CASE Undo(p) \/ PutBackup(p)
    BY <2>3 DEF Undo, PutBackup, Goto
  <2> QED
    BY <2>1, <2>2, <2>3
<1>2. parents' = parents /\ pc[p] # "report" /\ ~Release(p)
  BY DEF CleanStaging, Publish, DropBackup, Settle, Undo, PutBackup, RestoreMetadata, Discard, txn,
     Release
<1>3. \/ tree' = tree
      \/ \E i, x, n : tree' = [tree EXCEPT ![i][x] = n] /\ tree[i][x].kind # "dir"
  <2>1. CASE Undo(p)
    <3>1. \/ tree' = tree
          \/ \E o \in journal[p] :
                LET i == fd[p][o[1]]
                    node == tree[i][o[2]]
                    installed == Kind(p, o) # "REMOVE" /\ node.kind # "absent"
                IN /\ installed => OwnLink(p, o, node)
                   /\ tree' = [tree EXCEPT ![i][o[2]] = IF installed THEN Hole ELSE @]
      BY <2>1 DEF Undo
    <3>2. ASSUME NEW o \in journal[p],
                 LET i == fd[p][o[1]]
                     node == tree[i][o[2]]
                     installed == Kind(p, o) # "REMOVE" /\ node.kind # "absent"
                 IN /\ installed => OwnLink(p, o, node)
                    /\ tree' = [tree EXCEPT ![i][o[2]] = IF installed THEN Hole ELSE @]
          PROVE  \/ tree' = tree
                 \/ tree' = [tree EXCEPT ![fd[p][o[1]]][o[2]] = Hole]
                    /\ tree[fd[p][o[1]]][o[2]].kind # "dir"
      BY <3>2 DEF OwnLink
    <3> QED
      BY <3>1, <3>2
  <2>2. CASE PutBackup(p)
    <3>1. \/ tree' = tree
          \/ \E o \in journal[p] : PutBack(p, o)
      BY <2>2 DEF PutBackup
    <3>2. ASSUME NEW o \in journal[p], PutBack(p, o)
          PROVE  \/ tree' = tree
                 \/ \E i, x, n : tree' = [tree EXCEPT ![i][x] = n] /\ tree[i][x].kind # "dir"
      <4>1. \/ tree' = tree
            \/ /\ tree' = [tree EXCEPT ![fd[p][o[1]]][o[2]] = bak[p][o[1]][o[2]]]
               /\ tree[fd[p][o[1]]][o[2]].kind # "dir"
        BY <3>2 DEF PutBack, Absent
      <4> QED
        BY ONLY <4>1
    <3> QED
      BY <3>1, <3>2
  <2>3. CASE ~Undo(p) /\ ~PutBackup(p)
    BY <2>3 DEF CleanStaging, Publish, DropBackup, Settle, RestoreMetadata, Discard, disk
  <2> QED
    BY <2>1, <2>2, <2>3
<1>4. \A t \in locked[p] : fd[p][t] \in Inodes
  BY DEF LocksHeld, LocksHeldBy, Holds
<1>5. \A t \in locked[p] : \A x \in Paths :
         tree[fd[p][t]][x].kind = "dir" => tree'[fd[p][t]][x] = tree[fd[p][t]][x]
  <2>1. ASSUME NEW i, NEW x, NEW n, tree' = [tree EXCEPT ![i][x] = n], tree[i][x].kind # "dir",
               NEW j \in Inodes, NEW y \in Paths, tree[j][y].kind = "dir"
        PROVE  tree'[j][y] = tree[j][y]
    BY <2>1
  <2> QED
    BY <1>3, <1>4, <2>1
<1>6. OwnParents(p)'
  <2>1. Begin(p) \/ Step(p)
    BY DEF Step
  <2> QED
    BY ONLY IInv, DInv, p \in Applies, <1>1, <1>2, <1>5, <2>1, SameParents
<1> QED
  BY <1>1, <1>6 DEF OnlyRacersInTheWay

LEMMA EndOwned ==
    ASSUME IInv, NEW p \in Applies, Prune(p) \/ Report(p) \/ Release(p) \/ Crash(p)
    PROVE  OnlyRacersInTheWay(p)' /\ OwnParents(p)'
<1> USE DEF IInv, TypeOK, TypeOfControl, TypeOfTxn
<1>1. CASE Prune(p)
  BY <1>1 DEF Prune, Goto, OnlyRacersInTheWay, OwnParents
<1>2. CASE Report(p)
  <2>1. pc'[p] \in {"report", "release"}
    BY <1>2 DEF Report, Loop, Goto
  <2> QED
    BY <2>1 DEF OnlyRacersInTheWay, OwnParents
<1>3. CASE Release(p)
  BY <1>3 DEF Release, Goto, Reset, OnlyRacersInTheWay, OwnParents
<1>4. CASE Crash(p)
  BY <1>4 DEF Crash, Goto, Reset, OnlyRacersInTheWay, OwnParents
<1> QED
  BY <1>1, <1>2, <1>3, <1>4

LEMMA OwnedInit == Init => DInv
BY DEF Init, DInv, Owned, Course, NothingMade, OnlyRacersInTheWay, OwnParents, Early, Preparing,
   Promoting

LEMMA OwnedNext == IInv /\ DInv /\ [Next]_vars => DInv'
<1> SUFFICES ASSUME IInv, DInv, [Next]_vars PROVE DInv'
  OBVIOUS
<1>1. ASSUME NEW p \in Applies, Begin(p) \/ Step(p) \/ Crash(p) PROVE DInv'
  <2>1. \A q \in Applies \ {p} : Owned(q)'
    BY <1>1, OthersOwn
  <2>2. Course(p)'
    BY <1>1, CourseStep DEF DInv, Owned
  <2>3. NothingMade(p)'
    BY <1>1, UnstartedStep DEF DInv, Owned, NothingMade, Unstarted
  <2>4. OnlyRacersInTheWay(p)' /\ OwnParents(p)'
    <3>1. CASE \/ Begin(p) \/ ReadRecord(p) \/ WalkTree(p) \/ BuildPlan(p)
               \/ LookAtRoot(p) \/ MakeRoot(p) \/ OpenRoot(p) \/ LockRoot(p) \/ LockExpires(p)
               \/ OpenNamespace(p) \/ Abandon(p) \/ Unchain(p) \/ InitMetadata(p) \/ Validate(p)
               \/ Stage(p)
      BY <3>1, MadeRootsOwned
    <3>2. CASE Promote(p) \/ MoveAside(p) \/ Install(p)
      BY <3>2, PromoteOwned, OperationOwned
    <3>3. CASE \/ CleanStaging(p) \/ Publish(p) \/ DropBackup(p) \/ Settle(p) \/ Undo(p)
               \/ PutBackup(p) \/ RestoreMetadata(p) \/ Discard(p)
      BY <3>3, LaterOwned
    <3>4. CASE Prune(p) \/ Report(p) \/ Release(p) \/ Crash(p)
      BY <3>4, EndOwned
    <3> QED
      BY <1>1, <3>1, <3>2, <3>3, <3>4 DEF Step
  <2> QED
    BY <2>1, <2>2, <2>3, <2>4 DEF DInv, Owned
<1>2. CASE UserStep
  BY <1>2, UserKeepsOwn
<1>3. CASE UNCHANGED vars
  <2>1. /\ tree' = tree /\ pc' = pc /\ phase' = phase /\ fd' = fd /\ locked' = locked
        /\ sel' = sel /\ want' = want /\ seen' = seen /\ journal' = journal /\ parents' = parents
        /\ outcome' = outcome
    BY <1>3 DEF vars, disk, plan, control, handles, txn
  <2> QED
    BY <2>1 DEF DInv, Owned, Course, RolledBack, Settled, NothingMade, OnlyRacersInTheWay,
       OwnParents, NextOp, Todo, Ops
<1> QED
  BY <1>1, <1>2, <1>3 DEF Next, Finished

(* What leaves a tree: into the backup, or from what the run put there.     *)
LEMMA StepDestroysNothing ==
    ASSUME IInv, DInv, NEW p \in Applies, Begin(p) \/ Step(p) \/ Crash(p),
           NEW i \in Inodes, NEW x \in Paths, tree'[i][x] # tree[i][x],
           tree[i][x].kind # "absent", tree[i][x].by # "racer"
    PROVE  Kept(p, i, x)
<1> USE DEF IInv, TypeOK, TypeOfDisk
<1>1. Course(p) /\ OnlyRacersInTheWay(p) /\ OwnParents(p)
  BY DEF DInv, Owned
<1>2. CASE Promote(p)
  <2>1. PICK o \in Ops(p) : tree' = tree \/ \E dirs, noted : MakesOnly(p, o, dirs, noted)
    BY <1>2, PromoteMakes
  <2>2. PICK dirs, noted : MakesOnly(p, o, dirs, noted)
    BY <2>1
  <2>3. tree' = [tree EXCEPT ![fd[p][o[1]]] = [z \in Paths |->
           IF z \in dirs THEN [kind |-> "dir", to |-> NoSource, by |-> p] ELSE @[z]]]
    BY <2>2 DEF MakesOnly, MakesParents
  <2>4. i = fd[p][o[1]] /\ x \in Parents(p, o)
    BY <2>2, <2>3 DEF MakesOnly
  <2> QED
    BY <2>4 DEF Parents, Absent
<1>3. CASE MoveAside(p)
  <2>1. PICK o \in Ops(p) :
           /\ bak' = [bak EXCEPT ![p][o[1]][o[2]] = tree[fd[p][o[1]]][o[2]]]
           /\ tree' = [tree EXCEPT ![fd[p][o[1]]][o[2]] = Hole]
    BY <1>3 DEF MoveAside, PutAside
  <2>2. o[1] \in locked[p] /\ o[1] \in Targets /\ o[2] \in Paths
    BY <1>3, OpsTyped, OpsLocked DEF MoveAside, Working
  <2>3. i = fd[p][o[1]] /\ x = o[2]
    BY <2>1
  <2>4. bak'[p][o[1]][o[2]] = tree[fd[p][o[1]]][o[2]]
    BY <2>1, <2>2 DEF TypeOfTxn
  <2> QED
    BY <2>2, <2>3, <2>4 DEF Kept
<1>4. CASE Install(p)
  <2>1. PICK o \in Ops(p) :
           /\ NextOp(p, o)
           /\ \/ tree' = [tree EXCEPT ![fd[p][o[1]]][o[2]] = StagedLink(p, o)]
              \/ /\ Absent(fd[p][o[1]], o[2])
                 /\ \E n : tree' = [tree EXCEPT ![fd[p][o[1]]][o[2]] = n]
    BY <1>4 DEF Install, PutLink, PutNoLink, PutBack
  <2>2. \E n : tree' = [tree EXCEPT ![fd[p][o[1]]][o[2]] = n]
    BY <2>1
  <2>3. i = fd[p][o[1]] /\ x = o[2]
    BY <2>2
  <2> QED
    BY <1>1, <1>4, <2>1, <2>3 DEF OnlyRacersInTheWay, Install
<1>5. CASE Undo(p)
  <2>1. PICK o \in journal[p] :
           LET node == tree[fd[p][o[1]]][o[2]]
               installed == Kind(p, o) # "REMOVE" /\ node.kind # "absent"
           IN /\ installed => OwnLink(p, o, node)
              /\ tree' = [tree EXCEPT ![fd[p][o[1]]][o[2]] = IF installed THEN Hole ELSE @]
    BY <1>5 DEF Undo
  <2>2. i = fd[p][o[1]] /\ x = o[2]
    BY <2>1
  <2>3. tree[i][x].by = p
    BY <2>1, <2>2 DEF OwnLink
  <2> QED
    BY <1>1, <1>5, <2>3 DEF Undo, Course, RolledBack, Kept
<1>6. CASE PutBackup(p)
  BY <1>6 DEF PutBackup, PutBack, Absent
<1>7. CASE Prune(p)
  <2>1. PICK t \in locked[p] : fd[p][t] = i /\ Prunable(p, t, x)
    BY <1>7 DEF Prune
  <2>2. t \in Targets
    BY DEF TypeOfHandles
  <2>3. tree[i][x].by = p
    BY <1>1, <1>7, <2>1, <2>2 DEF OwnParents, Prunable, CreatedDir, Prune
  <2> QED
    BY <1>1, <1>7, <2>3 DEF Prune, Course, RolledBack, Kept
<1>8. CASE ~(Promote(p) \/ MoveAside(p) \/ Install(p) \/ Undo(p) \/ PutBackup(p) \/ Prune(p))
  <2>1. tree' = tree
    BY <1>8 DEF Step, Begin, ReadRecord, WalkTree, BuildPlan, LookAtRoot, MakeRoot, OpenRoot,
       LockRoot, LockExpires, OpenNamespace, Abandon, Unchain, InitMetadata, Validate, Stage,
       CleanStaging, Publish, DropBackup, Settle, RestoreMetadata, Discard, Report, Release, Crash,
       disk
  <2> QED
    BY <2>1
<1> QED
  BY <1>2, <1>3, <1>4, <1>5, <1>6, <1>7, <1>8

(* No step of the manager destroys an entry of somebody else, except one    *)
(* that a user wrote between its check and the rename behind it.            *)
THEOREM NothingOfOthersIsLost == Spec => NothingDestroyed
<1>1. Init => IInv /\ DInv
  BY InvariantInit, OwnedInit
<1>2. IInv /\ DInv /\ [Next]_vars => IInv' /\ DInv'
  BY InvariantNext, OwnedNext
<1>3. IInv /\ DInv /\ [Next]_vars =>
         [envs' = envs => \A i \in Inodes : \A x \in Paths :
            tree'[i][x] # tree[i][x] /\ tree[i][x].kind # "absent" /\ tree[i][x].by # "racer"
               => \E p \in Applies : OthersRest(p) /\ Kept(p, i, x)]_vars
  <2> SUFFICES ASSUME IInv, DInv, [Next]_vars, envs' = envs, NEW i \in Inodes, NEW x \in Paths,
                      tree'[i][x] # tree[i][x], tree[i][x].kind # "absent", tree[i][x].by # "racer"
               PROVE  \E p \in Applies : OthersRest(p) /\ Kept(p, i, x)
    OBVIOUS
  <2>1. ~UserStep
    BY DEF UserStep, IInv, TypeOK, TypeOfBudget
  <2>2. ~UNCHANGED vars
    BY DEF vars, disk
  <2>3. PICK p \in Applies : Begin(p) \/ Step(p) \/ Crash(p)
    BY <2>1, <2>2 DEF Next, Finished
  <2>4. OthersRest(p)
    BY <2>3, StepFrame DEF OthersUntouched, OthersRest
  <2>5. Kept(p, i, x)
    BY <2>3, StepDestroysNothing
  <2> QED
    BY <2>4, <2>5
<1> QED
  BY <1>1, <1>2, <1>3, PTL DEF Spec, NothingDestroyed(* Where roots exist and records can be read, runs find their own records.  *)
LEMMA RootsKept ==
    ASSUME IInv, WInv, NEW p \in Applies, Begin(p) \/ Step(p) \/ Crash(p)
    PROVE  /\ at' = at
           /\ \A q \in Applies : \A t \in Targets : made'[q][t] = NoInode
<1>1. \A t \in Targets : at[t] # NoInode /\ ~Removable(p, t)
  BY DEF WInv, Removable
<1>2. at' = at
  BY <1>1, PathEffects
<1>3. \A q \in Applies : \A t \in Targets : made[q][t] = NoInode
  BY DEF WInv
<1>4. CASE RootStep(p)
  <2>1. CASE MakeRoot(p)
    BY <1>1, <1>3, <2>1 DEF MakeRoot
  <2>2. CASE OpenRoot(p) \/ OpenNamespace(p) \/ Abandon(p) \/ Report(p)
    <3>1. made' = made
      BY <2>2 DEF OpenRoot, OpenNamespace, Abandon, Report, handles
    <3> QED
      BY <1>2, <1>3, <3>1
  <2>3. CASE Unchain(p) \/ Release(p) \/ Crash(p)
    <3>1. \/ made' = made
          \/ \E t \in Targets : made' = [made EXCEPT ![p][t] = NoInode]
          \/ made' = [made EXCEPT ![p] = [t \in Targets |-> NoInode]]
      BY <2>3 DEF Unchain, Release, Crash, handles
    <3>2. made \in [Applies -> [Targets -> Inodes \cup {NoInode}]]
      BY DEF IInv, TypeOK, TypeOfHandles
    <3>3. ASSUME NEW u \in Targets, made' = [made EXCEPT ![p][u] = NoInode],
                 NEW q \in Applies, NEW t \in Targets
          PROVE  made'[q][t] = NoInode
      BY <1>3, <3>2, <3>3
    <3>4. ASSUME made' = [made EXCEPT ![p] = [t \in Targets |-> NoInode]],
                 NEW q \in Applies, NEW t \in Targets
          PROVE  made'[q][t] = NoInode
      BY <1>3, <3>2, <3>4
    <3> QED
      BY <1>2, <1>3, <3>1, <3>3, <3>4
  <2> QED
    BY <1>4, <2>1, <2>2, <2>3 DEF RootStep
<1>5. CASE ~RootStep(p)
  BY <1>3, <1>5, RootsElse DEF RootStep
<1> QED
  BY <1>2, <1>4, <1>5

(* What a run has locked, it has taken, but for the target whose record it  *)
(* is about to read.                                                        *)
LEMMA TakenBefore ==
    ASSUME IInv, NEW p \in Applies, Begin(p) \/ Step(p) \/ Crash(p),
           ~InitMetadata(p), NEW t \in Taken(p)'
    PROVE  t \in Taken(p) /\ fd'[p][t] = fd[p][t] /\ t \in Targets
<1> USE DEF IInv, TypeOK, TypeOfControl, TypeOfHandles
<1>1. CASE Crash(p)
  BY <1>1 DEF Crash, Taken
<1>2. CASE Release(p)
  BY <1>2 DEF Release, Taken, handles
<1>3. CASE OpenNamespace(p)
  <2>1. PICK u \in Targets :
           /\ First(p, u)
           /\ \/ locked' = [locked EXCEPT ![p] = @ \cup {u}] /\ Goto(p, "init")
              \/ locked' = locked
    BY <1>3 DEF OpenNamespace
  <2>2. fd' = fd /\ left' = left /\ pc[p] = "ns"
    BY <1>3 DEF OpenNamespace
  <2>3. t \in locked[p]
    BY <2>1, <2>2 DEF Taken, Goto, First
  <2> QED
    BY <2>2, <2>3 DEF Taken
<1>4. CASE (Begin(p) \/ Step(p)) /\ ~Release(p) /\ ~OpenNamespace(p) /\ ~Crash(p)
  <2>1. locked' = locked
    BY <1>4, RootsElse DEF RootStep, MakeRoot, OpenRoot, Abandon, Unchain, Report, handles
  <2>2. t \in locked[p] /\ fd'[p][t] = fd[p][t]
    BY <1>4, <2>1, LockedHandles DEF Taken
  <2>3. pc[p] # "init"
    BY <1>4 DEF Step, Begin, ReadRecord, WalkTree, BuildPlan, LookAtRoot, MakeRoot, OpenRoot, LockRoot,
       LockExpires, Abandon, Unchain, Validate, Stage, Promote,
       MoveAside, Install, CleanStaging, Publish, DropBackup, Settle, Undo, PutBackup,
       RestoreMetadata, Discard, Prune, Report
  <2> QED
    BY <2>2, <2>3 DEF Taken
<1> QED
  BY <1>1, <1>2, <1>3, <1>4 DEF Step

(* The plan and the records in mind change while nothing is locked, or when *)
(* a record is read.                                                        *)
LEMMA MindStays ==
    ASSUME IInv, NEW p \in Applies, Begin(p) \/ Step(p) \/ Crash(p), ~InitMetadata(p),
           NEW t \in Taken(p)'
    PROVE  prev'[p][t] = prev[p][t] /\ want'[p] = want[p]
<1> USE DEF IInv, TypeOK, TypeOfHandles, TypeOfTxn
<1>1. t \in locked'[p] /\ t \in locked[p]
  BY TakenBefore DEF Taken
<1>2. CASE Begin(p) \/ ReadRecord(p) \/ WalkTree(p) \/ BuildPlan(p)
  BY <1>1, <1>2 DEF Begin, ReadRecord, WalkTree, BuildPlan, TargetsTracked, Tracked, Unlocked
<1>3. CASE Release(p)
  BY <1>1, <1>3 DEF Release, handles, plan, TargetsTracked, Tracked, Turning
<1>4. CASE Crash(p)
  BY <1>1, <1>4 DEF Crash
<1>5. CASE Step(p) /\ ~(ReadRecord(p) \/ WalkTree(p) \/ BuildPlan(p) \/ Release(p))
  BY <1>5 DEF Step, LookAtRoot, MakeRoot, OpenRoot, LockRoot, LockExpires, OpenNamespace, Abandon,
     Unchain, Validate, Stage, Promote, MoveAside, Install, CleanStaging, Publish, DropBackup,
     Settle, Undo, PutBackup, RestoreMetadata, Discard, Prune, Report, plan, txn
<1> QED
  BY <1>2, <1>3, <1>4, <1>5

(* Reading a record, a run remembers it; finding none, it writes its own.   *)
LEMMA InitMetadataOwn ==
    ASSUME IInv, RInv, WInv, RootsExist, NEW p \in Applies, InitMetadata(p), NEW t \in Taken(p)',
           prev'[p][t] = NoFile
    PROVE  OwnRecord(p, t)'
<1> USE DEF IInv, TypeOK, TypeOfControl, TypeOfHandles, TypeOfTxn, TypeOfDisk
<1>1. /\ pc[p] = "init" /\ fd' = fd /\ locked' = locked /\ want' = want
      /\ t \in locked[p] /\ t \in Targets /\ fd[p][t] \in Inodes
  BY DEF InitMetadata, handles, plan, Taken, LocksHeld, LocksHeldBy, Holds
<1>2. PICK u \in Targets :
         /\ First(p, u)
         /\ \/ /\ ns[fd[p][u]].managed # NoFile
               /\ prev' = [prev EXCEPT ![p][u] = ns[fd[p][u]].managed] /\ ns' = ns
            \/ /\ ns[fd[p][u]].managed = NoFile /\ prev' = prev
               /\ \E m \in {NoFile, EmptyRecord(p)} : ns' = [ns EXCEPT ![fd[p][u]].managed = m]
  BY DEF InitMetadata, Fault, RootsExist
<1>3. u \in locked[p] /\ fd[p][u] \in Inodes /\ fd[p][t] # NoInode
  <2>1. u \in locked[p]
    BY <1>1, <1>2 DEF TargetsTracked, Tracked
  <2> QED
    BY <1>1, <2>1, ReconcilerAssumption DEF LocksHeld, LocksHeldBy, Holds
<1>4. CASE t = u
  <2>1. ns[fd[p][u]].managed = NoFile
    BY <1>2, <1>4
  <2>2. PICK m \in {NoFile, EmptyRecord(p)} : ns' = [ns EXCEPT ![fd[p][u]].managed = m]
    BY <1>2, <2>1
  <2>3. ns'[fd[p][u]].managed = m
    BY <1>3, <2>2 DEF Namespace
  <2> QED
    BY <1>1, <1>4, <2>3 DEF OwnRecord, Rec, EmptyRecord
<1>5. CASE t # u
  <2>1. fd[p][t] # fd[p][u]
    BY <1>1, <1>3, <1>5 DEF InodesApart
  <2>2. ns'[fd[p][t]] = ns[fd[p][t]] /\ prev[p][t] = NoFile
    BY <1>1, <1>2, <1>5, <2>1
  <2>3. ~First(p, t)
    BY <1>1, <1>2, <1>5, FirstUnique
  <2>4. t \in Taken(p)
    BY <1>1, <2>3 DEF Taken
  <2> QED
    BY <1>1, <2>2, <2>4 DEF WInv, OwnRecord, Rec, EmptyRecord, Published
<1> QED
  BY <1>4, <1>5

LEMMA OwnRecordStep ==
    ASSUME IInv, RInv, WInv, RootsExist, NEW p \in Applies, Begin(p) \/ Step(p) \/ Crash(p),
           NEW t \in Taken(p)', prev'[p][t] = NoFile
    PROVE  OwnRecord(p, t)'
<1> USE DEF IInv, TypeOK, TypeOfControl, TypeOfHandles, TypeOfDisk
<1>1. CASE InitMetadata(p)
  BY <1>1, InitMetadataOwn
<1>2. CASE ~InitMetadata(p)
  <2>1. /\ t \in Taken(p) /\ fd'[p][t] = fd[p][t] /\ t \in Targets
        /\ prev[p][t] = NoFile /\ want'[p] = want[p]
    BY <1>2, TakenBefore, MindStays
  <2>2. OwnRecord(p, t) /\ t \in locked[p] /\ fd[p][t] \in Inodes
    BY <2>1 DEF WInv, Taken, LocksHeld, LocksHeldBy, Holds
  <2>3. ns'[fd[p][t]].managed \in {ns[fd[p][t]].managed, NoFile, Published(p, t)}
    <3>1. CASE Publish(p)
      <4>1. PICK u \in Targets :
               First(p, u) /\ (ns' = ns \/ ns' = [ns EXCEPT ![fd[p][u]].managed = Published(p, u)])
        BY <3>1 DEF Publish
      <4>2. u \in locked[p]
        BY <3>1, <4>1 DEF Publish, TargetsTracked, Tracked, Looping, First
      <4>3. fd[p][u] = fd[p][t] => u = t
        BY <2>1, <2>2, <4>2, ReconcilerAssumption DEF InodesApart
      <4> QED
        BY <2>2, <4>1, <4>3 DEF Namespace
    <3>2. CASE RestoreMetadata(p)
      <4>1. PICK u \in Targets :
               First(p, u) /\ (ns' = ns \/ ns' = [ns EXCEPT ![fd[p][u]].managed = prev[p][u]])
        BY <3>2 DEF RestoreMetadata, OldRecord
      <4>2. fd[p][u] = fd[p][t] => u = t
        BY <2>1, <2>2, <4>1, ReconcilerAssumption DEF InodesApart
      <4> QED
        BY <2>1, <2>2, <4>1, <4>2 DEF Namespace
    <3>3. CASE ~(Publish(p) \/ RestoreMetadata(p))
      BY <1>2, <2>2, <3>3, RecordsOnlyGo
    <3> QED
      BY <3>1, <3>2, <3>3
  <2> QED
    BY <2>1, <2>2, <2>3 DEF OwnRecord, Rec, EmptyRecord, Published
<1> QED
  BY <1>1, <1>2

LEMMA OthersKeepTheirs ==
    ASSUME IInv, WInv, NEW p \in Applies, Begin(p) \/ Step(p) \/ Crash(p), NEW q \in Applies \ {p},
           NEW t \in Taken(q)', prev'[q][t] = NoFile
    PROVE  OwnRecord(q, t)'
<1>1. OthersUntouched(p) /\ OwnRootsOnly(p)
  BY StepFrame
<1>2. /\ pc'[q] = pc[q] /\ left'[q] = left[q] /\ want'[q] = want[q] /\ fd'[q] = fd[q]
      /\ locked'[q] = locked[q] /\ prev'[q] = prev[q]
  BY <1>1 DEF OthersUntouched
<1>3. t \in Taken(q) /\ t \in locked[q]
  BY <1>2 DEF Taken, First
<1>4. ns'[fd[q][t]] = ns[fd[q][t]]
  BY <1>1, <1>3 DEF OwnRootsOnly, IInv, LocksHeld, LocksHeldBy, Holds
<1>5. OwnRecord(q, t)
  BY <1>2, <1>3 DEF WInv
<1> QED
  BY <1>2, <1>4, <1>5 DEF OwnRecord, Rec, EmptyRecord, Published

LEMMA OwnRecordsInit == ASSUME Init, RootsExist PROVE WInv
<1>1. PICK w \in [Targets -> Priors] : at = [t \in Targets |-> IF w[t].present THEN Home[t] ELSE NoInode]
  BY DEF Init
<1>2. \A t \in Targets : at[t] = Home[t] /\ Home[t] # NoInode
  BY <1>1, ReconcilerAssumption DEF RootsExist
<1> QED
  BY <1>2 DEF Init, WInv, Taken

LEMMA OwnRecordsNext == ASSUME IInv, RInv, WInv, RootsExist, [Next]_vars PROVE WInv'
<1>1. ASSUME NEW p \in Applies, Begin(p) \/ Step(p) \/ Crash(p) PROVE WInv'
  BY <1>1, RootsKept, OwnRecordStep, OthersKeepTheirs DEF WInv
<1>2. CASE UserStep
  <2>1. /\ pc' = pc /\ left' = left /\ want' = want /\ fd' = fd /\ locked' = locked
        /\ made' = made /\ prev' = prev /\ ns' = ns
    BY <1>2 DEF UserStep, plan, control, handles, txn
  <2>2. \A t \in Targets : at'[t] # NoInode
    <3>1. \/ at' = at
          \/ \E t \in Targets : \E i \in Inodes : at' = [at EXCEPT ![t] = i]
      BY <1>2 DEF UserStep, UserWrites, UserRelinks, UserUnlinks, UserReplacesRoot
    <3> QED
      BY <3>1, ReconcilerAssumption DEF WInv, IInv, TypeOK, TypeOfDisk
  <2> QED
    BY <2>1, <2>2 DEF WInv, Taken, First, OwnRecord, Rec, EmptyRecord, Published
<1>3. CASE UNCHANGED vars
  <2>1. /\ at' = at /\ pc' = pc /\ left' = left /\ want' = want /\ fd' = fd /\ locked' = locked
        /\ made' = made /\ prev' = prev /\ ns' = ns
    BY <1>3 DEF vars, disk, plan, control, handles, txn
  <2> QED
    BY <2>1 DEF WInv, Taken, First, OwnRecord, Rec, EmptyRecord, Published
<1> QED
  BY <1>1, <1>2, <1>3 DEF Next, Finished

(* A record goes by a rollback of the run that wrote it.                    *)
LEMMA RecordGoes ==
    ASSUME IInv, RInv, WInv, NEW p \in Applies, Begin(p) \/ Step(p) \/ Crash(p), RootsExist,
           NEW i \in Inodes, ns[i].managed # NoFile, ns'[i].managed = NoFile
    PROVE  \E t \in locked[p] : fd[p][t] = i /\ Wrote(p, t, ns[i].managed)
<1> USE DEF IInv, TypeOK, TypeOfControl, TypeOfHandles, TypeOfDisk
<1>1. CASE RestoreMetadata(p)
  <2>1. PICK t \in Targets :
           First(p, t) /\ (ns' = ns \/ ns' = [ns EXCEPT ![fd[p][t]].managed = prev[p][t]])
    BY <1>1 DEF RestoreMetadata, OldRecord
  <2>2. i = fd[p][t] /\ prev[p][t] = NoFile
    BY <2>1 DEF Namespace
  <2>3. t \in Taken(p) /\ t \in locked[p]
    BY <1>1, <2>1 DEF RestoreMetadata, TargetsTracked, Tracked, Looping, First, Taken
  <2> QED
    BY <2>2, <2>3 DEF WInv, OwnRecord, Wrote, Rec
<1>2. CASE InitMetadata(p)
  <2>1. PICK t \in Targets : \/ ns' = ns
                             \/ /\ ns[fd[p][t]].managed = NoFile
                                /\ \E r : ns' = [ns EXCEPT ![fd[p][t]].managed = r]
    BY <1>2 DEF InitMetadata
  <2> QED
    BY <2>1
<1>3. CASE Publish(p)
  <2>1. PICK t \in Targets :
           First(p, t) /\ (ns' = ns \/ ns' = [ns EXCEPT ![fd[p][t]].managed = Published(p, t)])
    BY <1>3 DEF Publish
  <2>2. t \in sel[p] \/ want[p][t] \in Links
    BY DEF TypeOfPlan
  <2>3. Published(p, t) \in Record
    BY <2>2, ReconcilerAssumption DEF Published, Record, TypeOfPlan
  <2>4. ns'[i] = ns[i] \/ ns'[i] = [ns[i] EXCEPT !.managed = Published(p, t)]
    BY <2>1
  <2>5. ns[i] \in Namespace
    OBVIOUS
  <2> QED
    BY <2>3, <2>4, <2>5, RecordAssumption DEF Namespace
<1>4. CASE ~(InitMetadata(p) \/ Publish(p) \/ RestoreMetadata(p))
  <2>1. \/ ns' = ns
        \/ \E j : \/ ns' = [ns EXCEPT ![j].failure = TRUE]
                  \/ ns' = [ns EXCEPT ![j].exists = TRUE]
    <3>1. CASE Report(p)
      BY <3>1 DEF Report, WInv
    <3>2. CASE Settle(p)
      BY <3>2 DEF Settle
    <3>3. CASE OpenNamespace(p)
      BY <3>3 DEF OpenNamespace
    <3>4. CASE ~(Settle(p) \/ Report(p) \/ OpenNamespace(p))
      BY <1>4, <3>4 DEF Step, Begin, ReadRecord, WalkTree, BuildPlan, LookAtRoot, MakeRoot, OpenRoot,
         LockRoot, LockExpires, Abandon, Unchain, Validate, Stage, Promote, MoveAside, Install,
         CleanStaging, DropBackup, Undo, PutBackup, Discard, Prune, Release, Crash, disk
    <3> QED
      BY <3>1, <3>2, <3>3, <3>4
  <2>2. \/ ns'[i] = ns[i]
        \/ ns'[i] = [ns[i] EXCEPT !.failure = TRUE]
        \/ ns'[i] = [ns[i] EXCEPT !.exists = TRUE]
    BY <2>1
  <2>3. ns[i] \in Namespace
    OBVIOUS
  <2> QED
    BY <2>2, <2>3 DEF Namespace
<1> QED
  BY <1>1, <1>2, <1>3, <1>4

(* Where every root exists and records can be read, no run removes a record *)
(* that another one published or that was there before, whatever fails, is  *)
(* killed or written by users.                                              *)
THEOREM OthersRecordsStay == ASSUME RootsExist PROVE Spec => RecordsKept
<1>1. Init => IInv /\ RInv /\ WInv
  BY InvariantInit, RecordsInit, OwnRecordsInit
<1>2. IInv /\ RInv /\ WInv /\ [Next]_vars => IInv' /\ RInv' /\ WInv'
  BY InvariantNext, RecordsNext, OwnRecordsNext
<1>3. IInv /\ RInv /\ WInv /\ [Next]_vars =>
         [\A i \in Inodes : ns[i].managed # NoFile /\ ns'[i].managed = NoFile
            => \E p \in Applies : \E t \in locked[p] :
                  fd[p][t] = i /\ Wrote(p, t, ns[i].managed)]_vars
  <2> SUFFICES ASSUME IInv, RInv, WInv, [Next]_vars, NEW i \in Inodes,
                      ns[i].managed # NoFile, ns'[i].managed = NoFile
               PROVE  \E p \in Applies : \E t \in locked[p] :
                         fd[p][t] = i /\ Wrote(p, t, ns[i].managed)
    OBVIOUS
  <2>1. ~UserStep /\ ~UNCHANGED vars
    BY DEF UserStep, vars, disk
  <2>2. PICK p \in Applies : Begin(p) \/ Step(p) \/ Crash(p)
    BY <2>1 DEF Next, Finished
  <2> QED
    BY <2>2, RecordGoes
<1> QED
  BY <1>1, <1>2, <1>3, PTL DEF Spec, RecordsKept

------------------------------------------------------------------------------
(* Where no error gets between a backup and its journal entry, backups are  *)
(* accounted for.                                                           *)
LEMMA QuietBackups ==
    ASSUME NEW p \in Applies, BackedUp(p), pc[p] \notin {"install", "done"},
           \A t \in Targets : \A x \in Paths :
              bak[p][t][x].kind = "absent" => bak'[p][t][x].kind = "absent",
           journal'[p] = journal[p], errs[p] => errs'[p], RolledBack(p) => RolledBack(p)',
           phase[p] = "committed" => phase'[p] = "committed"
    PROVE  BackedUp(p)'
BY DEF BackedUp

(* Before the first link is moved there are none.                           *)
Before1st == Early \cup {"idle", "scan", "walk", "plan", "stage"}
LEMMA NoBackupsYet ==
    ASSUME NEW p \in Applies, BackedUp(p), Trees(p), pc[p] \in Before1st
    PROVE  \A t \in Targets : \A x \in Paths : bak[p][t][x].kind = "absent"
<1>1. journal[p] = {}
  BY DEF Trees, NothingDone, Before1st
<1>2. outcome[p] = "none" /\ phase[p] # "committed" /\ pc[p] \notin {"install", "done"}
  BY DEF Trees, Course, Before1st, Promoting, Early, Preparing
<1> QED
  BY <1>1, <1>2 DEF BackedUp, RolledBack

FirstStep(p) ==
    \/ Begin(p) \/ ReadRecord(p) \/ WalkTree(p) \/ BuildPlan(p) \/ LookAtRoot(p) \/ MakeRoot(p)
    \/ OpenRoot(p) \/ LockRoot(p) \/ LockExpires(p) \/ OpenNamespace(p) \/ Abandon(p) \/ Unchain(p)
    \/ InitMetadata(p) \/ Validate(p) \/ Stage(p)

LEMMA FirstStepsBackUpNothing ==
    ASSUME NEW p \in Applies, BackedUp(p), Trees(p), FirstStep(p)
    PROVE  /\ bak' = bak
           /\ \A t \in Targets : \A x \in Paths : bak'[p][t][x].kind = "absent"
<1>1. bak' = bak
  BY DEF FirstStep, Begin, ReadRecord, WalkTree, BuildPlan, LookAtRoot, MakeRoot, OpenRoot, LockRoot,
     LockExpires, OpenNamespace, Abandon, Unchain, InitMetadata, Validate, Stage, txn
<1>2. pc[p] \in Before1st
  BY DEF FirstStep, Begin, ReadRecord, WalkTree, BuildPlan, LookAtRoot, MakeRoot, OpenRoot, LockRoot,
     LockExpires, OpenNamespace, Abandon, Unchain, InitMetadata, Validate, Stage, Before1st, Early,
     Preparing
<1> QED
  BY <1>1, <1>2, NoBackupsYet

(* The next operation has no backup until its old link moves there.         *)
LEMMA NextNotBackedUp ==
    ASSUME NEW p \in Applies, BackedUp(p), Course(p), pc[p] \in {"promote", "move"},
           NEW o, NextOp(p, o), o = <<o[1], o[2]>>, o[1] \in Targets, o[2] \in Paths
    PROVE  bak[p][o[1]][o[2]].kind = "absent"
BY DEF BackedUp, Course, Promoting, RolledBack, NextOp, Todo

LEMMA JournaledBackups ==
    ASSUME NEW p \in Applies,
           \A t \in Targets : \A x \in Paths : bak'[p][t][x].kind # "absent" => <<t, x>> \in journal'[p]
    PROVE  BackedUp(p)'
BY DEF BackedUp

LEMMA JournalsIt ==
    ASSUME IInv, NEW p \in Applies, NEW o, Journaled(p, o)
    PROVE  journal'[p] = journal[p] \cup {o}
BY DEF Journaled, IInv, TypeOK, TypeOfTxn

(* A link moved aside is backed up for the next operation, journaled or not.*)
LEMMA MoveBacksUp ==
    ASSUME IInv, NEW p \in Applies, BackedUp(p), Trees(p), MoveAside(p)
    PROVE  BackedUp(p)'
<1> USE DEF IInv, TypeOK, TypeOfControl, TypeOfTxn
<1>1. pc[p] = "move" /\ plan' = plan /\ errs' = errs
  BY DEF MoveAside
<1>2. PICK o \in Ops(p) : NextOp(p, o) /\ (PutAside(p, o) \/ (Fail(p) /\ bak' = bak /\ journal' = journal))
  BY DEF MoveAside
<1>3. o = <<o[1], o[2]>> /\ o[1] \in Targets /\ o[2] \in Paths
  BY OpsTyped
<1>4. \A t \in Targets : \A x \in Paths : bak[p][t][x].kind # "absent" => <<t, x>> \in journal[p]
  BY <1>1 DEF Trees, BackedUp, Course, Promoting, RolledBack
<1>5. CASE bak' = bak /\ journal' = journal
  BY <1>4, <1>5 DEF BackedUp
<1>6. CASE PutAside(p, o)
  <2>1. bak' = [bak EXCEPT ![p][o[1]][o[2]] = tree[fd[p][o[1]]][o[2]]]
    BY <1>6 DEF PutAside
  <2>2. \A t \in Targets : \A x \in Paths : bak'[p][t][x].kind # "absent" => <<t, x>> \in journal[p] \cup {o}
    BY <1>3, <1>4, <2>1
  <2>3. CASE Journaled(p, o)
    <3>1. journal'[p] = journal[p] \cup {o}
      BY <2>3, JournalsIt
    <3> QED
      BY <2>2, <3>1, JournaledBackups
  <2>4. CASE Goto(p, "install") /\ journal' = journal
    <3>1. pc'[p] = "install"
      BY <2>4 DEF Goto
    <3>2. NextOp(p, o)' /\ o \in Ops(p)'
      BY <1>1, <1>2, <2>4 DEF NextOp, Todo, Ops, plan
    <3> QED
      BY <1>3, <2>2, <2>4, <3>1, <3>2 DEF BackedUp
  <2> QED
    BY <1>6, <2>3, <2>4 DEF PutAside
<1> QED
  BY <1>2, <1>5, <1>6

(* An installation that fails puts the old link back, whose place is free.  *)
LEMMA PlaceIsFree ==
    ASSUME IInv, NEW p \in Applies, Trees(p), pc[p] = "install", NEW o \in Ops(p), NextOp(p, o)
    PROVE  Absent(fd[p][o[1]], o[2])
<1>1. /\ o = <<o[1], o[2]>> /\ o[1] \in locked[p] /\ o[2] \in Artifacts
  BY OpsTyped, OpsLocked DEF Working, Ops
<1>2. TreesFollow(p) /\ StepsFollow(p)
  BY DEF Trees, Transaction, Active, Promoting
<1>3. want[p][o[1]][o[2]] # NoSource
  BY <1>2 DEF StepsFollow
<1>4. Now(p, o[1])[o[2]] = NoSource
  BY <1>1 DEF Now, NextOp, Todo
<1>5. o[2] \in Managed(want[p][o[1]]) /\ o[2] \notin Managed(Now(p, o[1]))
  BY <1>1, <1>3, <1>4 DEF Managed
<1> QED
  BY <1>1, <1>2, <1>5 DEF TreesFollow, Room

LEMMA InstallBacksUp ==
    ASSUME IInv, NoGaps, NEW p \in Applies, BackedUp(p), Trees(p), Install(p)
    PROVE  BackedUp(p)'
<1> USE DEF IInv, TypeOK, TypeOfControl, TypeOfTxn
<1>1. pc[p] = "install" /\ errs' = errs
  BY DEF Install
<1>2. PICK o \in Ops(p) : NextOp(p, o) /\ (PutLink(p, o) \/ PutNoLink(p, o))
  BY DEF Install
<1>3. o = <<o[1], o[2]>> /\ o[1] \in Targets /\ o[2] \in Paths
  BY OpsTyped
<1>4. \A t \in Targets : \A x \in Paths :
         bak[p][t][x].kind # "absent" => <<t, x>> \in journal[p] \cup {o}
  <2>1. \A q \in Ops(p) : NextOp(p, q) => q = o
    BY <1>2, NextUnique
  <2> QED
    BY <1>1, <2>1 DEF Trees, BackedUp, Course, Promoting, RolledBack
<1>5. CASE PutLink(p, o)
  <2>1. Journaled(p, o) /\ bak' = bak
    BY <1>5 DEF PutLink, NoGaps, Fault
  <2>2. journal'[p] = journal[p] \cup {o}
    BY <2>1, JournalsIt
  <2> QED
    BY <1>4, <2>1, <2>2, JournaledBackups
<1>6. CASE PutNoLink(p, o)
  <2>1. PutBack(p, o) /\ journal' = journal
    BY <1>6 DEF PutNoLink, NoGaps, Fault
  <2>2. Absent(fd[p][o[1]], o[2])
    BY <1>1, <1>2, PlaceIsFree
  <2>3. bak'[p][o[1]][o[2]].kind = "absent"
    BY <1>3, <2>1, <2>2 DEF PutBack, Hole
  <2>4. \A t \in Targets : \A x \in Paths : <<t, x>> # o => bak'[p][t][x] = bak[p][t][x]
    BY <1>3, <2>1 DEF PutBack
  <2>5. \A t \in Targets : \A x \in Paths : bak'[p][t][x].kind # "absent" => <<t, x>> \in journal'[p]
    <3> SUFFICES ASSUME NEW t \in Targets, NEW x \in Paths, bak'[p][t][x].kind # "absent"
                 PROVE  <<t, x>> \in journal'[p]
      OBVIOUS
    <3>1. <<t, x>> # o
      BY <2>3
    <3>2. bak[p][t][x].kind # "absent"
      BY <2>4, <3>1
    <3> QED
      BY <1>4, <2>1, <3>1, <3>2
  <2> QED
    BY <2>5, JournaledBackups
<1> QED
  BY <1>2, <1>5, <1>6

(* A rollback forgets an operation when its link is back or with an error.  *)
LEMMA UndoBacksUp ==
    ASSUME IInv, NEW p \in Applies, BackedUp(p), Trees(p), Undo(p) \/ PutBackup(p)
    PROVE  BackedUp(p)'
<1> USE DEF IInv, TypeOK, TypeOfControl, TypeOfTxn
<1>1. /\ pc[p] \in {"undo", "putback"} /\ phase' = phase /\ outcome' = outcome
      /\ RolledBack(p) /\ RolledBack(p)'
  BY DEF Undo, PutBackup, Trees, Course, RolledBack
<1>2. \A t \in Targets : \A x \in Paths :
         bak[p][t][x].kind # "absent" => <<t, x>> \in journal[p] \/ errs[p]
  BY <1>1 DEF BackedUp, RolledBack
<1>3. CASE bak' = bak /\ (journal' = journal \/ errs'[p]) /\ (errs[p] => errs'[p])
  BY <1>1, <1>2, <1>3 DEF BackedUp
<1>4. CASE Undo(p)
  <2>1. /\ bak' = bak
        /\ \/ journal' = journal /\ errs' = errs
           \/ errs' = [errs EXCEPT ![p] = TRUE]
    BY <1>4 DEF Undo
  <2> QED
    BY <1>3, <2>1
<1>5. CASE PutBackup(p)
  <2>1. PICK o \in journal[p] :
           /\ journal' = [journal EXCEPT ![p] = @ \ {o}]
           /\ \/ /\ ~(bak[p][o[1]][o[2]].kind # "absent" /\ ~Absent(fd[p][o[1]], o[2]))
                 /\ PutBack(p, o) /\ UNCHANGED <<errs, faults>>
              \/ errs' = [errs EXCEPT ![p] = TRUE] /\ UNCHANGED <<tree, bak>>
    BY <1>5 DEF PutBackup
  <2>2. CASE errs' = [errs EXCEPT ![p] = TRUE] /\ UNCHANGED <<tree, bak>>
    BY <1>3, <2>2
  <2>3. CASE /\ ~(bak[p][o[1]][o[2]].kind # "absent" /\ ~Absent(fd[p][o[1]], o[2]))
             /\ PutBack(p, o) /\ errs' = errs
    <3>1. o = <<o[1], o[2]>> /\ o[1] \in Targets /\ o[2] \in Paths
      BY PlannerAssumption DEF Operations
    <3>2. bak'[p][o[1]][o[2]].kind = "absent"
      BY <2>3, <3>1 DEF PutBack, Hole
    <3>3. \A t \in Targets : \A x \in Paths : <<t, x>> # o => bak'[p][t][x] = bak[p][t][x]
      BY <2>3, <3>1 DEF PutBack
    <3>4. \A t \in Targets : \A x \in Paths :
             bak'[p][t][x].kind # "absent" => <<t, x>> \in journal'[p] \/ errs'[p]
      BY <1>2, <2>1, <2>3, <3>1, <3>2, <3>3
    <3> QED
      BY <1>1, <3>4 DEF BackedUp
  <2> QED
    BY <2>1, <2>2, <2>3
<1> QED
  BY <1>4, <1>5

(* Only a link moved aside is new in a backup.                              *)
LEMMA BackupsShrink ==
    ASSUME IInv, NEW p \in Applies, Begin(p) \/ Step(p) \/ Crash(p), ~MoveAside(p),
           NEW t \in Targets, NEW x \in Paths, bak[p][t][x].kind = "absent"
    PROVE  bak'[p][t][x].kind = "absent"
<1> USE DEF IInv, TypeOK, TypeOfTxn
<1>1. CASE Install(p) \/ PutBackup(p)
  <2>1. PICK o \in Operations : bak' = bak \/ bak' = [bak EXCEPT ![p][o[1]][o[2]] = Hole]
    BY <1>1, OpsTyped DEF Install, PutLink, PutNoLink, PutBackup, PutBack
  <2>2. o[1] \in Targets /\ o[2] \in Paths
    BY PlannerAssumption DEF Operations
  <2>3. CASE bak' = [bak EXCEPT ![p][o[1]][o[2]] = Hole]
    BY <2>2, <2>3 DEF Hole
  <2> QED
    BY <2>1, <2>3
<1>2. CASE DropBackup(p) \/ Settle(p) \/ Discard(p) \/ Report(p)
  <2>1. PICK u \in Targets : bak' = bak \/ bak' = [bak EXCEPT ![p][u] = EmptyTree]
    BY <1>2 DEF DropBackup, Settle, Discard, Report
  <2>2. EmptyTree[x].kind = "absent"
    BY DEF EmptyTree, Hole
  <2>3. CASE bak' = [bak EXCEPT ![p][u] = EmptyTree]
    <3>1. bak'[p][t] = IF t = u THEN EmptyTree ELSE bak[p][t]
      BY <2>3
    <3> QED
      BY <2>2, <3>1
  <2> QED
    BY <2>1, <2>3
<1>3. CASE ~(\/ Install(p) \/ PutBackup(p) \/ DropBackup(p) \/ Settle(p) \/ Discard(p) \/ Report(p))
  <2>1. bak' = bak
    BY <1>3 DEF Step, Begin, ReadRecord, WalkTree, BuildPlan, LookAtRoot, MakeRoot, OpenRoot, LockRoot,
       LockExpires, OpenNamespace, Abandon, Unchain, InitMetadata, Validate, Stage, Promote,
       CleanStaging, Publish, Undo, RestoreMetadata, Prune, Release, Crash, txn
  <2> QED
    BY <2>1
<1> QED
  BY <1>1, <1>2, <1>3

LEMMA OwnBackups ==
    ASSUME IInv, NoGaps, NEW p \in Applies, BackedUp(p), Trees(p), Begin(p) \/ Step(p) \/ Crash(p)
    PROVE  BackedUp(p)'
<1> USE DEF IInv, TypeOK, TypeOfControl, TypeOfTxn
<1>1. CASE FirstStep(p)
  BY <1>1, FirstStepsBackUpNothing DEF BackedUp
<1>2. CASE MoveAside(p) \/ Install(p) \/ Undo(p) \/ PutBackup(p)
  BY <1>2, MoveBacksUp, InstallBacksUp, UndoBacksUp
<1>3. CASE pc'[p] = "done"
  BY <1>3 DEF BackedUp
<1>4. CASE Promote(p) \/ CleanStaging(p) \/ Publish(p)
  <2>1. /\ bak' = bak /\ journal' = journal /\ errs' = errs
        /\ pc[p] \in {"promote", "clean", "publish"}
    BY <1>4 DEF Promote, CleanStaging, Publish, txn
  <2>2. ~RolledBack(p) /\ phase[p] # "committed"
    BY <2>1 DEF Trees, Course, Promoting, RolledBack
  <2> QED
    BY <2>1, <2>2, QuietBackups
<1>5. CASE DropBackup(p) \/ Settle(p)
  <2>1. phase' = phase /\ pc[p] \in {"drop", "settle"}
    BY <1>5 DEF DropBackup, Settle
  <2>2. phase'[p] = "committed"
    BY <2>1 DEF Trees, Course
  <2> QED
    BY <2>2 DEF BackedUp
<1>6. CASE RestoreMetadata(p) \/ Discard(p) \/ Prune(p) \/ Report(p)
  <2>1. /\ journal' = journal /\ phase' = phase /\ outcome' = outcome
        /\ pc[p] \in {"restore", "discard", "prune", "report"}
    BY <1>6 DEF RestoreMetadata, Discard, Prune, Report
  <2>2. errs[p] => errs'[p]
    BY <1>6 DEF RestoreMetadata, Discard, Prune, Report
  <2>3. \A t \in Targets : \A x \in Paths :
           bak[p][t][x].kind = "absent" => bak'[p][t][x].kind = "absent"
    <3>1. ~MoveAside(p)
      BY <2>1 DEF MoveAside
    <3> QED
      BY <1>6, <3>1, BackupsShrink
  <2> QED
    BY <2>1, <2>2, <2>3, QuietBackups DEF RolledBack
<1>7. CASE Release(p)
  <2>1. \/ pc'[p] = "done"
        \/ /\ UNCHANGED <<pc, phase, outcome, journal, errs, bak>>
           /\ pc[p] = "release"
    BY <1>7 DEF Release, Goto
  <2> QED
    BY <1>3, <2>1, QuietBackups DEF RolledBack
<1>8. CASE Crash(p)
  BY <1>3, <1>8 DEF Crash, Goto
<1> QED
  BY <1>1, <1>2, <1>4, <1>5, <1>6, <1>7, <1>8 DEF Step, FirstStep

(* The journal is empty once every operation is undone.                     *)
LateSteps == {"restore", "discard", "prune", "report"}
LEMMA LateStep ==
    ASSUME IInv, NEW p \in Applies, Begin(p) \/ Step(p) \/ Crash(p), pc'[p] \in LateSteps
    PROVE  journal' = journal /\ (journal[p] = {} \/ pc[p] \in LateSteps)
<1> USE DEF IInv, TypeOK, TypeOfControl
<1>1. CASE Begin(p) \/ ReadRecord(p) \/ WalkTree(p) \/ BuildPlan(p)
  BY <1>1 DEF Begin, ReadRecord, WalkTree, BuildPlan, Loop, Leave, Goto, LateSteps
<1>2. CASE \/ LookAtRoot(p) \/ MakeRoot(p) \/ OpenRoot(p) \/ LockRoot(p) \/ LockExpires(p)
           \/ OpenNamespace(p) \/ Abandon(p) \/ Unchain(p)
  BY <1>2 DEF LookAtRoot, MakeRoot, OpenRoot, LockRoot, LockExpires, OpenNamespace, Abandon,
     Unchain, Goto, Fail, LateSteps
<1>3. CASE \/ InitMetadata(p) \/ Validate(p) \/ Stage(p) \/ CleanStaging(p) \/ Publish(p)
           \/ DropBackup(p) \/ Settle(p) \/ Promote(p)
  <2>1. \/ Fail(p) \/ Goto(p, "promote") \/ Goto(p, "install") \/ Goto(p, "move")
        \/ Goto(p, "publish")
        \/ \E t \in Targets : \/ Loop(p, t, "root", "validate", locked[p])
                             \/ Loop(p, t, "validate", "stage", {})
                             \/ Loop(p, t, "publish", "drop", locked[p])
                             \/ Loop(p, t, "drop", "release", locked[p])
                             \/ Loop(p, t, "settle", "release", locked[p])
    BY <1>3 DEF InitMetadata, Validate, Stage, CleanStaging, Publish, DropBackup, Settle, Promote
  <2> QED
    BY <2>1 DEF Loop, Goto, Fail, LateSteps
<1>4. CASE MoveAside(p) \/ Install(p)
  <2>1. PICK o : Journaled(p, o) \/ Fail(p) \/ Goto(p, "install")
    BY <1>4 DEF MoveAside, Install, PutAside, PutLink, PutNoLink
  <2> QED
    BY <2>1 DEF Journaled, Goto, Fail, LateSteps
<1>5. CASE Undo(p)
  <2>1. \/ journal[p] = {} /\ journal' = journal
        \/ Goto(p, "putback")
        \/ pc' = pc /\ pc[p] = "undo"
    BY <1>5 DEF Undo
  <2> QED
    BY <2>1 DEF Goto, LateSteps
<1>6. CASE PutBackup(p)
  BY <1>6 DEF PutBackup, Goto, LateSteps
<1>7. CASE RestoreMetadata(p) \/ Discard(p) \/ Prune(p) \/ Report(p)
  BY <1>7 DEF RestoreMetadata, Discard, Prune, Report, LateSteps
<1>8. CASE Release(p) \/ Crash(p)
  BY <1>8 DEF Release, Crash, Goto, LateSteps
<1> QED
  BY <1>1, <1>2, <1>3, <1>4, <1>5, <1>6, <1>7, <1>8 DEF Step

(* The plan of a run saw no links in a root that was not there ...          *)
NothingSeen(p) == \A t \in Targets : ~seen[p][t].exists => seen[p][t].entries = NoLinks
LEMMA SeenPlain ==
    ASSUME IInv, NEW p \in Applies, NothingSeen(p), Begin(p) \/ Step(p) \/ Crash(p)
    PROVE  NothingSeen(p)'
<1> USE DEF IInv, TypeOK, TypeOfControl, TypeOfPlan, View
<1>1. CASE seen' = seen
  BY <1>1 DEF NothingSeen
<1>2. CASE Forget(p)
  BY <1>2 DEF Forget, NothingSeen, AbsentView
<1>3. CASE ReadRecord(p)
  <2>1. \/ Leave(p, "unscannable")
        \/ \E t \in Targets : \E v : /\ v.exists \/ v.entries = NoLinks
                                     /\ seen' = [seen EXCEPT ![p][t] = v]
    <3>1. PICK t \in Targets :
             \/ seen' = [seen EXCEPT ![p][t] = AbsentView]
             \/ seen' = [seen EXCEPT ![p][t] =
                    [AbsentView EXCEPT !.exists = TRUE,
                                       !.cache = RecordedCache(ns[at[t]]),
                                       !.entries = RecordedLinks(ns[at[t]])]]
             \/ Leave(p, "unscannable")
      BY <1>3 DEF ReadRecord
    <3>2. AbsentView.entries = NoLinks
      BY DEF AbsentView
    <3>3. [AbsentView EXCEPT !.exists = TRUE,
                             !.cache = RecordedCache(ns[at[t]]),
                             !.entries = RecordedLinks(ns[at[t]])].exists
      BY DEF AbsentView
    <3> QED
      BY <3>1, <3>2, <3>3
  <2>2. ASSUME NEW t \in Targets, NEW v, v.exists \/ v.entries = NoLinks,
               seen' = [seen EXCEPT ![p][t] = v]
        PROVE  NothingSeen(p)'
    BY <2>2 DEF NothingSeen
  <2> QED
    BY <1>2, <2>1, <2>2 DEF Leave
<1>4. CASE WalkTree(p)
  <2>1. PICK t \in Targets : \/ Leave(p, "unscannable")
                             \/ \E u : seen' = [seen EXCEPT ![p][t].unmanaged = u]
    BY <1>4 DEF WalkTree
  <2>2. ASSUME NEW u, seen' = [seen EXCEPT ![p][t].unmanaged = u] PROVE NothingSeen(p)'
    <3>1. \A v \in Targets : /\ seen'[p][v].exists = seen[p][v].exists
                             /\ seen'[p][v].entries = seen[p][v].entries
      BY <2>2
    <3> QED
      BY <3>1 DEF NothingSeen
  <2> QED
    BY <1>2, <2>1, <2>2 DEF Leave
<1>5. CASE BuildPlan(p) \/ Release(p) \/ Crash(p)
  BY <1>1, <1>2, <1>5 DEF BuildPlan, Leave, Release, Crash, plan
<1>6. CASE ~(ReadRecord(p) \/ WalkTree(p) \/ BuildPlan(p) \/ Release(p) \/ Crash(p))
  <2>1. seen' = seen
    BY <1>6 DEF Step, Begin, LookAtRoot, MakeRoot, OpenRoot, LockRoot, LockExpires, OpenNamespace,
       Abandon, Unchain, InitMetadata, Validate, Stage, Promote, MoveAside, Install, CleanStaging,
       Publish, DropBackup, Settle, Undo, PutBackup, RestoreMetadata, Discard, Prune, Report, plan
  <2> QED
    BY <1>1, <2>1
<1> QED
  BY <1>3, <1>4, <1>5, <1>6

(* ... and validation that a root it made was not there when it planned.    *)
LEMMA CheckedStep ==
    ASSUME IInv, NEW p \in Applies, Begin(p) \/ Step(p) \/ Crash(p), NEW t \in Checked(p)'
    PROVE  /\ seen' = seen /\ made' = made /\ t \in locked[p]
           /\ t \in Checked(p) \/ StillCurrent(p, t)
<1> USE DEF IInv, TypeOK, TypeOfControl, TypeOfHandles
<1>0. /\ pc'[p] \in Promoting \cup {"validate"} /\ t \in locked'[p]
      /\ pc'[p] = "validate" => t \notin left'[p]
  BY DEF Checked, Promoting
<1>1. CASE Begin(p) \/ ReadRecord(p) \/ WalkTree(p) \/ BuildPlan(p)
  BY <1>0, <1>1 DEF Begin, ReadRecord, WalkTree, BuildPlan, Loop, Leave, Goto, Promoting
<1>2. CASE \/ LookAtRoot(p) \/ MakeRoot(p) \/ OpenRoot(p) \/ LockRoot(p) \/ LockExpires(p)
           \/ OpenNamespace(p) \/ Abandon(p) \/ Unchain(p)
  BY <1>0, <1>2 DEF LookAtRoot, MakeRoot, OpenRoot, LockRoot, LockExpires, OpenNamespace, Abandon,
     Unchain, Goto, Fail, Promoting
<1>3. CASE InitMetadata(p)
  <2>1. /\ locked' = locked
        /\ Fail(p) \/ \E u \in Targets : Loop(p, u, "root", "validate", locked[p])
    BY <1>3 DEF InitMetadata, handles
  <2> QED
    BY <1>0, <2>1 DEF Loop, Goto, Fail, Promoting
<1>4. CASE Validate(p)
  <2>1. /\ pc[p] = "validate" /\ locked' = locked /\ seen' = seen /\ made' = made
        /\ \/ Fail(p)
           \/ \E u \in Targets : StillCurrent(p, u) /\ Loop(p, u, "validate", "stage", {})
    BY <1>4 DEF Validate, handles, plan
  <2>2. ~Fail(p)
    BY <1>0 DEF Fail, Goto, Promoting
  <2>3. PICK u \in Targets : StillCurrent(p, u) /\ Loop(p, u, "validate", "stage", {})
    BY <2>1, <2>2
  <2>4. t # u => t \notin left[p]
    BY <1>0, <2>3 DEF Loop, Goto
  <2> QED
    BY <1>0, <2>1, <2>3, <2>4 DEF Checked
<1>5. CASE \/ Stage(p) \/ Promote(p) \/ MoveAside(p) \/ Install(p) \/ CleanStaging(p) \/ Publish(p)
  <2>1. /\ pc[p] \in Promoting /\ locked' = locked /\ seen' = seen /\ made' = made
    BY <1>5 DEF Stage, Promote, MoveAside, Install, CleanStaging, Publish, handles, plan, Promoting
  <2> QED
    BY <1>0, <2>1 DEF Checked
<1>6. CASE \/ DropBackup(p) \/ Settle(p) \/ Undo(p) \/ PutBackup(p) \/ RestoreMetadata(p)
           \/ Discard(p) \/ Prune(p) \/ Report(p) \/ Release(p) \/ Crash(p)
  <2>1. pc'[p] \notin Promoting \cup {"validate"}
    BY <1>6 DEF DropBackup, Settle, Undo, PutBackup, RestoreMetadata, Discard, Prune, Report, Release,
       Crash, Loop, Goto, Fail, Promoting
  <2> QED
    BY <1>0, <2>1
<1> QED
  BY <1>1, <1>2, <1>3, <1>4, <1>5, <1>6 DEF Step

LEMMA CurrentWasThere ==
    ASSUME NEW p \in Applies, NEW t \in Targets, StillCurrent(p, t)
    PROVE  made[p][t] # NoInode => ~seen[p][t].exists
BY DEF StillCurrent, AsReviewed, Current, Scan

(* So the links that are moved aside are never below a root that a run made.*)
LEMMA MadeRootsPlain ==
    ASSUME IInv, NEW p \in Applies, BackedUp(p), Trees(p), NewRootsPlain(p),
           Begin(p) \/ Step(p) \/ Crash(p)
    PROVE  NewRootsPlain(p)'
<1> USE DEF IInv, TypeOK, TypeOfControl, TypeOfTxn, TypeOfHandles
<1>1. NothingSeen(p)'
  BY SeenPlain DEF NewRootsPlain, NothingSeen
<1>2. ASSUME NEW t \in Checked(p)', made'[p][t] # NoInode PROVE ~seen'[p][t].exists
  <2>1. seen' = seen /\ made' = made /\ (t \in Checked(p) \/ StillCurrent(p, t))
    BY <1>2, CheckedStep
  <2>2. t \in Targets
    BY <1>2, CheckedStep
  <2> QED
    BY <1>2, <2>1, <2>2, CurrentWasThere DEF NewRootsPlain
<1>3. ASSUME NEW t \in Targets, made'[p][t] # NoInode
      PROVE  \A x \in Paths : bak'[p][t][x].kind = "absent"
  <2>1. CASE FirstStep(p)
    BY <2>1, FirstStepsBackUpNothing
  <2>2. CASE ~FirstStep(p)
    <3>1. made[p][t] # NoInode
      <4>1. \/ made' = made
            \/ made' = [made EXCEPT ![p] = [u \in Targets |-> NoInode]]
            \/ \E u : made' = [made EXCEPT ![p][u] = NoInode]
        <5>1. CASE Release(p) \/ Crash(p)
          BY <5>1 DEF Release, Crash, handles
        <5>2. CASE ~(Release(p) \/ Crash(p))
          BY <2>2, <5>2 DEF FirstStep, Step, Promote, MoveAside, Install, CleanStaging, Publish,
             DropBackup, Settle, Undo, PutBackup, RestoreMetadata, Discard, Prune, Report, handles
        <5> QED
          BY <5>1, <5>2
      <4> QED
        BY <1>3, <4>1
    <3>2. \A x \in Paths : bak[p][t][x].kind = "absent"
      BY <3>1 DEF NewRootsPlain
    <3>3. CASE MoveAside(p)
      <4>1. PICK o \in Ops(p) :
               /\ NextOp(p, o)
               /\ \/ bak' = bak
                  \/ /\ bak' = [bak EXCEPT ![p][o[1]][o[2]] = tree[fd[p][o[1]]][o[2]]]
                     /\ Kind(p, o) \in {"REMOVE", "REPLACE"}
        BY <3>3 DEF MoveAside, PutAside
      <4>2. CASE bak' = bak
        BY <3>2, <4>2
      <4>3. CASE /\ bak' = [bak EXCEPT ![p][o[1]][o[2]] = tree[fd[p][o[1]]][o[2]]]
                 /\ Kind(p, o) \in {"REMOVE", "REPLACE"}
        <5>1. pc[p] = "move" /\ o[1] \in Targets /\ o[2] \in Artifacts /\ o[1] \in locked[p]
          BY <3>3, OpsTyped, OpsLocked DEF MoveAside, Working
        <5>2. seen[p][o[1]].entries[o[2]] # NoSource
          BY <4>3, KindOf
        <5>3. seen[p][o[1]].exists
          BY <5>1, <5>2 DEF NewRootsPlain, NoLinks
        <5>4. o[1] # t
          BY <3>1, <5>1, <5>3 DEF NewRootsPlain, Checked, Promoting
        <5> QED
          BY <3>2, <4>3, <5>1, <5>4
      <4> QED
        BY <4>1, <4>2, <4>3
    <3>4. CASE ~MoveAside(p)
      BY <3>2, <3>4, BackupsShrink
    <3> QED
      BY <3>3, <3>4
  <2> QED
    BY <2>1, <2>2
<1> QED
  BY <1>1, <1>2, <1>3 DEF NewRootsPlain, NothingSeen

LEMMA OthersBackups ==
    ASSUME IInv, NEW p \in Applies, Begin(p) \/ Step(p) \/ Crash(p)
    PROVE  \A q \in Applies \ {p} : bak'[q] = bak[q] /\ errs'[q] = errs[q]
<1> USE DEF IInv, TypeOK, TypeOfTxn
<1>1. \/ bak' = bak \/ \E new : bak' = [bak EXCEPT ![p] = new]
  BY DEF Step, Begin, ReadRecord, WalkTree, BuildPlan, LookAtRoot, MakeRoot, OpenRoot, LockRoot,
     LockExpires, OpenNamespace, Abandon, Unchain, InitMetadata, Validate, Stage, Promote, MoveAside,
     Install, PutAside, PutLink, PutNoLink, PutBack, CleanStaging, Publish, DropBackup, Settle, Undo,
     PutBackup, RestoreMetadata, Discard, Prune, Report, Release, Crash, txn
<1>2. \/ errs' = errs \/ \E new : errs' = [errs EXCEPT ![p] = new]
  BY DEF Step, Begin, ReadRecord, WalkTree, BuildPlan, LookAtRoot, MakeRoot, OpenRoot, LockRoot,
     LockExpires, OpenNamespace, Abandon, Unchain, InitMetadata, Validate, Stage, Promote, MoveAside,
     Install, CleanStaging, Publish, DropBackup, Settle, Undo, PutBackup, RestoreMetadata, Discard,
     Prune, Report, Release, Crash, Reset, txn
<1> QED
  BY <1>1, <1>2

LEMMA BackupsInit == Init => BInv
BY DEF Init, BInv, BackedUp, JournalDone, NewRootsPlain, Checked, Promoting, NoBackup, EmptyTree,
   Hole, AbsentView

LEMMA BackupsNext ==
    ASSUME NoGaps, IInv, TInv, BInv, [Next]_vars PROVE BInv'
<1> USE DEF IInv, TypeOK, TypeOfBudget
<1>1. ASSUME NEW p \in Applies, Begin(p) \/ Step(p) \/ Crash(p) PROVE BInv'
  <2>1. OthersUntouched(p) /\ envs' = envs
    BY <1>1, StepFrame
  <2>2. Trees(p) /\ BackedUp(p) /\ JournalDone(p) /\ NewRootsPlain(p)
    BY DEF TInv, BInv
  <2>3. BackedUp(p)' /\ NewRootsPlain(p)'
    BY <1>1, <2>2, OwnBackups, MadeRootsPlain
  <2>4. JournalDone(p)'
    BY <1>1, <2>2, LateStep DEF JournalDone, LateSteps
  <2>5. ASSUME NEW q \in Applies \ {p} PROVE BackedUp(q)' /\ JournalDone(q)' /\ NewRootsPlain(q)'
    <3>1. /\ pc'[q] = pc[q] /\ left'[q] = left[q] /\ sel'[q] = sel[q] /\ want'[q] = want[q]
          /\ seen'[q] = seen[q] /\ locked'[q] = locked[q] /\ made'[q] = made[q]
          /\ journal'[q] = journal[q] /\ phase'[q] = phase[q] /\ outcome'[q] = outcome[q]
          /\ bak'[q] = bak[q] /\ errs'[q] = errs[q]
      BY <1>1, <2>1, OthersCourse, OthersBackups DEF OthersUntouched
    <3>2. BackedUp(q) /\ JournalDone(q) /\ NewRootsPlain(q)
      BY DEF BInv
    <3>3. BackedUp(q)'
      BY <3>1, <3>2 DEF BackedUp, NextOp, Todo, Ops, RolledBack
    <3> QED
      BY <3>1, <3>2, <3>3 DEF JournalDone, NewRootsPlain, Checked
  <2> QED
    BY <2>1, <2>3, <2>4, <2>5 DEF BInv
<1>2. ~UserStep
  BY DEF UserStep, NoGaps
<1>3. CASE UNCHANGED vars
  BY <1>3 DEF vars, plan, control, handles, txn, budget, BInv, BackedUp, JournalDone, NewRootsPlain,
     NextOp, Todo, Ops, RolledBack, Checked
<1> QED
  BY <1>1, <1>2, <1>3 DEF Next, Finished

(* What is in a backup leaves it for its place or after the commit.         *)
LEMMA BackupGiven ==
    ASSUME IInv, NEW p \in Applies, Trees(p), BackedUp(p), JournalDone(p), NewRootsPlain(p),
           Begin(p) \/ Step(p) \/ Crash(p), NEW t \in Targets, NEW x \in Paths,
           bak'[p][t][x] # bak[p][t][x], bak[p][t][x].kind # "absent"
    PROVE  phase[p] = "committed" \/ tree'[fd[p][t]][x] = bak[p][t][x]
<1> USE DEF IInv, TypeOK, TypeOfControl, TypeOfTxn, TypeOfHandles, TypeOfDisk
<1>1. CASE MoveAside(p)
  <2>1. PICK o \in Ops(p) :
           /\ NextOp(p, o)
           /\ bak' = [bak EXCEPT ![p][o[1]][o[2]] = tree[fd[p][o[1]]][o[2]]]
    BY <1>1 DEF MoveAside, PutAside
  <2>2. o = <<o[1], o[2]>> /\ o[1] \in Targets /\ o[2] \in Paths /\ pc[p] = "move"
    BY <1>1, OpsTyped DEF MoveAside
  <2>3. bak[p][o[1]][o[2]].kind = "absent"
    BY <2>1, <2>2, NextNotBackedUp DEF Trees
  <2>4. o[1] = t /\ o[2] = x
    BY <2>1, <2>2
  <2> QED
    BY <2>3, <2>4
<1>2. CASE Install(p) \/ PutBackup(p)
  <2>1. PICK o \in Operations : PutBack(p, o) /\ o[1] \in locked[p]
    <3>1. CASE Install(p)
      <4>1. PICK o \in Ops(p) : PutBack(p, o)
        BY <3>1 DEF Install, PutLink, PutNoLink
      <4>2. o \in Operations /\ o[1] \in locked[p]
        BY <3>1, OpsTyped, OpsLocked DEF Install, Working
      <4> QED
        BY <4>1, <4>2
    <3>2. CASE PutBackup(p)
      BY <3>2, JournalLocked DEF PutBackup
    <3> QED
      BY <1>2, <3>1, <3>2
  <2>2. o = <<o[1], o[2]>> /\ o[1] \in Targets /\ o[2] \in Paths /\ fd[p][o[1]] \in Inodes
    BY <2>1, PlannerAssumption DEF Operations, LocksHeld, LocksHeldBy, Holds
  <2>3. /\ tree' = [tree EXCEPT ![fd[p][o[1]]][o[2]] = bak[p][o[1]][o[2]]]
        /\ bak' = [bak EXCEPT ![p][o[1]][o[2]] = Hole]
    BY <2>1 DEF PutBack
  <2>4. o[1] = t /\ o[2] = x
    BY <2>2, <2>3
  <2> QED
    BY <2>2, <2>3, <2>4
<1>3. CASE DropBackup(p) \/ Settle(p)
  BY <1>3 DEF DropBackup, Settle, Trees, Course
<1>4. CASE Discard(p)
  <2>1. ~errs[p] /\ pc[p] = "discard"
    BY <1>4 DEF Discard, BackupsDropped
  <2> QED
    BY <2>1 DEF JournalDone, BackedUp
<1>5. CASE Report(p)
  <2>1. PICK u \in Targets : made[p][u] # NoInode /\ bak' = [bak EXCEPT ![p][u] = EmptyTree]
    BY <1>5 DEF Report
  <2>2. u = t
    BY <2>1
  <2> QED
    BY <2>1, <2>2 DEF NewRootsPlain
<1>6. CASE ~(MoveAside(p) \/ Install(p) \/ PutBackup(p) \/ DropBackup(p) \/ Settle(p) \/ Discard(p)
             \/ Report(p))
  <2>1. bak' = bak
    BY <1>6 DEF Step, Begin, ReadRecord, WalkTree, BuildPlan, LookAtRoot, MakeRoot, OpenRoot, LockRoot,
       LockExpires, OpenNamespace, Abandon, Unchain, InitMetadata, Validate, Stage, Promote,
       CleanStaging, Publish, Undo, RestoreMetadata, Prune, Release, Crash, txn
  <2> QED
    BY <2>1
<1> QED
  BY <1>1, <1>2, <1>3, <1>4, <1>5, <1>6

(* Where no users interfere and no error gets between a backup and its      *)
(* journal entry, a run gives a backup up only for its entry or after its   *)
(* commit, whatever else fails or is killed.                                *)
THEOREM BackupsAreKept == ASSUME NoGaps PROVE Spec => BackupsKept
<1>1. Init => IInv /\ RInv /\ TInv /\ BInv
  BY InvariantInit, RecordsInit, TreesInit, BackupsInit
<1>2. IInv /\ RInv /\ TInv /\ BInv /\ [Next]_vars => IInv' /\ RInv' /\ TInv' /\ BInv'
  BY InvariantNext, RecordsNext, TreesNext, BackupsNext
<1>3. IInv /\ TInv /\ BInv /\ [Next]_vars =>
         [\A p \in Applies : \A t \in Targets : \A x \in Paths :
            bak'[p][t][x] # bak[p][t][x] /\ bak[p][t][x].kind # "absent"
              => \/ phase[p] = "committed"
                 \/ tree'[fd[p][t]][x] = bak[p][t][x]]_vars
  <2> SUFFICES ASSUME IInv, TInv, BInv, [Next]_vars,
                      NEW q \in Applies, NEW t \in Targets, NEW x \in Paths,
                      bak'[q][t][x] # bak[q][t][x], bak[q][t][x].kind # "absent"
               PROVE  phase[q] = "committed" \/ tree'[fd[q][t]][x] = bak[q][t][x]
    OBVIOUS
  <2>1. bak' # bak
    OBVIOUS
  <2>2. PICK p \in Applies : Begin(p) \/ Step(p) \/ Crash(p)
    BY <2>1 DEF Next, Finished, UserStep, vars, txn
  <2>3. p = q
    BY <2>2, OthersBackups
  <2> QED
    BY <2>2, <2>3, BackupGiven DEF TInv, BInv
<1> QED
  BY <1>1, <1>2, <1>3, PTL DEF Spec, BackupsKept
=============================================================================
