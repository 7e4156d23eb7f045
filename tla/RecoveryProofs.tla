--------------------------- MODULE RecoveryProofs ---------------------------
(***************************************************************************)
(* What a rollback leaves behind: every target as it was scanned.  GInv,   *)
(* UInv and SInv are inductive.                                            *)
(***************************************************************************)
EXTENDS RollbackProofs

(* A tree is a tree, as long as nobody but runs writes to it.  An entry is  *)
(* put below directories, and nothing lies below the ones that go.          *)
LEMMA RootedPut ==
    ASSUME TypeOfDisk, Rooted, Clean, NEW i \in Inodes, NEW x \in Paths, NEW n \in Node,
           tree' = [tree EXCEPT ![i][x] = n],
           n.kind # "absent" => \A y \in Above[x] : IsDir(i, y),
           n.kind = "absent" => n.to = NoSource,
           ~IsDir(i, x)
    PROVE  Rooted' /\ Clean'
<1> USE DEF TypeOfDisk
<1>1. tree'[i][x] = n
  OBVIOUS
<1>2. \A j \in Inodes : \A z \in Paths : j # i \/ z # x => tree'[j][z] = tree[j][z]
  OBVIOUS
<1>3. \A z \in Paths : \A y \in Above[z] : y \in Paths /\ y # z
  BY PlannerAssumption
<1>4. Clean'
  BY <1>1, <1>2 DEF Clean
<1>5. ASSUME NEW j \in Inodes, NEW z \in Paths, tree'[j][z].kind # "absent", NEW y \in Above[z]
      PROVE  tree'[j][y].kind = "dir"
  <2>1. tree[j][y].kind = "dir"
    BY <1>1, <1>2, <1>5 DEF Rooted, IsDir
  <2>2. j # i \/ y # x
    BY <2>1 DEF IsDir
  <2> QED
    BY <1>2, <1>3, <1>5, <2>1, <2>2
<1>6. Rooted'
  BY <1>5 DEF Rooted, IsDir
<1> QED
  BY <1>4, <1>6

LEMMA SameTrees == ASSUME Rooted, Clean, tree' = tree PROVE Rooted' /\ Clean'
BY DEF Rooted, Clean, IsDir

LEMMA PromoteRooted ==
    ASSUME IInv, Rooted, Clean, NEW p \in Applies, Promote(p)
    PROVE  Rooted' /\ Clean'
<1> USE DEF IInv, TypeOK, TypeOfDisk
<1>1. PICK o \in Ops(p) :
         \/ tree' = tree
         \/ WayFree(p, o) /\ \E dirs, noted : MakesOnly(p, o, dirs, noted)
  BY PromoteMakes
<1>2. o[2] \in Paths
  BY OpsTyped
<1>3. ASSUME WayFree(p, o), NEW dirs, NEW noted, MakesOnly(p, o, dirs, noted)
      PROVE  Rooted' /\ Clean'
  <2> DEFINE i == fd[p][o[1]]
             made_ == [kind |-> "dir", to |-> NoSource, by |-> p]
  <2>1. tree' = [tree EXCEPT ![i] = [x \in Paths |-> IF x \in dirs THEN made_ ELSE @[x]]]
    BY <1>3 DEF MakesOnly, MakesParents
  <2>2. \A x \in dirs : x \in Above[o[2]] /\ tree[i][x].kind = "absent"
    BY <1>3 DEF MakesOnly, Parents, Absent
  <2>3. \A j \in Inodes \ {i} : tree'[j] = tree[j]
    BY <2>1
  <2>4. i \in Inodes => \A x \in Paths : tree'[i][x] = IF x \in dirs THEN made_ ELSE tree[i][x]
    BY <2>1
  <2> HIDE DEF i, made_
  <2>5. made_.kind = "dir"
    BY DEF made_
  <2>6. Clean'
    <3>1. ASSUME NEW j \in Inodes, NEW z \in Paths, tree'[j][z].kind = "absent"
          PROVE  tree'[j][z] = tree[j][z]
      <4>1. CASE j = i
        BY <2>4, <2>5, <3>1, <4>1
      <4>2. CASE j # i
        BY <2>3, <4>2
      <4> QED
        BY <4>1, <4>2
    <3> QED
      BY <3>1 DEF Clean
  <2>7. \A x \in Paths : \A y \in Above[x] : y \in Paths /\ Above[y] \subseteq Above[x]
    BY PlannerAssumption
  <2>8. ASSUME NEW j \in Inodes, NEW z \in Paths, tree'[j][z].kind # "absent", NEW y \in Above[z]
        PROVE  tree'[j][y].kind = "dir"
    <3>1. CASE j # i
      BY <2>3, <2>8, <3>1 DEF Rooted, IsDir
    <3>2. CASE j = i /\ z \in dirs
      <4>1. y \in Above[o[2]]
        BY <1>2, <2>2, <2>7, <2>8, <3>2
      <4>2. y \in dirs \/ tree[i][y].kind = "dir"
        <5>1. y \in Parents(p, o) \/ tree[i][y].kind = "dir"
          BY <1>3, <4>1 DEF WayFree, Parents, Absent, i
        <5>2. y \in Parents(p, o) => y \in dirs
          BY <1>3, <2>8, <3>2 DEF MakesOnly
        <5> QED
          BY <5>1, <5>2
      <4> QED
        BY <2>4, <2>5, <2>7, <2>8, <3>2, <4>2
    <3>3. CASE j = i /\ z \notin dirs
      <4>1. tree[i][y].kind = "dir"
        BY <2>4, <2>8, <3>3 DEF Rooted, IsDir
      <4>2. y \notin dirs
        BY <2>2, <4>1
      <4> QED
        BY <2>4, <2>7, <2>8, <3>3, <4>1, <4>2
    <3> QED
      BY <3>1, <3>2, <3>3
  <2> QED
    BY <2>6, <2>8 DEF Rooted, IsDir
<1> QED
  BY <1>1, <1>3, SameTrees

LEMMA MoveRooted ==
    ASSUME IInv, Rooted, Clean, NEW p \in Applies, Trees(p), MoveAside(p)
    PROVE  Rooted' /\ Clean'
<1> USE DEF IInv, TypeOK
<1>1. PICK o \in Ops(p) :
         /\ NextOp(p, o)
         /\ tree' = tree \/ tree' = [tree EXCEPT ![fd[p][o[1]]][o[2]] = Hole]
  BY DEF MoveAside, PutAside
<1>2. pc[p] = "move"
  BY DEF MoveAside
<1>3. /\ TreesFollow(p) /\ StepsFollow(p) /\ o[1] \in locked[p] /\ o[2] \in Artifacts
      /\ o[2] \in Paths /\ o = <<o[1], o[2]>> /\ o \notin journal[p] /\ fd[p][o[1]] \in Inodes
  BY <1>1, <1>2, AtOperation
<1>4. ~IsDir(fd[p][o[1]], o[2])
  <2>1. seen[p][o[1]].entries[o[2]] # NoSource
    BY <1>1, <1>2, <1>3, KindOf DEF StepsFollow
  <2>2. Now(p, o[1])[o[2]] = seen[p][o[1]].entries[o[2]]
    BY <1>2, <1>3 DEF Now
  <2>3. o[2] \in Managed(Now(p, o[1]))
    BY <1>3, <2>1, <2>2 DEF Managed
  <2> QED
    BY <1>3, <2>3 DEF TreesFollow, InPlace, IsDir
<1> QED
  BY <1>1, <1>3, <1>4, HoleTyped, RootedPut, SameTrees DEF Hole

LEMMA BackupTyped ==
    ASSUME TypeOfTxn, NEW p \in Applies, NEW t \in Targets, NEW x \in Paths
    PROVE  bak[p][t][x] \in Node
BY DEF TypeOfTxn

LEMMA InstallRooted ==
    ASSUME IInv, Rooted, Clean, NEW p \in Applies, Trees(p), Install(p)
    PROVE  Rooted' /\ Clean'
<1> USE DEF IInv, TypeOK
<1>1. PICK o \in Ops(p) :
         /\ NextOp(p, o)
         /\ \/ tree' = tree
            \/ /\ ~IsDir(fd[p][o[1]], o[2])
               /\ tree' = [tree EXCEPT ![fd[p][o[1]]][o[2]] = StagedLink(p, o)]
            \/ /\ Absent(fd[p][o[1]], o[2]) /\ bak[p][o[1]][o[2]].kind # "absent"
               /\ tree' = [tree EXCEPT ![fd[p][o[1]]][o[2]] = bak[p][o[1]][o[2]]]
  BY DEF Install, PutLink, PutNoLink, PutBack
<1>2. pc[p] = "install"
  BY DEF Install
<1>3. /\ StepsFollow(p) /\ o[1] \in locked[p] /\ o[1] \in Targets /\ o[2] \in Artifacts
      /\ o[2] \in Paths /\ fd[p][o[1]] \in Inodes
  BY <1>1, <1>2, AtOperation
<1>4. \A y \in Above[o[2]] : IsDir(fd[p][o[1]], y)
  BY <1>1, <1>2 DEF StepsFollow, Trees, Transaction, Active, Promoting
<1>5. StagedLink(p, o) \in Node /\ StagedLink(p, o).kind # "absent"
  BY <1>3, MakersAssumption DEF StagedLink, Node, Kinds, TypeOfPlan, Links
<1>6. bak[p][o[1]][o[2]] \in Node
  BY <1>3, BackupTyped
<1>7. Absent(fd[p][o[1]], o[2]) => ~IsDir(fd[p][o[1]], o[2])
  BY DEF Absent, IsDir
<1> QED
  BY <1>1, <1>3, <1>4, <1>5, <1>6, <1>7, RootedPut, SameTrees
LEMMA OnlyUndoPutsBack ==
    ASSUME IInv, NEW p \in Applies, Begin(p) \/ Step(p) \/ Crash(p), pc'[p] = "putback"
    PROVE  Undo(p)
<1> USE DEF IInv, TypeOK, TypeOfControl
<1>1. ~(Begin(p) \/ ReadRecord(p) \/ WalkTree(p) \/ BuildPlan(p))
  BY DEF Begin, ReadRecord, WalkTree, BuildPlan, Loop, Leave, Goto
<1>2. ~(\/ LookAtRoot(p) \/ MakeRoot(p) \/ OpenRoot(p) \/ LockRoot(p) \/ LockExpires(p)
        \/ OpenNamespace(p) \/ Abandon(p) \/ Unchain(p))
  BY DEF LookAtRoot, MakeRoot, OpenRoot, LockRoot, LockExpires, OpenNamespace, Abandon,
     Unchain, Goto, Fail
<1>3. ~Fail(p) /\ \A step : Goto(p, step) => step = "putback"
  BY DEF Fail, Goto
<1>4. \A t, step, after, again : Loop(p, t, step, after, again) => step = "putback" \/ after = "putback"
  BY DEF Loop, Goto
<1>5. ~(\/ InitMetadata(p) \/ Validate(p) \/ Stage(p) \/ CleanStaging(p) \/ Publish(p)
        \/ DropBackup(p) \/ Settle(p) \/ Promote(p))
  BY <1>3, <1>4 DEF InitMetadata, Validate, Stage, CleanStaging, Publish, DropBackup, Settle, Promote
<1>6. ~(MoveAside(p) \/ Install(p))
  <2>1. \A o : ~Journaled(p, o)
    BY <1>3 DEF Journaled
  <2> QED
    BY <1>3, <2>1 DEF MoveAside, Install, PutAside, PutLink, PutNoLink
<1>7. ~(RestoreMetadata(p) \/ Discard(p) \/ Prune(p) \/ Report(p) \/ PutBackup(p))
  BY <1>3, <1>4 DEF RestoreMetadata, Discard, Prune, Report, PutBackup
<1>8. ~(Release(p) \/ Crash(p))
  BY <1>3 DEF Release, Crash
<1> QED
  BY <1>1, <1>2, <1>5, <1>6, <1>7, <1>8 DEF Step

(* A rollback takes its own links away and puts the old ones back below     *)
(* directories.                                                             *)
LEMMA LastUnique ==
    ASSUME IInv, NEW p \in Applies, NEW o, NEW q, LastOp(p, o), LastOp(p, q)
    PROVE  o = q
<1> USE DEF IInv, TypeOK, TypeOfTxn
<1>1. o \in Operations /\ q \in Operations
  BY DEF LastOp
<1>2. o # q => Before(o, q) /\ Before(q, o)
  BY DEF LastOp
<1> QED
  BY <1>1, <1>2, PlannerAssumption, ReconcilerAssumption DEF Before, Operations

LEMMA UndonePlace ==
    ASSUME IInv, NEW p \in Applies, pc[p] # "release", NEW o \in journal[p]
    PROVE  /\ o \in Operations /\ o = <<o[1], o[2]>>
           /\ o[1] \in locked[p] /\ o[1] \in Targets /\ o[2] \in Artifacts /\ o[2] \in Paths
           /\ fd[p][o[1]] \in Inodes
           /\ \A y \in Above[o[2]] : y \in Paths /\ y # o[2]
<1> USE DEF IInv, TypeOK, TypeOfTxn
<1>1. o \in Operations /\ o[1] \in locked[p]
  BY DEF TargetsTracked, Tracked
<1>2. fd[p][o[1]] \in Inodes
  BY <1>1 DEF LocksHeld, LocksHeldBy, Holds
<1>3. o = <<o[1], o[2]>> /\ o[1] \in Targets /\ o[2] \in Artifacts
  BY <1>1 DEF Operations
<1>4. o[2] \in Paths
  BY <1>3, PlannerAssumption
<1>5. \A y \in Above[o[2]] : y \in Paths /\ y # o[2]
  BY <1>4, PlannerAssumption
<1> QED
  BY <1>1, <1>2, <1>3, <1>4, <1>5

LEMMA UndoRooted ==
    ASSUME IInv, Rooted, Clean, NEW p \in Applies, Undo(p)
    PROVE  Rooted' /\ Clean' /\ WayBack(p)'
<1> USE DEF IInv, TypeOK, TypeOfControl, TypeOfDisk
<1>1. pc[p] = "undo" /\ fd' = fd
  BY DEF Undo, handles
<1>2. \/ tree' = tree /\ pc'[p] # "putback"
      \/ \E o \in journal[p] :
            /\ LastOp(p, o) /\ journal' = journal
            /\ \A y \in Above[o[2]] : IsDir(fd[p][o[1]], y)
            /\ \/ tree' = tree
               \/ /\ tree[fd[p][o[1]]][o[2]].kind = "link"
                  /\ tree' = [tree EXCEPT ![fd[p][o[1]]][o[2]] = Hole]
  <2>1. CASE journal[p] = {} /\ tree' = tree /\ Goto(p, IF locked[p] = {} THEN "release" ELSE "restore")
    BY <2>1 DEF Goto
  <2>2. ASSUME NEW o \in journal[p], LastOp(p, o), tree' = tree, pc' = pc
        PROVE  tree' = tree /\ pc'[p] # "putback"
    BY <1>1, <2>2
  <2>3. ASSUME NEW o \in journal[p], LastOp(p, o), journal' = journal,
               \A y \in Above[o[2]] : IsDir(fd[p][o[1]], y),
               Kind(p, o) # "REMOVE" /\ tree[fd[p][o[1]]][o[2]].kind # "absent"
                  => OwnLink(p, o, tree[fd[p][o[1]]][o[2]]),
               tree' = [tree EXCEPT ![fd[p][o[1]]][o[2]] =
                  IF Kind(p, o) # "REMOVE" /\ tree[fd[p][o[1]]][o[2]].kind # "absent"
                  THEN Hole ELSE @]
        PROVE  \/ tree' = tree
               \/ /\ tree[fd[p][o[1]]][o[2]].kind = "link"
                  /\ tree' = [tree EXCEPT ![fd[p][o[1]]][o[2]] = Hole]
    BY <2>3 DEF OwnLink
  <2> QED
    BY <2>1, <2>2, <2>3 DEF Undo
<1>3. CASE tree' = tree /\ pc'[p] # "putback"
  BY <1>3, SameTrees DEF WayBack
<1>4. CASE pc'[p] = "putback" \/ tree' # tree
  <2>1. PICK o \in journal[p] :
            /\ LastOp(p, o) /\ journal' = journal
            /\ \A y \in Above[o[2]] : IsDir(fd[p][o[1]], y)
            /\ \/ tree' = tree
               \/ /\ tree[fd[p][o[1]]][o[2]].kind = "link"
                  /\ tree' = [tree EXCEPT ![fd[p][o[1]]][o[2]] = Hole]
    BY <1>2, <1>4
  <2>2. /\ o[2] \in Paths /\ fd[p][o[1]] \in Inodes
        /\ \A y \in Above[o[2]] : y \in Paths /\ y # o[2]
    BY <1>1, UndonePlace
  <2>3. Rooted' /\ Clean'
    <3>1. Hole \in Node /\ Hole.kind = "absent" /\ Hole.to = NoSource
      BY HoleTyped DEF Hole
    <3>2. CASE tree' = tree
      BY <3>2, SameTrees
    <3>3. CASE tree' # tree
      <4>1. /\ ~IsDir(fd[p][o[1]], o[2])
            /\ tree' = [tree EXCEPT ![fd[p][o[1]]][o[2]] = Hole]
        BY <2>1, <3>3 DEF IsDir
      <4> QED
        BY <2>2, <3>1, <4>1, RootedPut
    <3> QED
      BY <3>2, <3>3
  <2>4. \A y \in Above[o[2]] : IsDir(fd[p][o[1]], y)'
    BY <1>1, <2>1, <2>2 DEF IsDir
  <2>5. \A q : LastOp(p, q)' => q = o
    BY <2>1, LastUnique DEF LastOp
  <2> QED
    BY <2>3, <2>4, <2>5 DEF WayBack
<1> QED
  BY <1>3, <1>4

LEMMA PutBackRooted ==
    ASSUME IInv, Rooted, Clean, NEW p \in Applies, WayBack(p), PutBackup(p)
    PROVE  Rooted' /\ Clean'
<1> USE DEF IInv, TypeOK
<1>1. pc[p] = "putback"
  BY DEF PutBackup
<1>2. PICK o \in journal[p] :
         /\ LastOp(p, o)
         /\ \/ tree' = tree
            \/ /\ Absent(fd[p][o[1]], o[2]) /\ bak[p][o[1]][o[2]].kind # "absent"
               /\ tree' = [tree EXCEPT ![fd[p][o[1]]][o[2]] = bak[p][o[1]][o[2]]]
  BY DEF PutBackup, PutBack
<1>3. o[2] \in Paths /\ fd[p][o[1]] \in Inodes /\ bak[p][o[1]][o[2]] \in Node
  BY <1>1, UndonePlace, BackupTyped
<1>4. \A y \in Above[o[2]] : IsDir(fd[p][o[1]], y)
  BY <1>1, <1>2 DEF WayBack
<1> QED
  BY <1>2, <1>3, <1>4, RootedPut, SameTrees DEF Absent, IsDir

(* What is pruned has nothing below it but what is pruned as well.          *)
LEMMA PruneRooted ==
    ASSUME IInv, Rooted, Clean, NEW p \in Applies, Prune(p)
    PROVE  Rooted' /\ Clean'
<1> USE DEF IInv, TypeOK, TypeOfDisk
<1> DEFINE Pruned(i, x) == \E t \in locked[p] : fd[p][t] = i /\ Prunable(p, t, x)
<1>1. \A i \in Inodes : \A x \in Paths : tree'[i][x] = IF Pruned(i, x) THEN Hole ELSE tree[i][x]
  BY DEF Prune
<1>2. \A x \in Paths : \A y \in Above[x] : y \in Paths /\ Above[y] \subseteq Above[x]
  BY PlannerAssumption
<1>3. ASSUME NEW i \in Inodes, NEW z \in Paths, NEW x \in Above[z], Pruned(i, x),
             tree[i][z].kind # "absent"
      PROVE  Pruned(i, z)
  <2>1. PICK t \in locked[p] : fd[p][t] = i /\ Prunable(p, t, x)
    BY <1>3
  <2>2. CreatedDir(p, t, z)
    BY <1>3, <2>1 DEF Prunable, Absent
  <2>3. \A y \in Paths : z \in Above[y] => Absent(fd[p][t], y) \/ CreatedDir(p, t, y)
    BY <1>2, <2>1 DEF Prunable
  <2> QED
    BY <2>1, <2>2, <2>3 DEF Prunable
<1> HIDE DEF Pruned
<1>4. Clean'
  BY <1>1 DEF Clean, Hole
<1>5. ASSUME NEW i \in Inodes, NEW z \in Paths, tree'[i][z].kind # "absent", NEW y \in Above[z]
      PROVE  tree'[i][y].kind = "dir"
  <2>1. ~Pruned(i, z) /\ tree[i][z].kind # "absent"
    BY <1>1, <1>5 DEF Hole
  <2>2. ~Pruned(i, y) /\ tree[i][y].kind = "dir"
    BY <1>3, <2>1 DEF Rooted, IsDir
  <2> QED
    BY <1>1, <1>2, <2>2
<1> QED
  BY <1>4, <1>5 DEF Rooted, IsDir

LEMMA WholeInit == Init => GInv
<1> SUFFICES ASSUME Init PROVE GInv
  OBVIOUS
<1>1. PICK w \in [Targets -> Priors] :
         LET Homed(i) == {t \in Targets : w[t].present /\ Home[t] = i} IN
         tree = [i \in Inodes |-> IF Homed(i) = {} THEN EmptyTree
                                  ELSE w[CHOOSE t \in Homed(i) : TRUE].nodes]
  BY DEF Init
<1>2. \A y, x \in Paths : y \in Above[x] => y # x
  BY PlannerAssumption
<1>3. ASSUME NEW i \in Inodes, NEW x \in Paths
      PROVE  /\ tree[i][x].kind # "absent" => \A y \in Above[x] : tree[i][y].kind = "dir"
             /\ tree[i][x].kind = "absent" => tree[i][x].to = NoSource
  <2> DEFINE Homed == {t \in Targets : w[t].present /\ Home[t] = i}
  <2>1. CASE Homed = {}
    <3>1. tree[i] = EmptyTree
      BY <1>1, <1>3, <2>1
    <3> QED
      BY <3>1 DEF EmptyTree, Hole
  <2>2. CASE Homed # {}
    <3> DEFINE t == CHOOSE u \in Homed : TRUE
    <3>1. t \in Homed /\ w[t] \in Priors
      BY <2>2
    <3>2. tree[i] = w[t].nodes
      BY <1>1, <1>3, <2>2
    <3> HIDE DEF t
    <3> QED
      BY <3>1, <3>2, PriorsAssumption
  <2> QED
    BY <2>1, <2>2
<1>4. \A p \in Applies : WayBack(p)
  BY DEF Init, WayBack
<1> QED
  BY <1>3, <1>4 DEF GInv, Rooted, Clean, IsDir

LEMMA WholeNext ==
    ASSUME IInv, TInv, GInv, [Next]_vars PROVE GInv'
<1> USE DEF IInv, TypeOK, TypeOfControl, TypeOfBudget
<1>1. ASSUME envs' = 0, NEW p \in Applies, Begin(p) \/ Step(p) \/ Crash(p) PROVE GInv'
  <2>1. OthersUntouched(p) /\ OwnRootsOnly(p) /\ envs = 0
    BY <1>1, StepFrame
  <2>2. Rooted /\ Clean /\ Trees(p) /\ \A q \in Applies : WayBack(q)
    BY <2>1 DEF GInv, TInv
  <2>3. Promote(p) \/ MoveAside(p) \/ Install(p) \/ PutBackup(p) \/ Prune(p) => Rooted' /\ Clean'
    BY <2>2, PromoteRooted, MoveRooted, InstallRooted, PutBackRooted, PruneRooted
  <2>4. ASSUME ~(\/ Promote(p) \/ MoveAside(p) \/ Install(p) \/ Undo(p) \/ PutBackup(p)
                 \/ Prune(p))
        PROVE  Rooted' /\ Clean'
    <3>1. tree' = tree
      BY <1>1, <2>4 DEF Step, Begin, ReadRecord, WalkTree, BuildPlan, LookAtRoot, MakeRoot, OpenRoot,
         LockRoot, LockExpires, OpenNamespace, Abandon, Unchain, InitMetadata, Validate, Stage,
         CleanStaging, Publish, DropBackup, Settle, RestoreMetadata, Discard, Report, Release, Crash,
         disk
    <3> QED
      BY <2>2, <3>1, SameTrees
  <2>5. pc'[p] = "putback" => Undo(p)
    BY <1>1, OnlyUndoPutsBack
  <2>6. Rooted' /\ Clean' /\ WayBack(p)'
    BY <2>2, <2>3, <2>4, <2>5, UndoRooted DEF WayBack
  <2>7. ASSUME NEW q \in Applies \ {p} PROVE WayBack(q)'
    <3>1. pc'[q] = pc[q] /\ journal'[q] = journal[q] /\ fd'[q] = fd[q]
      BY <2>1 DEF OthersUntouched
    <3>2. pc[q] = "putback" => \A o \in journal[q] : tree'[fd[q][o[1]]] = tree[fd[q][o[1]]]
      BY <2>1, UndonePlace DEF OwnRootsOnly, LocksHeld, LocksHeldBy, Holds
    <3>3. ASSUME pc'[q] = "putback", NEW o \in journal'[q], LastOp(q, o)', NEW y \in Above[o[2]]
          PROVE  tree'[fd'[q][o[1]]][y].kind = "dir"
      <4>1. o \in journal[q] /\ LastOp(q, o) /\ pc[q] = "putback"
        BY <3>1, <3>3 DEF LastOp
      <4>2. tree[fd[q][o[1]]][y].kind = "dir"
        BY <2>2, <3>3, <4>1 DEF WayBack, IsDir
      <4> QED
        BY <3>1, <3>2, <4>1, <4>2
    <3> QED
      BY <3>3 DEF WayBack, IsDir
  <2> QED
    BY <2>6, <2>7 DEF GInv
<1>2. CASE UserStep
  BY <1>2 DEF UserStep, GInv
<1>3. CASE UNCHANGED vars
  BY <1>3 DEF vars, disk, control, handles, txn, budget, GInv, Rooted, Clean, WayBack, LastOp, IsDir
<1> QED
  BY <1>1, <1>2, <1>3 DEF Next, Finished, GInv

------------------------------------------------------------------------------
(* Links are only asked for, recorded and remembered where some desired     *)
(* links or a record that was there at the start have them.                 *)
AsksUsed(p) ==
    \A t \in Targets :
        /\ UsesOnly(want[p][t]) /\ UsesOnly(seen[p][t].entries)
        /\ prev[p][t] # NoFile => UsesOnly(prev[p][t].entries)
RecordsUsed == \A i \in Inodes : UsesOnly(Recorded(i))

LEMMA NoLinksUsed == UsesOnly(NoLinks) /\ UsesOnly(AbsentView.entries)
BY DEF UsesOnly, Managed, NoLinks, AbsentView

LEMMA ReadUsed ==
    ASSUME NEW i \in Inodes, UsesOnly(Recorded(i)) PROVE UsesOnly(RecordedLinks(ns[i]))
BY NoLinksUsed DEF Recorded, RecordedLinks, HasRecord

LEMMA ConfigsUsed ==
    ASSUME NEW c \in Configs, NEW t \in Targets PROVE UsesOnly(c[t])
BY DEF UsesOnly, Managed, Used

(* Behind the plan nothing new is asked for.                                *)
LEMMA PlanKept ==
    ASSUME NEW p \in Applies, Begin(p) \/ Step(p) \/ Crash(p),
           ~(Begin(p) \/ ReadRecord(p) \/ WalkTree(p) \/ BuildPlan(p) \/ Release(p) \/ Crash(p))
    PROVE  plan' = plan
BY DEF Step, LookAtRoot, MakeRoot, OpenRoot, LockRoot, LockExpires, OpenNamespace, Abandon,
   Unchain, InitMetadata, Validate, Stage, CleanStaging, Publish, DropBackup, Settle, Promote,
   MoveAside, Install, Undo, PutBackup, RestoreMetadata, Discard, Prune, Report, plan

LEMMA MemoryKept ==
    ASSUME NEW p \in Applies, Begin(p) \/ Step(p) \/ Crash(p),
           ~(InitMetadata(p) \/ Release(p) \/ Crash(p))
    PROVE  prev' = prev /\ fresh' = fresh
<1>1. CASE Begin(p) \/ ReadRecord(p) \/ WalkTree(p) \/ BuildPlan(p)
  BY <1>1 DEF Begin, ReadRecord, WalkTree, BuildPlan, txn
<1>2. CASE ~(Begin(p) \/ ReadRecord(p) \/ WalkTree(p) \/ BuildPlan(p))
  BY <1>2 DEF Step, LookAtRoot, MakeRoot, OpenRoot, LockRoot, LockExpires, OpenNamespace, Abandon,
     Unchain, Validate, Stage, CleanStaging, Publish, DropBackup, Settle, Promote,
     MoveAside, Install, Undo, PutBackup, RestoreMetadata, Discard, Prune, Report, txn
<1> QED
  BY <1>1, <1>2

LEMMA ForgetUsed ==
    ASSUME IInv, NEW p \in Applies, Forget(p), AsksUsed(p), prev' = prev PROVE AsksUsed(p)'
<1> USE DEF IInv, TypeOK, TypeOfPlan
<1>1. \A t \in Targets : want'[p][t] = NoLinks /\ seen'[p][t] = AbsentView
  BY DEF Forget
<1> QED
  BY <1>1, NoLinksUsed DEF AsksUsed

LEMMA SameAsks ==
    ASSUME NEW p \in Applies, AsksUsed(p), want'[p] = want[p], seen'[p] = seen[p], prev'[p] = prev[p]
    PROVE  AsksUsed(p)'
BY DEF AsksUsed, UsesOnly, Managed

LEMMA ScanUsed ==
    ASSUME IInv, NEW p \in Applies, AsksUsed(p), RecordsUsed,
           Begin(p) \/ ReadRecord(p) \/ WalkTree(p) \/ BuildPlan(p)
    PROVE  AsksUsed(p)'
<1> USE DEF IInv, TypeOK, TypeOfPlan, TypeOfDisk
<1>1. prev' = prev
  BY DEF Begin, ReadRecord, WalkTree, BuildPlan, txn
<1>2. CASE Begin(p)
  <2>1. PICK c \in Configs : want' = [want EXCEPT ![p] = c]
    BY <1>2 DEF Begin
  <2>2. \A t \in Targets : want'[p][t] = c[t] /\ seen'[p][t] = seen[p][t]
    BY <1>2, <2>1 DEF Begin
  <2> QED
    BY <1>1, <2>2, ConfigsUsed DEF AsksUsed
<1>3. CASE ReadRecord(p)
  <2>1. CASE Leave(p, "unscannable")
    BY <1>1, <2>1, ForgetUsed DEF Leave
  <2>2. CASE ~Leave(p, "unscannable")
    <3>1. PICK t \in Targets :
             \/ seen' = [seen EXCEPT ![p][t] = AbsentView]
             \/ /\ at[t] # NoInode
                /\ seen' = [seen EXCEPT ![p][t] =
                      [AbsentView EXCEPT !.exists = TRUE, !.cache = RecordedCache(ns[at[t]]),
                                         !.entries = RecordedLinks(ns[at[t]])]]
      BY <1>3, <2>2 DEF ReadRecord
    <3>2. want' = want
      BY <1>3, <2>2 DEF ReadRecord
    <3>3. \A u \in Targets :
             \/ seen'[p][u].entries \in {seen[p][u].entries, AbsentView.entries}
             \/ /\ u = t /\ at[t] \in Inodes
                /\ seen'[p][u].entries = RecordedLinks(ns[at[t]])
      <4>1. \A view : seen' = [seen EXCEPT ![p][t] = view]
               => \A u \in Targets : seen'[p][u] = IF u = t THEN view ELSE seen[p][u]
        OBVIOUS
      <4>2. CASE seen' = [seen EXCEPT ![p][t] = AbsentView]
        BY <4>1, <4>2
      <4>3. CASE seen' # [seen EXCEPT ![p][t] = AbsentView]
        <5> DEFINE read == [AbsentView EXCEPT !.exists = TRUE, !.cache = RecordedCache(ns[at[t]]),
                                              !.entries = RecordedLinks(ns[at[t]])]
        <5>1. at[t] \in Inodes /\ seen' = [seen EXCEPT ![p][t] = read]
          BY <3>1, <4>3
        <5>2. read.entries = RecordedLinks(ns[at[t]])
          BY DEF AbsentView
        <5> HIDE DEF read
        <5> QED
          BY <4>1, <5>1, <5>2
      <4> QED
        BY <4>2, <4>3
    <3>4. \A u \in Targets : UsesOnly(seen'[p][u].entries)
      BY <3>3, ReadUsed, NoLinksUsed DEF AsksUsed, RecordsUsed
    <3> QED
      BY <1>1, <3>2, <3>4 DEF AsksUsed
  <2> QED
    BY <2>1, <2>2
<1>4. CASE WalkTree(p)
  <2>1. CASE Leave(p, "unscannable")
    BY <1>1, <2>1, ForgetUsed DEF Leave
  <2>2. CASE ~Leave(p, "unscannable")
    <3>1. PICK t \in Targets :
             seen' = [seen EXCEPT ![p][t].unmanaged = Unmanaged(seen[p][t].entries, tree[at[t]])]
      BY <1>4, <2>2 DEF WalkTree
    <3>2. want' = want
      BY <1>4, <2>2 DEF WalkTree
    <3>3. \A u \in Targets : seen'[p][u].entries = seen[p][u].entries
      BY <3>1 DEF View
    <3> QED
      BY <1>1, <3>2, <3>3 DEF AsksUsed
  <2> QED
    BY <2>1, <2>2
<1>5. CASE BuildPlan(p)
  BY <1>1, <1>5, ForgetUsed, SameAsks DEF BuildPlan, Leave, plan
<1> QED
  BY <1>2, <1>3, <1>4, <1>5

LEMMA InitMetadataUsed ==
    ASSUME IInv, NEW p \in Applies, AsksUsed(p), RecordsUsed, InitMetadata(p)
    PROVE  AsksUsed(p)' /\ RecordsUsed'
<1> USE DEF IInv, TypeOK, TypeOfDisk, TypeOfTxn
<1>1. want' = want /\ seen' = seen
  BY DEF InitMetadata, plan
<1>2. PICK t \in Targets :
         /\ First(p, t)
         /\ \/ /\ prev' = [prev EXCEPT ![p][t] = ns[fd[p][t]].managed] /\ ns' = ns
               /\ ns[fd[p][t]].managed # NoFile
            \/ /\ prev' = prev
               /\ \E m \in {NoFile, EmptyRecord(p)} : ns' = [ns EXCEPT ![fd[p][t]].managed = m]
            \/ prev' = prev /\ ns' = ns
  BY DEF InitMetadata
<1>3. fd[p][t] \in Inodes
  <2>1. t \in locked[p]
    BY <1>2 DEF InitMetadata, TargetsTracked, Tracked
  <2> QED
    BY <2>1 DEF LocksHeld, LocksHeldBy, Holds
<1>4. \A i \in Inodes : ns'[i].managed \in {ns[i].managed, NoFile, EmptyRecord(p)}
  BY <1>2, <1>3, NoLinksUsed DEF Namespace
<1>5. RecordsUsed'
  <2>1. EmptyRecord(p).entries = NoLinks
    BY DEF EmptyRecord
  <2>2. \A i \in Inodes : Recorded(i)' = Recorded(i) \/ Recorded(i)' = NoLinks
    BY <1>4, <2>1 DEF Recorded
  <2> QED
    BY <2>2, NoLinksUsed DEF RecordsUsed, UsesOnly, Managed
<1>6. \A u \in Targets : prev'[p][u] = prev[p][u] \/ prev'[p][u] = ns[fd[p][t]].managed
  BY <1>2
<1>7. ns[fd[p][t]].managed # NoFile => UsesOnly(ns[fd[p][t]].managed.entries)
  BY <1>3 DEF RecordsUsed, Recorded
<1>8. \A u \in Targets : prev'[p][u] # NoFile => UsesOnly(prev'[p][u].entries)
  BY <1>6, <1>7 DEF AsksUsed
<1> QED
  BY <1>1, <1>5, <1>8 DEF AsksUsed

LEMMA WriteUsed ==
    ASSUME IInv, NEW p \in Applies, AsksUsed(p), RecordsUsed, Begin(p) \/ Step(p) \/ Crash(p),
           ~InitMetadata(p)
    PROVE  RecordsUsed'
<1> USE DEF IInv, TypeOK, TypeOfDisk
<1>1. ASSUME NEW i \in Inodes,
             \/ ns'[i].managed \in {ns[i].managed, NoFile}
             \/ \E t \in Targets : ns'[i].managed \in {Published(p, t), prev[p][t]}
      PROVE  UsesOnly(Recorded(i))'
  <2>1. CASE ns'[i].managed \in {ns[i].managed, NoFile}
    <3>1. Recorded(i)' = Recorded(i) \/ Recorded(i)' = NoLinks
      BY <2>1 DEF Recorded
    <3> QED
      BY <3>1, NoLinksUsed DEF RecordsUsed, UsesOnly, Managed
  <2>2. ASSUME NEW t \in Targets, ns'[i].managed = Published(p, t) PROVE UsesOnly(Recorded(i))'
    <3>1. Recorded(i)' = want[p][t] \/ Recorded(i)' = NoLinks
      BY <2>2 DEF Recorded, Published
    <3> QED
      BY <3>1, NoLinksUsed DEF AsksUsed, UsesOnly, Managed
  <2>3. ASSUME NEW t \in Targets, ns'[i].managed = prev[p][t] PROVE UsesOnly(Recorded(i))'
    <3>1. Recorded(i)' = NoLinks \/ (prev[p][t] # NoFile /\ Recorded(i)' = prev[p][t].entries)
      BY <2>3 DEF Recorded
    <3> QED
      BY <3>1, NoLinksUsed DEF AsksUsed, UsesOnly, Managed
  <2> QED
    BY <1>1, <2>1, <2>2, <2>3
<1>2. CASE Publish(p)
  <2>1. \E t \in Targets : ns' = ns \/ ns' = [ns EXCEPT ![fd[p][t]].managed = Published(p, t)]
    BY <1>2 DEF Publish
  <2>2. \A i \in Inodes : \/ ns'[i].managed = ns[i].managed
                          \/ \E t \in Targets : ns'[i].managed = Published(p, t)
    BY <2>1 DEF Namespace
  <2> QED
    BY <1>1, <2>2 DEF RecordsUsed
<1>3. CASE RestoreMetadata(p)
  <2>1. \E t \in Targets : ns' = ns \/ ns' = [ns EXCEPT ![fd[p][t]].managed = prev[p][t]]
    BY <1>3 DEF RestoreMetadata, OldRecord
  <2>2. \A i \in Inodes : \/ ns'[i].managed = ns[i].managed
                          \/ \E t \in Targets : ns'[i].managed = prev[p][t]
    BY <2>1 DEF Namespace
  <2> QED
    BY <1>1, <2>2 DEF RecordsUsed
<1>4. CASE ~(Publish(p) \/ RestoreMetadata(p))
  BY <1>1, <1>4, RecordsOnlyGo DEF RecordsUsed
<1> QED
  BY <1>2, <1>3, <1>4

LEMMA OwnUsed ==
    ASSUME IInv, NEW p \in Applies, AsksUsed(p), RecordsUsed, Begin(p) \/ Step(p) \/ Crash(p)
    PROVE  AsksUsed(p)'
<1> USE DEF IInv, TypeOK, TypeOfTxn, TypeOfPlan
<1>1. CASE Begin(p) \/ ReadRecord(p) \/ WalkTree(p) \/ BuildPlan(p)
  BY <1>1, ScanUsed
<1>2. CASE InitMetadata(p)
  BY <1>2, InitMetadataUsed
<1>3. CASE Release(p) \/ Crash(p)
  <2>1. CASE Forget(p) /\ Reset(p)
    <3>1. \A t \in Targets : want'[p][t] = NoLinks /\ seen'[p][t] = AbsentView /\ prev'[p][t] = NoFile
      BY <2>1 DEF Forget, Reset
    <3> QED
      BY <3>1, NoLinksUsed DEF AsksUsed
  <2>2. CASE ~(Forget(p) /\ Reset(p))
    <3>1. want' = want /\ seen' = seen /\ prev' = prev
      BY <1>3, <2>2 DEF Release, Crash, plan
    <3> QED
      BY <3>1, SameAsks
  <2> QED
    BY <2>1, <2>2
<1>4. CASE ~(\/ Begin(p) \/ ReadRecord(p) \/ WalkTree(p) \/ BuildPlan(p) \/ InitMetadata(p)
             \/ Release(p) \/ Crash(p))
  <2>1. plan' = plan /\ prev' = prev
    BY <1>4, PlanKept, MemoryKept
  <2> QED
    BY <2>1, SameAsks DEF plan
<1> QED
  BY <1>1, <1>2, <1>3, <1>4

LEMMA UsedInit == Init => UInv
<1> SUFFICES ASSUME Init PROVE UInv
  OBVIOUS
<1>1. PICK w \in [Targets -> Priors] :
         LET Homed(i) == {t \in Targets : w[t].present /\ Home[t] = i} IN
         ns = [i \in Inodes |-> IF Homed(i) = {} THEN NoNamespace
                                ELSE w[CHOOSE t \in Homed(i) : TRUE].ns]
  BY DEF Init
<1>2. ASSUME NEW i \in Inodes PROVE UsesOnly(Recorded(i))
  <2> DEFINE Homed == {t \in Targets : w[t].present /\ Home[t] = i}
  <2>1. CASE Homed = {}
    <3>1. ns[i] = NoNamespace
      BY <1>1, <2>1
    <3> QED
      BY <3>1, NoLinksUsed DEF NoNamespace, Recorded
  <2>2. CASE Homed # {}
    <3> DEFINE t == CHOOSE u \in Homed : TRUE
    <3>1. t \in Homed /\ w[t] \in Priors
      BY <2>2
    <3>2. ns[i] = w[t].ns
      BY <1>1, <2>2
    <3> HIDE DEF t
    <3> QED
      BY <3>1, <3>2, NoLinksUsed DEF Recorded, UsesOnly, Managed, Used
  <2> QED
    BY <2>1, <2>2
<1>3. \A p \in Applies : \A t \in Targets :
         want[p][t] = NoLinks /\ seen[p][t] = AbsentView /\ prev[p][t] = NoFile
  BY DEF Init
<1> QED
  BY <1>2, <1>3, NoLinksUsed DEF UInv

LEMMA UsedNext ==
    ASSUME IInv, UInv, [Next]_vars PROVE UInv'
<1>1. RecordsUsed /\ \A p \in Applies : AsksUsed(p)
  BY DEF UInv, RecordsUsed, AsksUsed
<1>2. ASSUME NEW p \in Applies, Begin(p) \/ Step(p) \/ Crash(p) PROVE UInv'
  <2>1. OthersUntouched(p)
    BY <1>2, StepFrame
  <2>2. \A q \in Applies \ {p} : AsksUsed(q)'
    BY <1>1, <2>1, SameAsks DEF OthersUntouched
  <2>3. AsksUsed(p)'
    BY <1>1, <1>2, OwnUsed
  <2>4. RecordsUsed'
    BY <1>1, <1>2, WriteUsed, InitMetadataUsed
  <2> QED
    BY <2>2, <2>3, <2>4 DEF UInv, RecordsUsed, AsksUsed
<1>3. CASE UserStep \/ UNCHANGED vars
  <2>1. ns' = ns /\ want' = want /\ seen' = seen /\ prev' = prev
    BY <1>3 DEF UserStep, vars, disk, plan, txn
  <2> QED
    BY <2>1 DEF UInv, Recorded, UsesOnly, Managed
<1> QED
  BY <1>2, <1>3 DEF Next, Finished

(* So no operation of any run moves a link below itself.                    *)
LEMMA NothingMoves ==
    ASSUME IInv, UInv, NothingNested, NEW p \in Applies PROVE ~Moves(p)
<1> SUFFICES ASSUME NEW o \in Ops(p), NEW q \in Ops(p), o[1] = q[1], o[2] \in Above[q[2]]
             PROVE  FALSE
  BY DEF Moves
<1> USE DEF IInv, TypeOK, TypeOfPlan
<1>1. ASSUME NEW e \in Ops(p) PROVE e[2] \in Used
  <2>1. e[1] \in Targets /\ e[2] \in Artifacts
    BY OpsTyped DEF Operations
  <2>2. seen[p][e[1]].entries[e[2]] # want[p][e[1]][e[2]]
    BY <1>1 DEF Ops, Mutations, Action
  <2>3. e[2] \in Managed(want[p][e[1]]) \/ e[2] \in Managed(seen[p][e[1]].entries)
    BY <2>1, <2>2 DEF Managed
  <2> QED
    BY <2>1, <2>3 DEF UInv, UsesOnly
<1> QED
  BY <1>1 DEF NothingNested

------------------------------------------------------------------------------
(* Which steps there are: a rollback takes the steps of a rollback, a run   *)
(* that ended takes none, and only reading a record leads to a walk.        *)
RollingBack == {"undo", "putback", "restore", "discard", "prune", "report"}
LEMMA RollbackSteps ==
    ASSUME NEW p \in Applies, Begin(p) \/ Step(p), pc[p] \in RollingBack \cup {"release", "done"}
    PROVE  \/ Undo(p) \/ PutBackup(p) \/ RestoreMetadata(p) \/ Discard(p) \/ Prune(p)
           \/ Report(p) \/ Release(p)
<1>1. ~(\/ Begin(p) \/ ReadRecord(p) \/ WalkTree(p) \/ BuildPlan(p) \/ LookAtRoot(p) \/ MakeRoot(p)
        \/ OpenRoot(p) \/ LockRoot(p) \/ LockExpires(p) \/ OpenNamespace(p) \/ Abandon(p)
        \/ Unchain(p) \/ InitMetadata(p) \/ Validate(p))
  BY DEF RollingBack, Begin, ReadRecord, WalkTree, BuildPlan, LookAtRoot, MakeRoot, OpenRoot, LockRoot,
     LockExpires, OpenNamespace, Abandon, Unchain, InitMetadata, Validate
<1>2. ~(\/ Stage(p) \/ Promote(p) \/ MoveAside(p) \/ Install(p) \/ CleanStaging(p) \/ Publish(p)
        \/ DropBackup(p) \/ Settle(p))
  BY DEF RollingBack, Stage, Promote, MoveAside, Install, CleanStaging, Publish, DropBackup, Settle
<1> QED
  BY <1>1, <1>2 DEF Step

LEMMA EarlySteps ==
    ASSUME IInv, NEW p \in Applies, Begin(p) \/ Step(p) \/ Crash(p), pc'[p] \in Early
    PROVE  \/ BuildPlan(p)
           \/ LookAtRoot(p) \/ MakeRoot(p) \/ OpenRoot(p) \/ LockRoot(p) \/ LockExpires(p)
           \/ OpenNamespace(p) \/ Abandon(p) \/ Unchain(p) \/ InitMetadata(p) \/ Validate(p)
<1> USE DEF IInv, TypeOK, TypeOfControl, Early, Preparing
<1>1. ~(Begin(p) \/ ReadRecord(p) \/ WalkTree(p))
  BY DEF Begin, ReadRecord, WalkTree, Loop, Leave, Goto
<1>2. ~Fail(p) /\ \A step : Goto(p, step) => step \in Early
  BY DEF Fail, Goto
<1>3. \A t, step, after, again : Loop(p, t, step, after, again) => step \in Early \/ after \in Early
  BY DEF Loop, Goto
<1> HIDE DEF IInv, TypeOK, TypeOfControl
<1> DEFINE Others == {"promote", "move", "install", "clean", "publish", "drop", "settle", "release",
                      "undo", "restore", "discard", "prune", "report", "done"}
<1>9. \A step \in Others : step \notin Early
  OBVIOUS
<1> HIDE DEF Early, Preparing
<1>10. \A step \in Others : ~Goto(p, step)
  BY <1>2, <1>9
<1>11. \A t, again : \A step, after \in Others : ~Loop(p, t, step, after, again)
  BY <1>3, <1>9
<1>4. ~(\/ Stage(p) \/ CleanStaging(p) \/ Publish(p) \/ DropBackup(p) \/ Settle(p) \/ Promote(p))
  BY <1>2, <1>10, <1>11 DEF Stage, CleanStaging, Publish, DropBackup, Settle, Promote
<1>5. ~(MoveAside(p) \/ Install(p))
  <2>1. \A o : ~Journaled(p, o)
    BY <1>2, <1>10 DEF Journaled
  <2> QED
    BY <1>2, <1>10, <2>1 DEF MoveAside, Install, PutAside, PutLink, PutNoLink
<1>6. ~(RestoreMetadata(p) \/ Discard(p) \/ Prune(p) \/ Report(p) \/ PutBackup(p))
  BY <1>2, <1>10, <1>11 DEF RestoreMetadata, Discard, Prune, Report, PutBackup
<1>7. ~Undo(p)
  <2>1. Undo(p) => pc'[p] \in {"undo", "restore", "release", "putback"}
    BY DEF Undo, Goto, IInv, TypeOK, TypeOfControl
  <2> QED
    BY <2>1 DEF Early, Preparing
<1>8. ~(Release(p) \/ Crash(p))
  BY <1>9, <1>10 DEF Release, Crash
<1> QED
  BY <1>1, <1>4, <1>5, <1>6, <1>7, <1>8 DEF Step

LEMMA OnlyReadingWalks ==
    ASSUME IInv, NEW p \in Applies, Begin(p) \/ Step(p) \/ Crash(p), pc'[p] = "walk"
    PROVE  ReadRecord(p)
<1> USE DEF IInv, TypeOK, TypeOfControl
<1>1. ~(Begin(p) \/ WalkTree(p) \/ BuildPlan(p))
  BY DEF Begin, WalkTree, BuildPlan, Loop, Leave, Goto
<1>2. ~(\/ LookAtRoot(p) \/ MakeRoot(p) \/ OpenRoot(p) \/ LockRoot(p) \/ LockExpires(p)
        \/ OpenNamespace(p) \/ Abandon(p) \/ Unchain(p))
  BY DEF LookAtRoot, MakeRoot, OpenRoot, LockRoot, LockExpires, OpenNamespace, Abandon,
     Unchain, Goto, Fail
<1>3. ~Fail(p) /\ \A step : Goto(p, step) => step = "walk"
  BY DEF Fail, Goto
<1>4. \A t, step, after, again : Loop(p, t, step, after, again) => step = "walk" \/ after = "walk"
  BY DEF Loop, Goto
<1>5. ~Undo(p)
  BY DEF Undo, Goto
<1> HIDE DEF IInv, TypeOK, TypeOfControl
<1>6. ~(\/ InitMetadata(p) \/ Validate(p) \/ Stage(p) \/ CleanStaging(p) \/ Publish(p)
        \/ DropBackup(p) \/ Settle(p) \/ Promote(p))
  BY <1>3, <1>4 DEF InitMetadata, Validate, Stage, CleanStaging, Publish, DropBackup, Settle, Promote
<1>7. ~(MoveAside(p) \/ Install(p))
  <2>1. \A o : ~Journaled(p, o)
    BY <1>3 DEF Journaled
  <2> QED
    BY <1>3, <2>1 DEF MoveAside, Install, PutAside, PutLink, PutNoLink
<1>8. ~(RestoreMetadata(p) \/ Discard(p) \/ Prune(p) \/ Report(p) \/ PutBackup(p))
  BY <1>3, <1>4 DEF RestoreMetadata, Discard, Prune, Report, PutBackup
<1>9. ~(Release(p) \/ Crash(p))
  BY <1>3, <1>5 DEF Release, Crash
<1> QED
  BY <1>1, <1>2, <1>5, <1>6, <1>7, <1>8, <1>9 DEF Step

(* The plan knows nothing of a root that was not there.                     *)
LEMMA SameSeen ==
    ASSUME NEW p \in Applies, SeenAbsent(p), seen'[p] = seen[p], pc'[p] # "walk" PROVE SeenAbsent(p)'
BY DEF SeenAbsent

LEMMA ForgetSeen ==
    ASSUME IInv, NEW p \in Applies, Forget(p), pc'[p] # "walk" PROVE SeenAbsent(p)'
BY DEF Forget, SeenAbsent, IInv, TypeOK, TypeOfPlan

LEMMA ReadSeen ==
    ASSUME IInv, NEW p \in Applies, SeenAbsent(p), ReadRecord(p) PROVE SeenAbsent(p)'
<1> USE DEF IInv, TypeOK, TypeOfPlan, TypeOfControl
<1>1. CASE Leave(p, "unscannable")
  BY <1>1, ForgetSeen DEF Leave, Goto
<1>2. CASE ~Leave(p, "unscannable")
  <2>1. PICK t \in Targets :
           /\ First(p, t)
           /\ \/ seen' = [seen EXCEPT ![p][t] = AbsentView] /\ pc'[p] # "walk"
              \/ /\ seen' = [seen EXCEPT ![p][t] =
                       [AbsentView EXCEPT !.exists = TRUE, !.cache = RecordedCache(ns[at[t]]),
                                          !.entries = RecordedLinks(ns[at[t]])]]
                 /\ left' = left
    BY <1>2 DEF ReadRecord, Loop, Goto
  <2>2. \A view : seen' = [seen EXCEPT ![p][t] = view]
           => \A u \in Targets : seen'[p][u] = IF u = t THEN view ELSE seen[p][u]
    OBVIOUS
  <2>3. CASE seen' = [seen EXCEPT ![p][t] = AbsentView] /\ pc'[p] # "walk"
    BY <2>2, <2>3 DEF SeenAbsent
  <2>4. CASE ~(seen' = [seen EXCEPT ![p][t] = AbsentView] /\ pc'[p] # "walk")
    <3> DEFINE read == [AbsentView EXCEPT !.exists = TRUE, !.cache = RecordedCache(ns[at[t]]),
                                          !.entries = RecordedLinks(ns[at[t]])]
    <3>1. left' = left /\ seen' = [seen EXCEPT ![p][t] = read]
      BY <2>1, <2>4
    <3>2. read.exists
      BY DEF AbsentView
    <3> HIDE DEF read
    <3>3. \A u \in Targets : First(p, u)' => u = t
      BY <2>1, <3>1, FirstUnique DEF First
    <3>4. \A u \in Targets : seen'[p][u] = IF u = t THEN read ELSE seen[p][u]
      BY <2>2, <3>1
    <3> QED
      BY <3>2, <3>3, <3>4 DEF SeenAbsent
  <2> QED
    BY <2>3, <2>4
<1> QED
  BY <1>1, <1>2

LEMMA WalkSeen ==
    ASSUME IInv, NEW p \in Applies, SeenAbsent(p), WalkTree(p) PROVE SeenAbsent(p)'
<1> USE DEF IInv, TypeOK, TypeOfPlan, TypeOfControl
<1>1. pc'[p] # "walk"
  BY DEF WalkTree, Loop, Leave, Goto
<1>2. CASE Leave(p, "unscannable")
  BY <1>1, <1>2, ForgetSeen DEF Leave
<1>3. CASE ~Leave(p, "unscannable")
  <2>1. PICK t \in Targets :
           /\ First(p, t)
           /\ seen' = [seen EXCEPT ![p][t].unmanaged = Unmanaged(seen[p][t].entries, tree[at[t]])]
    BY <1>3 DEF WalkTree
  <2>2. seen[p][t].exists
    BY <2>1 DEF WalkTree, SeenAbsent
  <2>3. \A u \in Targets : IF u = t THEN seen'[p][u].exists = seen[p][u].exists
                           ELSE seen'[p][u] = seen[p][u]
    BY <2>1 DEF View
  <2> QED
    BY <1>1, <2>2, <2>3 DEF SeenAbsent
<1> QED
  BY <1>2, <1>3

LEMMA OwnSeen ==
    ASSUME IInv, NEW p \in Applies, SeenAbsent(p), Begin(p) \/ Step(p) \/ Crash(p)
    PROVE  SeenAbsent(p)'
<1>1. CASE ReadRecord(p) \/ WalkTree(p)
  BY <1>1, ReadSeen, WalkSeen
<1>2. CASE ~(ReadRecord(p) \/ WalkTree(p))
  <2>1. pc'[p] # "walk"
    BY <1>2, OnlyReadingWalks
  <2>2. Forget(p) \/ seen' = seen
    <3>1. CASE Begin(p) \/ BuildPlan(p) \/ Release(p) \/ Crash(p)
      BY <3>1 DEF Begin, BuildPlan, Leave, Release, Crash, plan
    <3>2. CASE ~(Begin(p) \/ BuildPlan(p) \/ Release(p) \/ Crash(p))
      BY <1>2, <3>2, PlanKept DEF plan
    <3> QED
      BY <3>1, <3>2
  <2> QED
    BY <2>1, <2>2, ForgetSeen, SameSeen
<1> QED
  BY <1>1, <1>2

(* What a run has taken over, it remembers as it was found.                 *)
LEMMA OthersRemember ==
    ASSUME IInv, NEW p \in Applies, Begin(p) \/ Step(p) \/ Crash(p), NEW q \in Applies \ {p},
           RemembersFound(q)
    PROVE  RemembersFound(q)'
<1> USE DEF IInv
<1>1. OthersUntouched(p) /\ OwnRootsOnly(p)
  BY StepFrame
<1>2. /\ pc'[q] = pc[q] /\ left'[q] = left[q] /\ locked'[q] = locked[q] /\ fd'[q] = fd[q]
      /\ fresh'[q] = fresh[q] /\ prev'[q] = prev[q]
  BY <1>1 DEF OthersUntouched
<1>3. \A t \in locked[q] : ns'[fd[q][t]] = ns[fd[q][t]]
  BY <1>1 DEF OwnRootsOnly, LocksHeld, LocksHeldBy, Holds
<1>4. Taken(q)' = Taken(q) /\ Taken(q) \subseteq locked[q]
  BY <1>2 DEF Taken, First
<1> QED
  BY <1>2, <1>3, <1>4 DEF RemembersFound, Rec

LEMMA InitMetadataRemembers ==
    ASSUME IInv, RInv, NEW p \in Applies, RemembersFound(p), InitMetadata(p)
    PROVE  RemembersFound(p)'
<1> USE DEF IInv, TypeOK, TypeOfControl, TypeOfTxn, TypeOfDisk
<1>1. pc[p] = "init" /\ fd' = fd /\ locked' = locked
  BY DEF InitMetadata, handles
<1>2. PICK t \in Targets :
         /\ First(p, t)
         /\ \/ pc'[p] \in {"undo", "settle"}
            \/ /\ ns[fd[p][t]].managed # NoFile
               /\ prev' = [prev EXCEPT ![p][t] = ns[fd[p][t]].managed] /\ ns' = ns /\ fresh' = fresh
               /\ pc'[p] # "init" \/ left'[p] = left[p] \ {t}
            \/ /\ ns[fd[p][t]].managed = NoFile
               /\ ns' = [ns EXCEPT ![fd[p][t]].managed = EmptyRecord(p)]
               /\ fresh' = [fresh EXCEPT ![p][t] = TRUE] /\ prev' = prev
               /\ pc'[p] # "init" \/ left'[p] = left[p] \ {t}
  BY DEF InitMetadata, Loop, Goto, Fail
<1>3. CASE pc'[p] \in {"undo", "settle"}
  BY <1>3 DEF RemembersFound, Early, Preparing
<1>4. CASE pc'[p] \notin {"undo", "settle"}
  <2>1. t \in locked[p] /\ fd[p][t] \in Inodes /\ prev[p][t] = NoFile /\ ~fresh[p][t]
    <3>1. t \in locked[p]
      BY <1>1, <1>2 DEF TargetsTracked, Tracked
    <3> QED
      BY <1>1, <1>2, <3>1 DEF LocksHeld, LocksHeldBy, Holds, RInv, Records, Remembers
  <2>2. \A u \in Taken(p)' : /\ u \in locked[p] /\ u \in Targets
                             /\ u # t => u \in Taken(p) /\ fd[p][u] \in Inodes /\ fd[p][u] # fd[p][t]
    <3>1. \A u \in Taken(p)' : u \in locked[p] /\ u \in Targets
      BY <1>1 DEF Taken, TypeOfHandles
    <3>2. \A u \in Targets : First(p, u) => u = t
      BY <1>2, FirstUnique
    <3>3. \A u \in locked[p] : fd[p][u] \in Inodes
      BY DEF LocksHeld, LocksHeldBy, Holds
    <3>4. \A u \in Taken(p)' : u # t => u \in Taken(p)
      BY <1>1, <3>1, <3>2 DEF Taken
    <3>5. \A u \in Targets : fd[p][u] = fd[p][t] => u = t
      BY <1>2, <2>1, ReconcilerAssumption DEF InodesApart, TypeOfHandles
    <3> QED
      BY <3>1, <3>3, <3>4, <3>5
  <2>3. ASSUME NEW u \in Taken(p)'
        PROVE  IF fresh'[p][u] THEN prev'[p][u] = NoFile ELSE prev'[p][u] = ns'[fd[p][u]].managed
    <3>1. CASE u = t
      <4>1. CASE ns[fd[p][t]].managed # NoFile
        BY <1>2, <1>4, <2>1, <3>1, <4>1
      <4>2. CASE ns[fd[p][t]].managed = NoFile
        BY <1>2, <1>4, <2>1, <3>1, <4>2
      <4> QED
        BY <4>1, <4>2
    <3>2. CASE u # t
      <4>1. IF fresh[p][u] THEN prev[p][u] = NoFile ELSE prev[p][u] = ns[fd[p][u]].managed
        BY <1>1, <2>2, <3>2 DEF RemembersFound, Rec, Early
      <4>2. fresh'[p][u] = fresh[p][u] /\ prev'[p][u] = prev[p][u] /\ ns'[fd[p][u]] = ns[fd[p][u]]
        BY <1>2, <1>4, <2>2, <3>2
      <4> QED
        BY <4>1, <4>2
    <3> QED
      BY <3>1, <3>2
  <2> QED
    BY <1>1, <2>3 DEF RemembersFound, Rec
<1> QED
  BY <1>3, <1>4

LEMMA OwnRemembers ==
    ASSUME IInv, RInv, NEW p \in Applies, RemembersFound(p), Begin(p) \/ Step(p) \/ Crash(p)
    PROVE  RemembersFound(p)'
<1> USE DEF IInv, TypeOK, TypeOfDisk, TypeOfHandles
<1>1. CASE InitMetadata(p)
  BY <1>1, InitMetadataRemembers
<1>2. CASE pc'[p] \notin Early
  BY <1>2 DEF RemembersFound
<1>3. CASE BuildPlan(p)
  <2>1. locked'[p] = {}
    BY <1>3 DEF BuildPlan, handles, TargetsTracked, Tracked, Unlocked
  <2> QED
    BY <2>1 DEF RemembersFound, Taken
<1>4. CASE /\ ~InitMetadata(p) /\ pc'[p] \in Early /\ ~BuildPlan(p)
  <2>1. \/ LookAtRoot(p) \/ MakeRoot(p) \/ OpenRoot(p) \/ LockRoot(p) \/ LockExpires(p)
        \/ OpenNamespace(p) \/ Abandon(p) \/ Unchain(p) \/ Validate(p)
    BY <1>4, EarlySteps
  <2>2. pc[p] \in Early
    BY <2>1 DEF LookAtRoot, MakeRoot, OpenRoot, LockRoot, LockExpires, OpenNamespace, Abandon, Unchain,
       Validate, Early, Preparing
  <2>3. prev' = prev /\ fresh' = fresh
    BY <1>4, <2>1, MemoryKept DEF OpenNamespace, Validate, LookAtRoot, MakeRoot, OpenRoot, LockRoot,
       LockExpires, Abandon, Unchain, txn
  <2>4. \A i \in Inodes : ns'[i].managed = ns[i].managed
    <3>1. ns' = ns \/ \E t \in Targets : ns' = [ns EXCEPT ![fd[p][t]].exists = TRUE]
      BY <2>1 DEF LookAtRoot, MakeRoot, OpenRoot, LockRoot, LockExpires, OpenNamespace, Abandon,
         Unchain, Validate, disk
    <3>2. ASSUME NEW j, NEW i \in Inodes, ns' = [ns EXCEPT ![j].exists = TRUE]
          PROVE  ns'[i].managed = ns[i].managed
      <4>1. CASE j = i
        BY <3>2, <4>1 DEF Namespace
      <4>2. CASE j # i
        BY <3>2, <4>2
      <4> QED
        BY <4>1, <4>2
    <3> QED
      BY <3>1, <3>2
  <2>5. \A t \in Taken(p)' : t \in Taken(p) /\ fd'[p][t] = fd[p][t] /\ fd[p][t] \in Inodes
    BY <1>4, TakenBefore DEF Taken, LocksHeld, LocksHeldBy, Holds
  <2> QED
    BY <2>2, <2>3, <2>4, <2>5 DEF RemembersFound, Rec
<1> QED
  BY <1>1, <1>2, <1>3, <1>4

------------------------------------------------------------------------------
(* What a rollback relies on stays where nothing is written.                *)
SamePlan(p) == sel'[p] = sel[p] /\ want'[p] = want[p] /\ seen'[p] = seen[p]
Ending(p) == pc[p] \in {"report", "release"}

LEMMA SameOps ==
    ASSUME NEW p \in Applies, SamePlan(p) PROVE Ops(p)' = Ops(p) /\ (Moves(p)' <=> Moves(p))
<1>1. Ops(p)' = Ops(p)
  BY DEF Ops, SamePlan
<1> QED
  BY <1>1 DEF Moves

LEMMA SameHalves ==
    ASSUME NEW p \in Applies, SamePlan(p), journal'[p] = journal[p], NEW o
    PROVE  /\ NextOp(p, o)' <=> NextOp(p, o)
           /\ LastOp(p, o)' <=> LastOp(p, o)
           /\ pc'[p] = pc[p] => (Half(p, o)' <=> Half(p, o))
<1>1. NextOp(p, o)' <=> NextOp(p, o)
  BY SameOps DEF NextOp, Todo
<1>2. LastOp(p, o)' <=> LastOp(p, o)
  BY DEF LastOp
<1> QED
  BY <1>1, <1>2 DEF Half

LEMMA EntryKept ==
    ASSUME NEW p \in Applies, NEW o, SamePlan(p), fd'[p][o[1]] = fd[p][o[1]],
           tree'[fd[p][o[1]]][o[2]] = tree[fd[p][o[1]]][o[2]],
           \A y \in Above[o[2]] : IsDir(fd[p][o[1]], y) => tree'[fd[p][o[1]]][y].kind = "dir",
           bak'[p][o[1]][o[2]] = bak[p][o[1]][o[2]], o \in journal'[p] <=> o \in journal[p],
           Half(p, o)' <=> Half(p, o), InOrder(p, o)
    PROVE  InOrder(p, o)'
<1>1. want'[p] = want[p] /\ seen'[p] = seen[p]
  BY DEF SamePlan
<1>2. /\ Saved(p, o)' <=> Saved(p, o)
      /\ OldLink(p, o)' <=> OldLink(p, o)
      /\ IsNew(p, o)' <=> IsNew(p, o)
      /\ Absent(fd[p][o[1]], o[2])' <=> Absent(fd[p][o[1]], o[2])
      /\ StagedLink(p, o)' = StagedLink(p, o)
  BY <1>1 DEF Saved, OldLink, IsNew, Absent, StagedLink
<1>3. WayThere(p, o) => WayThere(p, o)'
  BY DEF WayThere, IsDir
<1>4. CASE HalfDone(p, o)
  BY <1>2, <1>3, <1>4 DEF HalfDone, InOrder, Absent
<1>5. CASE Done(p, o)
  BY <1>1, <1>2, <1>3, <1>5 DEF Done, InOrder, Absent
<1>6. CASE NotDone(p, o)
  BY <1>1, <1>2, <1>6 DEF NotDone, InOrder, Absent
<1> QED
  BY <1>4, <1>5, <1>6 DEF InOrder

LEMMA BesideKept ==
    ASSUME NEW p \in Applies, NEW o, SamePlan(p), fd'[p][o[1]] = fd[p][o[1]],
           tree'[fd[p][o[1]]][o[2]] = tree[fd[p][o[1]]][o[2]],
           (o \in parents'[p] /\ ~Ending(p)') <=> (o \in parents[p] /\ ~Ending(p)), Beside(p, o)
    PROVE  Beside(p, o)'
BY DEF Beside, OldLink, SamePlan, Ending

(* Nothing is written below this root.                                      *)
LEMMA QuietLaid ==
    ASSUME NEW p \in Applies, NEW t, Laid(p, t), SamePlan(p), fd'[p][t] = fd[p][t],
           tree'[fd[p][t]] = tree[fd[p][t]], bak'[p][t] = bak[p][t],
           journal'[p] = journal[p], parents'[p] = parents[p], Ending(p)' <=> Ending(p),
           \A o : Half(p, o)' <=> Half(p, o)
    PROVE  Laid(p, t)'
<1>1. ASSUME NEW x \in Paths PROVE IF <<t, x>> \in Ops(p) THEN InOrder(p, <<t, x>>)' ELSE Beside(p, <<t, x>>)'
  <2>1. CASE <<t, x>> \in Ops(p)
    <3>1. InOrder(p, <<t, x>>)
      BY <2>1 DEF Laid
    <3>2. \A y : IsDir(fd[p][t], y) => tree'[fd[p][t]][y].kind = "dir"
      BY DEF IsDir
    <3> QED
      BY <2>1, <3>1, <3>2, EntryKept
  <2>2. CASE <<t, x>> \notin Ops(p)
    <3>1. Beside(p, <<t, x>>)
      BY <2>2 DEF Laid
    <3> QED
      BY <2>2, <3>1, BesideKept
  <2> QED
    BY <2>1, <2>2
<1> QED
  BY <1>1, SameOps DEF Laid

(* One place is written, or none.                                           *)
LEMMA LaidButOne ==
    ASSUME IInv, NEW p \in Applies, NEW o \in Ops(p), o[1] \in locked[p],
           SamePlan(p), fd'[p] = fd[p], parents'[p] = parents[p], ~Ending(p), ~Ending(p)',
           ~IsDir(fd[p][o[1]], o[2]), InOrder(p, o)',
           \A t \in locked[p] : Laid(p, t),
           \A t \in locked[p] : \A x \in Paths : <<t, x>> # o =>
              /\ tree'[fd[p][t]][x] = tree[fd[p][t]][x] /\ bak'[p][t][x] = bak[p][t][x]
              /\ <<t, x>> \in journal'[p] <=> <<t, x>> \in journal[p]
              /\ ~Half(p, <<t, x>>) /\ ~Half(p, <<t, x>>)'
    PROVE  \A t \in locked[p] : Laid(p, t)'
<1>1. \A x \in Paths : \A y \in Above[x] : y \in Paths
  BY PlannerAssumption
<1>2. ASSUME NEW t \in locked[p], NEW x \in Paths
      PROVE  IF <<t, x>> \in Ops(p) THEN InOrder(p, <<t, x>>)' ELSE Beside(p, <<t, x>>)'
  <2>1. CASE <<t, x>> = o
    BY <2>1
  <2>2. CASE <<t, x>> # o
    <3>1. ASSUME NEW y \in Above[x], IsDir(fd[p][t], y) PROVE tree'[fd[p][t]][y].kind = "dir"
      <4>1. <<t, y>> # o
        BY <3>1
      <4> QED
        BY <1>1, <3>1, <4>1 DEF IsDir
    <3>2. /\ tree'[fd[p][t]][x] = tree[fd[p][t]][x] /\ bak'[p][t][x] = bak[p][t][x]
          /\ <<t, x>> \in journal'[p] <=> <<t, x>> \in journal[p]
          /\ ~Half(p, <<t, x>>) /\ ~Half(p, <<t, x>>)'
      BY <2>2
    <3>3. CASE <<t, x>> \in Ops(p)
      <4>1. InOrder(p, <<t, x>>)
        BY <3>3 DEF Laid
      <4> QED
        BY <3>1, <3>2, <3>3, <4>1, EntryKept
    <3>4. CASE <<t, x>> \notin Ops(p)
      <4>1. Beside(p, <<t, x>>)
        BY <3>4 DEF Laid
      <4> QED
        BY <3>2, <3>4, <4>1, BesideKept
    <3> QED
      BY <3>3, <3>4
  <2> QED
    BY <2>1, <2>2
<1> QED
  BY <1>2, SameOps DEF Laid

(* A transaction that can be taken back, and a step that leaves it so, or   *)
(* meets with an error, or with the leftovers of one.                       *)
Returns(p) ==
    /\ Late(p) /\ ~errs[p] /\ ~Moves(p)
    /\ journal[p] \subseteq Ops(p) /\ \A t \in locked[p] : Whole(p, t)
ReturnsStill(p) ==
    IF errs'[p] THEN faults' = faults + 1 \/ Littered(p)'
    ELSE journal'[p] \subseteq Ops(p)' /\ \A t \in locked'[p] : Whole(p, t)'

LEMMA StandingWhole ==
    ASSUME NEW p \in Applies, Returns(p), NEW t \in locked[p], ~Reported(p, t)
    PROVE  /\ SeenWhole(p, t) /\ prev[p][t] = SeenRecord(p, t) /\ Standing(p, t) /\ Laid(p, t)
           /\ at[t] = fd[p][t] /\ ns[fd[p][t]].exists /\ t \in sel[p]
BY DEF Returns, Whole, Gone, Standing

LEMMA StillWhole ==
    ASSUME NEW p \in Applies, Returns(p), NEW t \in locked[p], ~Reported(p, t), ~Reported(p, t)',
           at'[t] = at[t], SamePlan(p), prev'[p][t] = prev[p][t], fd'[p][t] = fd[p][t],
           made'[p][t] = made[p][t], ns'[fd[p][t]].exists = ns[fd[p][t]].exists,
           t \in PutBackOnes(p)' => ns'[fd[p][t]].managed = prev[p][t], Laid(p, t)'
    PROVE  Whole(p, t)'
<1>1. SeenWhole(p, t) /\ prev[p][t] = SeenRecord(p, t) /\ Standing(p, t)
  BY StandingWhole
<1>2. sel'[p] = sel[p] /\ want'[p] = want[p] /\ seen'[p] = seen[p]
  BY DEF SamePlan
<1>3. SeenWhole(p, t)'
  BY <1>1, <1>2 DEF SeenWhole
<1>4. SeenRecord(p, t)' = SeenRecord(p, t)
  BY <1>2 DEF SeenRecord
<1>5. Standing(p, t)'
  BY <1>1, <1>2 DEF Standing, Rec
<1> QED
  BY <1>1, <1>3, <1>4, <1>5 DEF Whole, Gone

(* Only records are written.                                                *)
LEMMA QuietReturns ==
    ASSUME NEW p \in Applies, Returns(p), ~Ending(p), ~Ending(p)',
           pc[p] \notin {"install", "putback"}, pc'[p] \notin {"install", "putback"},
           at' = at, tree' = tree, SamePlan(p), prev' = prev, fd' = fd, made' = made,
           locked' = locked, bak' = bak, journal' = journal, parents' = parents,
           \A t \in locked[p] :
              /\ ns'[fd[p][t]].exists = ns[fd[p][t]].exists
              /\ t \in PutBackOnes(p)' => ns'[fd[p][t]].managed = prev[p][t]
    PROVE  journal'[p] \subseteq Ops(p)' /\ \A t \in locked'[p] : Whole(p, t)'
<1>1. ASSUME NEW t \in locked[p] PROVE Whole(p, t)'
  <2>1. ~Reported(p, t) /\ ~Reported(p, t)'
    BY DEF Ending, Reported
  <2>2. \A o : ~Half(p, o) /\ ~Half(p, o)'
    BY DEF Half
  <2>3. Laid(p, t)'
    BY <2>1, <2>2, StandingWhole, QuietLaid
  <2> QED
    BY <2>1, <2>3, StillWhole
<1> QED
  BY <1>1, SameOps DEF Returns

LEMMA LateFailure ==
    ASSUME IInv, NEW p \in Applies, Returns(p), Fail(p) PROVE pc'[p] = "undo"
BY DEF Returns, Late, Fail, Goto, IInv, TypeOK, TypeOfControl

LEMMA NothingPutBack ==
    ASSUME NEW p \in Applies, pc'[p] \in Promoting \cup {"drop", "undo", "putback"}
    PROVE  PutBackOnes(p)' = {} /\ ~Ending(p)'
BY DEF PutBackOnes, Promoting, Ending

LEMMA StagingReturns ==
    ASSUME IInv, NEW p \in Applies, Returns(p), Stage(p) \/ CleanStaging(p)
    PROVE  ReturnsStill(p)
<1> USE DEF IInv, TypeOK, TypeOfControl
<1>1. pc[p] \in {"stage", "clean"} /\ UNCHANGED <<disk, plan, handles, txn>>
  BY DEF Stage, CleanStaging
<1>2. pc'[p] \in {"promote", "publish", "undo"}
  BY LateFailure DEF Stage, CleanStaging, Goto
<1>3. PutBackOnes(p)' = {} /\ ~Ending(p)' /\ ~Ending(p)
  BY <1>1, <1>2, NothingPutBack DEF Promoting, Ending
<1>4. ~errs'[p]
  BY <1>1 DEF txn, Returns
<1> QED
  BY <1>1, <1>2, <1>3, <1>4, QuietReturns DEF ReturnsStill, disk, plan, handles, txn, SamePlan

LEMMA PublishReturns ==
    ASSUME IInv, NEW p \in Applies, Returns(p), Publish(p)
    PROVE  ReturnsStill(p)
<1> USE DEF IInv, TypeOK, TypeOfControl, TypeOfDisk
<1>1. pc[p] = "publish" /\ UNCHANGED <<at, alive, tree, plan, handles, txn>>
  BY DEF Publish
<1>2. pc'[p] \in {"publish", "drop", "undo"}
  BY LateFailure DEF Publish, Loop, Goto
<1>3. PutBackOnes(p)' = {} /\ ~Ending(p)' /\ ~Ending(p)
  BY <1>1, <1>2, NothingPutBack DEF Promoting, Ending
<1>4. ~errs'[p]
  BY <1>1 DEF txn, Returns
<1>5. \A i \in Inodes : ns'[i].exists = ns[i].exists
  <2>1. \E t \in Targets : ns' = ns \/ ns' = [ns EXCEPT ![fd[p][t]].managed = Published(p, t)]
    BY DEF Publish
  <2> QED
    BY <2>1 DEF Namespace
<1>6. \A t \in locked[p] : fd[p][t] \in Inodes
  BY DEF LocksHeld, LocksHeldBy, Holds
<1> QED
  BY <1>1, <1>2, <1>3, <1>4, <1>5, <1>6, QuietReturns DEF ReturnsStill, plan, handles, txn, SamePlan

LEMMA RestoreReturns ==
    ASSUME IInv, NEW p \in Applies, Returns(p), RestoreMetadata(p)
    PROVE  ReturnsStill(p)
<1> USE DEF IInv, TypeOK, TypeOfControl, TypeOfDisk, TypeOfHandles
<1>1. pc[p] = "restore" /\ plan' = plan /\ handles' = handles
      /\ UNCHANGED <<at, tree, prev, bak, journal, parents>>
  BY DEF RestoreMetadata, handles
<1>2. PICK t \in Targets :
         /\ First(p, t)
         /\ \/ ns' = [ns EXCEPT ![fd[p][t]].managed = prev[p][t]] /\ errs' = errs
            \/ errs'[p] /\ faults' = faults + 1
         /\ \/ left[p] = {t} /\ pc'[p] = "discard"
            \/ left'[p] = left[p] \ {t} /\ pc'[p] = "restore"
  <2>1. PICK t \in Targets :
           /\ First(p, t)
           /\ \/ ns' = [ns EXCEPT ![fd[p][t]].managed = prev[p][t]] /\ errs' = errs
              \/ errs' = [errs EXCEPT ![p] = TRUE] /\ faults' = faults + 1
           /\ Loop(p, t, "restore", "discard", locked[p])
    BY DEF RestoreMetadata, Fault, OldRecord
  <2>2. \/ left[p] = {t} /\ pc'[p] = "discard"
        \/ left'[p] = left[p] \ {t} /\ pc'[p] = "restore"
    BY <2>1 DEF Loop, Goto
  <2>3. errs' = [errs EXCEPT ![p] = TRUE] => errs'[p]
    BY DEF TypeOfTxn
  <2> QED
    BY <2>1, <2>2, <2>3
<1>3. CASE errs'[p] /\ faults' = faults + 1
  BY <1>3 DEF ReturnsStill
<1>4. CASE ~(errs'[p] /\ faults' = faults + 1)
  <2>1. ns' = [ns EXCEPT ![fd[p][t]].managed = prev[p][t]] /\ ~errs'[p]
    BY <1>2, <1>4 DEF Returns
  <2>2. \A u \in locked[p] : fd[p][u] \in Inodes /\ u \in Targets
    BY DEF LocksHeld, LocksHeldBy, Holds
  <2>3. \A u \in locked[p] : /\ ns'[fd[p][u]].exists = ns[fd[p][u]].exists
                             /\ u = t => ns'[fd[p][u]].managed = prev[p][t]
                             /\ u # t => ns'[fd[p][u]] = ns[fd[p][u]]
    BY <2>1, <2>2, ReconcilerAssumption DEF Namespace, InodesApart
  <2>4. ASSUME NEW u \in locked[p], u # t, u \in PutBackOnes(p)'
        PROVE  ns'[fd[p][u]].managed = prev[p][u]
    <3>1. u \in PutBackOnes(p) /\ ~Reported(p, u)
      BY <1>1, <1>2, <2>4 DEF PutBackOnes, Reported, handles
    <3> QED
      BY <2>3, <2>4, <3>1, StandingWhole DEF Standing, Rec
  <2>5. ~Ending(p) /\ ~Ending(p)' /\ SamePlan(p)
    BY <1>1, <1>2 DEF Ending, SamePlan, plan
  <2>6. journal'[p] \subseteq Ops(p)' /\ \A u \in locked'[p] : Whole(p, u)'
    BY <1>1, <1>2, <2>3, <2>4, <2>5, QuietReturns DEF handles
  <2> QED
    BY <2>1, <2>6 DEF ReturnsStill
<1> QED
  BY <1>3, <1>4

(* One operation writes at one place of the tree and of the backup.         *)
WritesOnly(p, o) ==
    /\ o = <<o[1], o[2]>> /\ o[1] \in locked[p]
    /\ tree' = tree \/ \E n : tree' = [tree EXCEPT ![fd[p][o[1]]][o[2]] = n]
    /\ bak' = bak \/ \E n : bak' = [bak EXCEPT ![p][o[1]][o[2]] = n]
LEMMA WritesAt ==
    ASSUME IInv, NEW p \in Applies, NEW o, WritesOnly(p, o)
    PROVE  \A t \in locked[p] : \A x \in Paths : <<t, x>> # o =>
              tree'[fd[p][t]][x] = tree[fd[p][t]][x] /\ bak'[p][t][x] = bak[p][t][x]
<1> USE DEF IInv, TypeOK, TypeOfDisk, TypeOfTxn, TypeOfHandles, WritesOnly
<1>1. SUFFICES ASSUME NEW t \in locked[p], NEW x \in Paths, <<t, x>> # o
               PROVE  tree'[fd[p][t]][x] = tree[fd[p][t]][x] /\ bak'[p][t][x] = bak[p][t][x]
  OBVIOUS
<1>2. t \in Targets /\ o[1] \in Targets /\ fd[p][t] \in Inodes /\ fd[p][o[1]] \in Inodes
  BY DEF LocksHeld, LocksHeldBy, Holds
<1>3. fd[p][t] = fd[p][o[1]] => t = o[1]
  BY <1>2, ReconcilerAssumption DEF InodesApart
<1>4. t # o[1] \/ x # o[2]
  BY <1>1
<1>5. tree'[fd[p][t]][x] = tree[fd[p][t]][x]
  <2>1. ASSUME NEW n, tree' = [tree EXCEPT ![fd[p][o[1]]][o[2]] = n]
        PROVE  tree'[fd[p][t]][x] = tree[fd[p][t]][x]
    <3>1. CASE fd[p][t] = fd[p][o[1]]
      BY <1>2, <1>3, <1>4, <2>1, <3>1
    <3>2. CASE fd[p][t] # fd[p][o[1]]
      BY <1>2, <2>1, <3>2
    <3> QED
      BY <3>1, <3>2
  <2> QED
    BY <2>1
<1>6. bak'[p][t][x] = bak[p][t][x]
  BY <1>2, <1>4
<1> QED
  BY <1>5, <1>6

(* A step of a transaction, or of its rollback, at one operation.           *)
LEMMA OneReturns ==
    ASSUME IInv, NEW p \in Applies, Returns(p), NEW o \in Ops(p), WritesOnly(p, o),
           ~Ending(p), pc'[p] \in Promoting \cup {"drop", "undo", "putback"},
           plan' = plan, handles' = handles, at' = at, ns' = ns, prev' = prev, parents' = parents,
           \A q : q # o => /\ q \in journal'[p] <=> q \in journal[p]
                           /\ ~Half(p, q) /\ ~Half(p, q)',
           ~IsDir(fd[p][o[1]], o[2]), InOrder(p, o)'
    PROVE  journal'[p] \subseteq Ops(p)' /\ \A t \in locked'[p] : Whole(p, t)'
<1>1. SamePlan(p) /\ fd' = fd /\ locked' = locked /\ made' = made
  BY DEF plan, handles, SamePlan
<1>2. \A t \in locked[p] : ~Reported(p, t) /\ Laid(p, t) /\ at[t] = fd[p][t]
  BY StandingWhole DEF Ending, Reported
<1>3. PutBackOnes(p)' = {} /\ ~Ending(p)'
  BY NothingPutBack
<1>4. \A t \in locked[p] : Laid(p, t)'
  <2>1. \A t \in locked[p] : \A x \in Paths : <<t, x>> # o =>
              tree'[fd[p][t]][x] = tree[fd[p][t]][x] /\ bak'[p][t][x] = bak[p][t][x]
    BY WritesAt
  <2>2. o[1] \in locked[p]
    BY DEF WritesOnly
  <2> QED
    BY <1>1, <1>2, <1>3, <2>1, <2>2, LaidButOne
<1>5. \A t \in locked[p] : ~Reported(p, t)'
  BY <1>3 DEF Ending, Reported
<1>6. \A t \in locked[p] : Whole(p, t)'
  BY <1>1, <1>2, <1>3, <1>4, <1>5, StillWhole
<1>7. journal'[p] \subseteq Ops(p)
  BY DEF Returns
<1> QED
  BY <1>1, <1>6, <1>7, SameOps

LEMMA MoveReturns ==
    ASSUME IInv, NEW p \in Applies, Trees(p), Returns(p), MoveAside(p)
    PROVE  ReturnsStill(p)
<1> USE DEF IInv, TypeOK, TypeOfControl
<1>1. /\ pc[p] = "move" /\ ~Ending(p) /\ plan' = plan /\ handles' = handles /\ at' = at /\ ns' = ns
      /\ prev' = prev /\ parents' = parents /\ errs' = errs
  BY DEF MoveAside, Ending
<1>2. PICK o \in Ops(p) :
         /\ NextOp(p, o)
         /\ PutAside(p, o) \/ (Fail(p) /\ UNCHANGED <<tree, bak, journal>>)
  BY DEF MoveAside
<1>3. /\ TreesFollow(p) /\ StepsFollow(p) /\ o[1] \in locked[p] /\ o[2] \in Artifacts
      /\ o[1] \in Targets /\ o[2] \in Paths /\ o = <<o[1], o[2]>> /\ o \notin journal[p]
      /\ fd[p][o[1]] \in Inodes /\ \A q : NextOp(p, q) => q = o
      /\ \A y \in Above[o[2]] : y # o[2]
  BY <1>1, <1>2, AtOperation
<1>4. \A q : ~Half(p, q)
  BY <1>1 DEF Half
<1>5. NotDone(p, o) /\ ~IsNew(p, o) /\ OldLink(p, o)
  <2>1. Laid(p, o[1])
    BY <1>1, <1>3, StandingWhole DEF Ending, Reported
  <2>2. InOrder(p, o)
    BY <1>3, <2>1 DEF Laid
  <2>3. NotDone(p, o)
    BY <1>3, <1>4, <2>2 DEF InOrder, HalfDone, Done
  <2>4. ~IsNew(p, o)
    BY <1>1, <1>2, <1>3, KindOf DEF StepsFollow, IsNew
  <2> QED
    BY <2>3, <2>4 DEF NotDone
<1>6. CASE Fail(p) /\ UNCHANGED <<tree, bak, journal>>
  <2>1. pc'[p] = "undo"
    BY <1>6, LateFailure
  <2>2. ~Ending(p)' /\ PutBackOnes(p)' = {}
    BY <2>1, NothingPutBack
  <2>3. journal'[p] \subseteq Ops(p)' /\ \A t \in locked'[p] : Whole(p, t)'
    BY <1>1, <1>6, <2>1, <2>2, QuietReturns DEF plan, handles, SamePlan
  <2> QED
    BY <1>1, <2>3 DEF ReturnsStill, Returns
<1>7. CASE PutAside(p, o)
  <2>1. /\ tree' = [tree EXCEPT ![fd[p][o[1]]][o[2]] = Hole]
        /\ bak' = [bak EXCEPT ![p][o[1]][o[2]] = tree[fd[p][o[1]]][o[2]]]
        /\ \/ Kind(p, o) = "REMOVE" /\ Journaled(p, o)
           \/ /\ Kind(p, o) = "REPLACE" /\ pc'[p] = "install" /\ journal' = journal
    BY <1>7 DEF PutAside, Goto
  <2>2. /\ tree'[fd[p][o[1]]][o[2]].kind = "absent"
        /\ bak'[p][o[1]][o[2]] = tree[fd[p][o[1]]][o[2]]
        /\ fd' = fd /\ want' = want /\ seen' = seen /\ SamePlan(p)
    BY <1>1, <1>3, <2>1 DEF TypeOfDisk, TypeOfTxn, Hole, plan, handles, SamePlan
  <2>3. Saved(p, o)'
    BY <1>5, <2>2 DEF Saved, OldLink, IsNew
  <2>4. ~IsDir(fd[p][o[1]], o[2])
    BY <1>5 DEF OldLink, IsDir
  <2>5. WayThere(p, o)'
    <3>1. Now(p, o[1])[o[2]] # NoSource
      BY <1>1, <1>3, <1>5 DEF Now, IsNew
    <3>2. \A y \in Above[o[2]] : IsDir(fd[p][o[1]], y)
      BY <1>3, <3>1 DEF TreesFollow, InPlace, Managed
    <3>3. \A y \in Above[o[2]] : y \in Paths => tree'[fd[p][o[1]]][y] = tree[fd[p][o[1]]][y]
      BY <1>3, <2>1 DEF TypeOfDisk
    <3>4. \A y \in Above[o[2]] : y \in Paths
      BY <1>3, PlannerAssumption
    <3> QED
      BY <2>2, <3>2, <3>3, <3>4 DEF WayThere, IsDir
  <2>6. WritesOnly(p, o)
    BY <1>3, <2>1 DEF WritesOnly
  <2>7. CASE Kind(p, o) = "REMOVE" /\ Journaled(p, o)
    <3>1. journal'[p] = journal[p] \cup {o}
      BY <2>7, JournalsIt
    <3>2. pc'[p] \in {"clean", "promote", "undo"}
      BY <2>7, LateFailure DEF Journaled, Goto
    <3>3. \A q : ~Half(p, q)'
      BY <3>2 DEF Half
    <3>4. want[p][o[1]][o[2]] = NoSource
      BY <2>7, KindOf
    <3>5. InOrder(p, o)'
      BY <2>2, <2>3, <2>5, <3>1, <3>3, <3>4 DEF InOrder, Done, Absent
    <3>6. journal'[p] \subseteq Ops(p)' /\ \A t \in locked'[p] : Whole(p, t)'
      BY <1>1, <1>3, <1>4, <2>4, <2>6, <3>1, <3>2, <3>3, <3>5, OneReturns DEF Promoting
    <3> QED
      BY <1>1, <3>6 DEF ReturnsStill, Returns
  <2>8. CASE pc'[p] = "install" /\ journal' = journal
    <3>1. \A q : Half(p, q)' <=> NextOp(p, q)
      BY <2>2, <2>8, SameHalves DEF Half
    <3>2. InOrder(p, o)'
      BY <1>2, <2>2, <2>3, <2>5, <3>1 DEF InOrder, HalfDone, Absent
    <3>3. \A q : q # o => ~Half(p, q)'
      BY <1>3, <3>1
    <3>4. journal'[p] \subseteq Ops(p)' /\ \A t \in locked'[p] : Whole(p, t)'
      BY <1>1, <1>3, <1>4, <2>4, <2>8, <2>6, <3>2, <3>3, OneReturns DEF Promoting
    <3> QED
      BY <1>1, <3>4 DEF ReturnsStill, Returns
  <2> QED
    BY <2>1, <2>7, <2>8
<1> QED
  BY <1>2, <1>6, <1>7

LEMMA OpenHalf ==
    ASSUME IInv, NEW p \in Applies, Returns(p), NEW o \in Ops(p), o[1] \in locked[p],
           o = <<o[1], o[2]>>, o[2] \in Paths, Half(p, o)
    PROVE  HalfDone(p, o) /\ ~Ending(p)
<1>1. ~Ending(p)
  BY DEF Half, Ending
<1>2. Laid(p, o[1])
  BY <1>1, StandingWhole DEF Ending, Reported
<1>3. InOrder(p, o)
  BY <1>2 DEF Laid
<1> QED
  BY <1>1, <1>3 DEF InOrder, NotDone, Done

(* A link moved aside is back where it was.                                 *)
LEMMA BackInPlace ==
    ASSUME IInv, NEW p \in Applies, NEW o \in Ops(p), o[1] \in Targets, o[2] \in Paths,
           fd[p][o[1]] \in Inodes, HalfDone(p, o),
           PutBack(p, o), SamePlan(p), fd' = fd, o \notin journal'[p], ~Half(p, o)'
    PROVE  InOrder(p, o)'
<1> USE DEF IInv, TypeOK, TypeOfDisk, TypeOfTxn
<1>1. seen'[p] = seen[p]
  BY DEF SamePlan
<1>2. CASE IsNew(p, o)
  <2>1. bak[p][o[1]][o[2]].kind = "absent"
    BY <1>2 DEF HalfDone, Saved
  <2>2. tree' = tree /\ bak' = bak
    BY <2>1 DEF PutBack
  <2> QED
    BY <1>1, <1>2, <2>1, <2>2 DEF InOrder, NotDone, IsNew, HalfDone, Absent
<1>3. CASE ~IsNew(p, o)
  <2>1. /\ bak[p][o[1]][o[2]].kind = "link"
        /\ bak[p][o[1]][o[2]].to = seen[p][o[1]].entries[o[2]]
    BY <1>3 DEF HalfDone, Saved
  <2>2. /\ tree' = [tree EXCEPT ![fd[p][o[1]]][o[2]] = bak[p][o[1]][o[2]]]
        /\ bak' = [bak EXCEPT ![p][o[1]][o[2]] = Hole]
    BY <2>1 DEF PutBack, HalfDone
  <2>3. /\ tree'[fd[p][o[1]]][o[2]] = bak[p][o[1]][o[2]]
        /\ bak'[p][o[1]][o[2]].kind = "absent"
    BY <2>2 DEF Hole
  <2> QED
    BY <1>1, <1>3, <2>1, <2>3 DEF InOrder, NotDone, IsNew, OldLink
<1> QED
  BY <1>2, <1>3

LEMMA InstallReturns ==
    ASSUME IInv, NoGaps, NEW p \in Applies, Trees(p), Returns(p), Install(p)
    PROVE  ReturnsStill(p)
<1> USE DEF IInv, TypeOK, TypeOfControl
<1>1. /\ pc[p] = "install" /\ plan' = plan /\ handles' = handles /\ at' = at /\ ns' = ns
      /\ prev' = prev /\ parents' = parents /\ errs' = errs
  BY DEF Install
<1>2. PICK o \in Ops(p) :
         /\ NextOp(p, o)
         /\ \/ /\ tree' = [tree EXCEPT ![fd[p][o[1]]][o[2]] = StagedLink(p, o)]
               /\ bak' = bak /\ Journaled(p, o)
            \/ PutBack(p, o) /\ Fail(p) /\ journal' = journal
  BY DEF Install, PutLink, PutNoLink, NoGaps, Fault
<1>3. /\ StepsFollow(p) /\ o[1] \in locked[p] /\ o[2] \in Artifacts
      /\ o[1] \in Targets /\ o[2] \in Paths /\ o = <<o[1], o[2]>> /\ o \notin journal[p]
      /\ fd[p][o[1]] \in Inodes /\ \A q : NextOp(p, q) <=> q = o
      /\ \A y \in Above[o[2]] : y \in Paths /\ y # o[2]
  BY <1>1, <1>2, AtOperation
<1>4. \A q : Half(p, q) <=> q = o
  BY <1>1, <1>3 DEF Half
<1>5. HalfDone(p, o) /\ ~Ending(p)
  BY <1>3, <1>4, OpenHalf
<1>6. ~IsDir(fd[p][o[1]], o[2])
  BY <1>5 DEF HalfDone, Absent, IsDir
<1>7. SamePlan(p) /\ fd' = fd
  BY <1>1 DEF plan, handles, SamePlan
<1>8. CASE /\ tree' = [tree EXCEPT ![fd[p][o[1]]][o[2]] = StagedLink(p, o)]
           /\ bak' = bak /\ Journaled(p, o)
  <2>1. journal'[p] = journal[p] \cup {o} /\ pc'[p] \in {"clean", "promote", "undo"}
    BY <1>8, JournalsIt, LateFailure DEF Journaled, Goto
  <2>2. \A q : ~Half(p, q)'
    BY <2>1 DEF Half
  <2>3. WritesOnly(p, o)
    BY <1>3, <1>8 DEF WritesOnly
  <2>4. want[p][o[1]][o[2]] # NoSource
    BY <1>1, <1>2 DEF StepsFollow, Trees, Transaction, Active, Promoting
  <2>5. tree'[fd[p][o[1]]][o[2]] = StagedLink(p, o)
    BY <1>3, <1>8 DEF TypeOfDisk
  <2>6. \A y \in Above[o[2]] : tree'[fd[p][o[1]]][y] = tree[fd[p][o[1]]][y]
    BY <1>3, <1>8 DEF TypeOfDisk
  <2>7. Saved(p, o)' /\ WayThere(p, o)' /\ StagedLink(p, o)' = StagedLink(p, o)
    BY <1>5, <1>7, <1>8, <2>6 DEF HalfDone, Saved, IsNew, WayThere, IsDir, StagedLink, SamePlan
  <2>8. InOrder(p, o)'
    BY <1>7, <2>1, <2>2, <2>4, <2>5, <2>7 DEF InOrder, Done, SamePlan
  <2>9. journal'[p] \subseteq Ops(p)' /\ \A t \in locked'[p] : Whole(p, t)'
    BY <1>1, <1>3, <1>4, <1>5, <1>6, <2>1, <2>2, <2>3, <2>8, OneReturns DEF Promoting
  <2> QED
    BY <1>1, <2>9 DEF ReturnsStill, Returns
<1>9. CASE PutBack(p, o) /\ Fail(p) /\ journal' = journal
  <2>1. pc'[p] = "undo"
    BY <1>9, LateFailure
  <2>2. \A q : ~Half(p, q)'
    BY <2>1 DEF Half
  <2>3. WritesOnly(p, o)
    BY <1>3, <1>9 DEF WritesOnly, PutBack
  <2>4. InOrder(p, o)'
    BY <1>3, <1>5, <1>7, <1>9, <2>2, BackInPlace
  <2>5. journal'[p] \subseteq Ops(p)' /\ \A t \in locked'[p] : Whole(p, t)'
    BY <1>1, <1>3, <1>4, <1>5, <1>6, <1>9, <2>1, <2>2, <2>3, <2>4, OneReturns
  <2> QED
    BY <1>1, <2>5 DEF ReturnsStill, Returns
<1> QED
  BY <1>2, <1>8, <1>9

LEMMA UndoReturns ==
    ASSUME IInv, NEW p \in Applies, Returns(p), Undo(p)
    PROVE  ReturnsStill(p)
<1> USE DEF IInv, TypeOK, TypeOfControl
<1>1. /\ pc[p] = "undo" /\ plan' = plan /\ handles' = handles /\ at' = at /\ ns' = ns
      /\ prev' = prev /\ parents' = parents /\ bak' = bak /\ left' = left /\ ~Ending(p)
  BY DEF Undo, Ending
<1>2. SamePlan(p) /\ fd' = fd /\ locked' = locked
  BY <1>1 DEF plan, handles, SamePlan
<1>3. \A q : ~Half(p, q)
  BY <1>1 DEF Half
<1>4. CASE journal[p] = {}
  <2>1. /\ tree' = tree /\ journal' = journal /\ errs' = errs
        /\ pc'[p] = IF locked[p] = {} THEN "release" ELSE "restore"
    BY <1>4 DEF Undo, Goto
  <2>2. CASE locked[p] = {}
    BY <1>2, <1>4, <2>1, <2>2 DEF ReturnsStill, Returns
  <2>3. CASE locked[p] # {}
    <3>1. left[p] = locked[p]
      BY <1>1 DEF TargetsTracked, Tracked, Turning
    <3>2. PutBackOnes(p)' = {} /\ ~Ending(p)' /\ pc'[p] = "restore"
      BY <1>1, <1>2, <2>1, <2>3, <3>1 DEF PutBackOnes, Ending
    <3>3. journal'[p] \subseteq Ops(p)' /\ \A t \in locked'[p] : Whole(p, t)'
      BY <1>1, <1>2, <2>1, <3>2, QuietReturns DEF handles
    <3> QED
      BY <2>1, <3>3 DEF ReturnsStill, Returns
  <2> QED
    BY <2>2, <2>3
<1>5. CASE journal[p] # {}
  <2> DEFINE Installed(o) == Kind(p, o) # "REMOVE" /\ tree[fd[p][o[1]]][o[2]].kind # "absent"
             Undoable(o) == /\ \A y \in Above[o[2]] : IsDir(fd[p][o[1]], y)
                            /\ Installed(o) => OwnLink(p, o, tree[fd[p][o[1]]][o[2]])
  <2>1. PICK o \in journal[p] :
           /\ LastOp(p, o)
           /\ \/ /\ Undoable(o)
                 /\ tree' = [tree EXCEPT ![fd[p][o[1]]][o[2]] = IF Installed(o) THEN Hole ELSE @]
                 /\ Goto(p, "putback") /\ journal' = journal /\ errs' = errs
              \/ /\ IF Undoable(o) THEN Fault("undo") ELSE UNCHANGED faults
                 /\ errs' = [errs EXCEPT ![p] = TRUE]
    BY <1>5 DEF Undo
  <2>2. o \in Ops(p)
    BY DEF Returns
  <2>3. /\ o \in Operations /\ o = <<o[1], o[2]>>
        /\ o[1] \in locked[p] /\ o[1] \in Targets /\ o[2] \in Artifacts /\ o[2] \in Paths
        /\ fd[p][o[1]] \in Inodes /\ \A y \in Above[o[2]] : y \in Paths /\ y # o[2]
    BY <1>1, UndonePlace
  <2>4. Done(p, o)
    <3>1. Laid(p, o[1])
      BY <1>1, <2>3, StandingWhole DEF Ending, Reported
    <3>2. InOrder(p, o)
      BY <2>2, <2>3, <3>1 DEF Laid
    <3> QED
      BY <1>3, <3>2 DEF InOrder, HalfDone, NotDone
  <2>5. /\ Undoable(o) /\ (Installed(o) <=> ~Absent(fd[p][o[1]], o[2]))
        /\ ~IsDir(fd[p][o[1]], o[2])
    <3>1. CASE want[p][o[1]][o[2]] = NoSource
      BY <2>2, <2>4, <3>1, KindOf DEF Done, WayThere, Absent, IsDir
    <3>2. CASE want[p][o[1]][o[2]] # NoSource
      <4>1. tree[fd[p][o[1]]][o[2]] = StagedLink(p, o)
        BY <2>4, <3>2 DEF Done
      <4>2. OwnLink(p, o, tree[fd[p][o[1]]][o[2]]) /\ tree[fd[p][o[1]]][o[2]].kind = "link"
        BY <4>1 DEF StagedLink, OwnLink
      <4>3. Kind(p, o) # "REMOVE"
        BY <2>2, <3>2, KindOf
      <4>4. \A y \in Above[o[2]] : IsDir(fd[p][o[1]], y)
        BY <2>4 DEF Done, WayThere
      <4> QED
        BY <4>2, <4>3, <4>4 DEF Absent, IsDir
    <3> QED
      BY <3>1, <3>2
  <2>6. CASE Fault("undo") /\ errs' = [errs EXCEPT ![p] = TRUE]
    BY <2>6 DEF ReturnsStill, Fault, TypeOfTxn
  <2>7. CASE /\ tree' = [tree EXCEPT ![fd[p][o[1]]][o[2]] = IF Installed(o) THEN Hole ELSE @]
             /\ Goto(p, "putback") /\ journal' = journal /\ errs' = errs
    <3>1. pc'[p] = "putback"
      BY <2>7 DEF Goto
    <3>2. \A q : Half(p, q)' <=> LastOp(p, q)
      BY <1>2, <2>7, <3>1, SameHalves DEF Half
    <3>3. \A q : q # o => ~Half(p, q)'
      BY <2>1, <3>2, LastUnique
    <3>4. WritesOnly(p, o)
      BY <1>1, <2>3, <2>7 DEF WritesOnly
    <3>5. tree'[fd[p][o[1]]][o[2]].kind = "absent"
      BY <2>3, <2>5, <2>7 DEF TypeOfDisk, Hole, Absent
    <3>6. \A y \in Above[o[2]] : tree'[fd[p][o[1]]][y] = tree[fd[p][o[1]]][y]
      BY <2>3, <2>7 DEF TypeOfDisk
    <3>7. Saved(p, o)' /\ WayThere(p, o)'
      BY <1>1, <1>2, <2>4, <3>6 DEF Done, Saved, IsNew, WayThere, IsDir, SamePlan
    <3>8. InOrder(p, o)'
      BY <1>2, <2>1, <3>2, <3>5, <3>7 DEF InOrder, HalfDone, Absent
    <3>9. journal'[p] \subseteq Ops(p)' /\ \A t \in locked'[p] : Whole(p, t)'
      BY <1>1, <1>3, <2>2, <2>5, <2>7, <3>1, <3>3, <3>4, <3>8, OneReturns
    <3> QED
      BY <2>7, <3>9 DEF ReturnsStill, Returns
  <2> HIDE DEF Installed, Undoable
  <2> QED
    BY <2>1, <2>5, <2>6, <2>7
<1> QED
  BY <1>4, <1>5

LEMMA PutBackReturns ==
    ASSUME IInv, NEW p \in Applies, Returns(p), PutBackup(p)
    PROVE  ReturnsStill(p)
<1> USE DEF IInv, TypeOK, TypeOfControl
<1>1. /\ pc[p] = "putback" /\ plan' = plan /\ handles' = handles /\ at' = at /\ ns' = ns
      /\ prev' = prev /\ parents' = parents /\ pc'[p] = "undo"
  BY DEF PutBackup, Goto
<1>2. PICK o \in journal[p] :
         /\ LastOp(p, o)
         /\ \/ PutBack(p, o) /\ errs' = errs /\ journal' = [journal EXCEPT ![p] = @ \ {o}]
            \/ /\ bak[p][o[1]][o[2]].kind # "absent"
               /\ IF ~Absent(fd[p][o[1]], o[2]) THEN UNCHANGED faults ELSE Fault("putback")
               /\ errs' = [errs EXCEPT ![p] = TRUE]
  BY DEF PutBackup
<1>3. o \in Ops(p)
  BY DEF Returns
<1>4. /\ o = <<o[1], o[2]>> /\ o[1] \in locked[p] /\ o[1] \in Targets /\ o[2] \in Paths
      /\ fd[p][o[1]] \in Inodes
  BY <1>1, UndonePlace
<1>5. \A q : Half(p, q) <=> q = o
  BY <1>1, <1>2, LastUnique DEF Half
<1>6. HalfDone(p, o) /\ ~Ending(p)
  BY <1>3, <1>4, <1>5, OpenHalf
<1>7. CASE Fault("putback") /\ errs' = [errs EXCEPT ![p] = TRUE]
  BY <1>7 DEF ReturnsStill, Fault, TypeOfTxn
<1>8. CASE PutBack(p, o) /\ errs' = errs /\ journal' = [journal EXCEPT ![p] = @ \ {o}]
  <2>1. \A q : ~Half(p, q)'
    BY <1>1 DEF Half
  <2>2. SamePlan(p) /\ fd' = fd /\ journal'[p] = journal[p] \ {o}
    BY <1>1, <1>8 DEF plan, handles, SamePlan, TypeOfTxn
  <2>3. InOrder(p, o)'
    BY <1>3, <1>4, <1>6, <1>8, <2>1, <2>2, BackInPlace
  <2>4. WritesOnly(p, o)
    BY <1>4, <1>8 DEF WritesOnly, PutBack
  <2>5. ~IsDir(fd[p][o[1]], o[2])
    BY <1>6 DEF HalfDone, Absent, IsDir
  <2>6. journal'[p] \subseteq Ops(p)' /\ \A t \in locked'[p] : Whole(p, t)'
    BY <1>1, <1>3, <1>5, <1>6, <2>1, <2>2, <2>3, <2>4, <2>5, OneReturns
  <2> QED
    BY <1>8, <2>6 DEF ReturnsStill, Returns
<1>9. Absent(fd[p][o[1]], o[2])
  BY <1>6 DEF HalfDone
<1> QED
  BY <1>2, <1>7, <1>8, <1>9

(* Directories made on the way take no place that was taken.                *)
LEMMA PromoteReturns ==
    ASSUME IInv, AllNoted, NEW p \in Applies, Trees(p), Returns(p), Promote(p)
    PROVE  ReturnsStill(p)
<1> USE DEF IInv, TypeOK, TypeOfControl
<1>1. /\ pc[p] = "promote" /\ plan' = plan /\ handles' = handles /\ at' = at /\ ns' = ns
      /\ prev' = prev /\ bak' = bak /\ journal' = journal /\ errs' = errs /\ ~Ending(p)
  BY DEF Promote, Ending
<1>2. SamePlan(p) /\ fd' = fd /\ locked' = locked /\ made' = made
  BY <1>1 DEF plan, handles, SamePlan
<1>3. PICK o \in Ops(p) :
         /\ NextOp(p, o)
         /\ \/ Fail(p) /\ UNCHANGED <<tree, parents>>
            \/ /\ WayFree(p, o)
               /\ \E dirs, noted :
                     /\ MakesOnly(p, o, dirs, noted)
                     /\ Fail(p) \/ (dirs = Parents(p, o) /\ GoesOn(p, o))
  BY PromoteMakes
<1>4. CASE Fail(p) /\ UNCHANGED <<tree, parents>>
  <2>1. pc'[p] = "undo" /\ ~Ending(p)' /\ PutBackOnes(p)' = {}
    BY <1>4, LateFailure, NothingPutBack
  <2>2. journal'[p] \subseteq Ops(p)' /\ \A t \in locked'[p] : Whole(p, t)'
    BY <1>1, <1>2, <1>4, <2>1, QuietReturns
  <2> QED
    BY <1>1, <2>2 DEF ReturnsStill, Returns
<1>5. ASSUME WayFree(p, o), NEW dirs, NEW noted, MakesOnly(p, o, dirs, noted),
             Fail(p) \/ (dirs = Parents(p, o) /\ GoesOn(p, o))
      PROVE  ReturnsStill(p)
  <2>0. MakesParents(p, o, dirs, dirs) /\ dirs \subseteq Parents(p, o)
    BY <1>5 DEF MakesOnly, AllNoted
  <2>1. /\ o[1] \in locked[p] /\ o[2] \in Artifacts /\ o[1] \in Targets /\ o[2] \in Paths
        /\ o = <<o[1], o[2]>> /\ o \notin journal[p] /\ fd[p][o[1]] \in Inodes
        /\ \A q : NextOp(p, q) <=> q = o
        /\ \A t \in locked[p] : /\ t \in Targets /\ fd[p][t] \in Inodes
                                /\ fd[p][t] = fd[p][o[1]] => t = o[1]
        /\ \A y \in Above[o[2]] : y \in Paths /\ y # o[2]
    BY <1>1, <1>3, AtOperation
  <2>2. pc'[p] \in {"undo", "install", "move"} /\ ~Ending(p)' /\ PutBackOnes(p)' = {}
    <3>1. pc'[p] \in {"undo", "install", "move"}
      BY <1>1, <1>5, LateFailure DEF GoesOn, Goto
    <3> QED
      BY <3>1, NothingPutBack DEF Promoting
  <2> DEFINE New(t, x) == t = o[1] /\ x \in dirs
             made_ == [kind |-> "dir", to |-> NoSource, by |-> p]
  <2>3. \A x \in dirs : /\ x \in Above[o[2]] /\ x \in Paths
                        /\ Absent(fd[p][o[1]], x) /\ <<o[1], x>> \notin Ops(p)
    <3>1. ASSUME NEW x \in Parents(p, o), <<o[1], x>> \in Ops(p) PROVE Moves(p)
      BY <3>1 DEF Moves, Parents
    <3> QED
      BY <2>0, <2>1, <3>1 DEF Parents, Returns
  <2>4. \A t \in locked[p] : \A x \in Paths :
           tree'[fd[p][t]][x] = IF New(t, x) THEN made_ ELSE tree[fd[p][t]][x]
    BY <2>0, <2>1 DEF MakesParents, TypeOfDisk
  <2>5. \A t, x : <<t, x>> \in parents'[p] <=> <<t, x>> \in parents[p] \/ New(t, x)
    BY <2>0 DEF MakesParents, TypeOfTxn
  <2> HIDE DEF New, made_
  <2>6. made_.kind = "dir"
    BY DEF made_
  <2>7. \A q : /\ ~Half(p, q)
               /\ Half(p, q)' <=> pc'[p] = "install" /\ q = o
    BY <1>1, <1>2, <2>1, <2>2, SameHalves DEF Half
  <2>8. \A t \in locked[p] : \A x \in Paths : <<t, x>> \in Ops(p) \/ tree[fd[p][t]][x].kind = "dir" => ~New(t, x)
    BY <2>3 DEF New, Absent
  <2>9. \A t \in locked[p] : \A x \in Paths : \A y \in Above[x] :
           y \in Paths /\ (IsDir(fd[p][t], y) => tree'[fd[p][t]][y].kind = "dir")
    BY <2>4, <2>6, PlannerAssumption DEF IsDir
  <2>10. \A t \in locked[p] : /\ Laid(p, t) /\ SeenWhole(p, t) /\ at[t] = fd[p][t]
                              /\ ~Reported(p, t) /\ ~Reported(p, t)'
    BY <1>1, <2>2, StandingWhole DEF Ending, Reported
  <2>11. ASSUME NEW t \in locked[p], NEW x \in Paths, <<t, x>> \in Ops(p), ~Half(p, <<t, x>>)'
         PROVE  InOrder(p, <<t, x>>)'
    <3>1. InOrder(p, <<t, x>>) /\ tree'[fd[p][t]][x] = tree[fd[p][t]][x]
      BY <2>4, <2>8, <2>10, <2>11 DEF Laid
    <3>2. \A y \in Above[x] : IsDir(fd[p][t], y) => tree'[fd[p][t]][y].kind = "dir"
      BY <2>9
    <3> QED
      BY <1>1, <1>2, <2>7, <2>11, <3>1, <3>2, EntryKept
  <2>12. ASSUME pc'[p] = "install" PROVE InOrder(p, o)'
    <3>0. dirs = Parents(p, o) /\ GoesOn(p, o)
      BY <1>5, <2>12, LateFailure
    <3>1. AsPlanned(p, o) /\ Kind(p, o) = "CREATE"
      BY <2>12, <3>0 DEF GoesOn, Goto
    <3>2. IsNew(p, o) /\ Absent(fd[p][o[1]], o[2])
      BY <3>1, KindOf DEF IsNew, AsPlanned, Absent
    <3>3. InOrder(p, o)
      BY <2>1, <2>10 DEF Laid
    <3>4. bak[p][o[1]][o[2]].kind = "absent"
      BY <2>1, <2>7, <3>3 DEF InOrder, HalfDone, Done, NotDone
    <3>5. Saved(p, o)'
      BY <1>1, <1>2, <3>2, <3>4 DEF Saved, IsNew, SamePlan
    <3>6. Absent(fd[p][o[1]], o[2])'
      BY <1>2, <2>1, <2>4, <2>8, <3>2 DEF Absent
    <3>7. WayThere(p, o)'
      <4>1. ASSUME NEW y \in Above[o[2]] PROVE tree'[fd[p][o[1]]][y].kind = "dir"
        <5>1. y \in Paths /\ (IsDir(fd[p][o[1]], y) \/ New(o[1], y))
          BY <1>5, <2>1, <3>0 DEF New, WayFree, Parents, Absent, IsDir
        <5> QED
          BY <2>1, <2>4, <2>6, <2>9, <5>1
      <4> QED
        BY <1>2, <4>1 DEF WayThere, IsDir
    <3> QED
      BY <2>7, <2>12, <3>5, <3>6, <3>7 DEF InOrder, HalfDone
  <2>13. ASSUME NEW t \in locked[p], NEW x \in Paths, <<t, x>> \notin Ops(p), New(t, x)
         PROVE  Beside(p, <<t, x>>)'
    <3>1. t = o[1] /\ Absent(fd[p][t], x)
      BY <2>3, <2>13 DEF New
    <3>2. Beside(p, <<t, x>>)
      BY <2>10, <2>13 DEF Laid
    <3>3. x \notin Managed(seen[p][t].entries) /\ seen[p][t].unmanaged[x].kind = "absent"
      BY <1>1, <3>1, <3>2 DEF Beside, OldLink, Absent
    <3>4. seen[p][t].unmanaged[x] = Nothing
      BY <2>10, <3>3 DEF SeenWhole
    <3>5. tree'[fd[p][t]][x].kind = "dir" /\ <<t, x>> \in parents'[p]
      BY <2>4, <2>5, <2>6, <2>13
    <3> QED
      BY <1>2, <2>2, <3>3, <3>4, <3>5 DEF Beside, SamePlan, Ending
  <2>14. ASSUME NEW t \in locked[p], NEW x \in Paths, <<t, x>> \notin Ops(p), ~New(t, x)
         PROVE  Beside(p, <<t, x>>)'
    <3>1. Beside(p, <<t, x>>) /\ tree'[fd[p][t]][x] = tree[fd[p][t]][x]
      BY <2>4, <2>10, <2>14 DEF Laid
    <3>2. <<t, x>> \in parents'[p] <=> <<t, x>> \in parents[p]
      BY <2>5, <2>14
    <3> QED
      BY <1>1, <1>2, <2>2, <3>1, <3>2, BesideKept
  <2>15. \A t \in locked[p] : Laid(p, t)'
    <3>1. ASSUME NEW t \in locked[p], NEW x \in Paths
          PROVE  IF <<t, x>> \in Ops(p) THEN InOrder(p, <<t, x>>)' ELSE Beside(p, <<t, x>>)'
      <4>1. CASE Half(p, <<t, x>>)'
        <5>1. pc'[p] = "install" /\ <<t, x>> = o
          BY <2>7, <4>1
        <5> QED
          BY <2>12, <5>1
      <4>2. CASE ~Half(p, <<t, x>>)'
        BY <2>11, <2>13, <2>14, <4>2
      <4> QED
        BY <4>1, <4>2
    <3> QED
      BY <1>2, <3>1, SameOps DEF Laid
  <2>16. \A t \in locked[p] : Whole(p, t)'
    BY <1>1, <1>2, <2>2, <2>10, <2>15, StillWhole
  <2> QED
    BY <1>1, <1>2, <2>16, SameOps DEF ReturnsStill, Returns
<1> QED
  BY <1>3, <1>4, <1>5
(* Every operation is undone when the backups go.                           *)
LEMMA AllUndone ==
    ASSUME NEW p \in Applies, journal[p] = {}, pc[p] \notin {"install", "putback"}, NEW t, Laid(p, t)
    PROVE  \A x \in Paths : <<t, x>> \in Ops(p) => NotDone(p, <<t, x>>)
BY DEF Laid, InOrder, HalfDone, Done, Half

LEMMA DiscardReturns ==
    ASSUME IInv, NEW p \in Applies, JournalDone(p), Returns(p), Discard(p)
    PROVE  ReturnsStill(p)
<1> USE DEF IInv, TypeOK, TypeOfControl
<1>1. /\ pc[p] = "discard" /\ UNCHANGED <<disk, plan, handles>>
      /\ prev' = prev /\ journal' = journal /\ parents' = parents /\ journal[p] = {}
  BY DEF Discard, JournalDone
<1>2. PICK t \in Targets :
         /\ \/ bak' = [bak EXCEPT ![p][t] = EmptyTree] /\ errs' = errs
            \/ errs'[p] /\ faults' = faults + 1
         /\ pc'[p] \in {"discard", "prune"}
  <2>1. PICK t \in Targets :
           /\ \/ bak' = (IF BackupsDropped(p) THEN [bak EXCEPT ![p][t] = EmptyTree] ELSE bak) /\ errs' = errs
              \/ errs' = [errs EXCEPT ![p] = TRUE] /\ faults' = faults + 1
           /\ Loop(p, t, "discard", "prune", locked[p])
    BY DEF Discard, Fault
  <2>2. pc'[p] \in {"discard", "prune"}
    BY <2>1 DEF Loop, Goto
  <2>3. errs' = [errs EXCEPT ![p] = TRUE] => errs'[p]
    BY DEF TypeOfTxn
  <2> QED
    BY <2>1, <2>2, <2>3 DEF BackupsDropped, Returns
<1>3. CASE errs'[p] /\ faults' = faults + 1
  BY <1>3 DEF ReturnsStill
<1>4. CASE bak' = [bak EXCEPT ![p][t] = EmptyTree] /\ errs' = errs
  <2>1. /\ SamePlan(p) /\ fd' = fd /\ locked' = locked /\ made' = made
        /\ at' = at /\ tree' = tree /\ ns' = ns
    BY <1>1 DEF disk, plan, handles, SamePlan
  <2>2. ~Ending(p) /\ ~Ending(p)' /\ \A o : ~Half(p, o) /\ ~Half(p, o)'
    BY <1>1, <1>2 DEF Ending, Half
  <2>3. ASSUME NEW u \in locked[p], NEW x \in Paths, bak[p][u][x].kind = "absent"
        PROVE  bak'[p][u][x].kind = "absent"
    BY <1>4, <2>3 DEF TypeOfTxn, TypeOfHandles, EmptyTree, Hole
  <2>4. ASSUME NEW u \in locked[p] PROVE Whole(p, u)'
    <3>1. ~Reported(p, u) /\ ~Reported(p, u)'
      BY <2>2 DEF Ending, Reported
    <3>2. Standing(p, u) /\ Laid(p, u) /\ at[u] = fd[p][u]
      BY <3>1, StandingWhole
    <3>3. ASSUME NEW x \in Paths, <<u, x>> \in Ops(p) PROVE InOrder(p, <<u, x>>)'
      <4>1. NotDone(p, <<u, x>>)
        BY <1>1, <3>2, <3>3, AllUndone
      <4>2. NotDone(p, <<u, x>>)'
        BY <1>1, <2>1, <2>2, <2>3, <4>1 DEF NotDone, IsNew, OldLink, Absent, SamePlan
      <4> QED
        BY <4>2 DEF InOrder
    <3>4. ASSUME NEW x \in Paths, <<u, x>> \notin Ops(p) PROVE Beside(p, <<u, x>>)'
      BY <1>1, <2>1, <2>2, <3>2, <3>4, BesideKept DEF Laid
    <3>5. Laid(p, u)'
      BY <2>1, <3>3, <3>4, SameOps DEF Laid
    <3>6. u \in PutBackOnes(p)
      BY <1>1 DEF PutBackOnes
    <3> QED
      BY <1>1, <2>1, <3>1, <3>2, <3>5, <3>6, StillWhole DEF Standing, Rec
  <2> QED
    BY <1>1, <1>4, <2>1, <2>4 DEF ReturnsStill, Returns
<1> QED
  BY <1>2, <1>3, <1>4
(* What a run made is empty when its links are gone, and goes as well: the  *)
(* plan saw nothing there, so nothing below it either.                      *)
LEMMA MadeIsEmpty ==
    ASSUME IInv, NEW p \in Applies, OwnParents(p), JournalDone(p), Returns(p), pc[p] = "prune",
           NEW t \in locked[p], NEW x \in Paths, <<t, x>> \in parents[p]
    PROVE  Prunable(p, t, x) /\ <<t, x>> \notin Ops(p)
           /\ x \notin Managed(seen[p][t].entries) /\ seen[p][t].unmanaged[x] = Nothing
<1> USE DEF IInv, TypeOK
<1>1. /\ Laid(p, t) /\ SeenWhole(p, t) /\ ~Ending(p) /\ t \in Targets
      /\ \A z \in Paths : <<t, z>> \in Ops(p) => NotDone(p, <<t, z>>)
  <2>1. ~Ending(p) /\ ~Reported(p, t) /\ t \in Targets /\ journal[p] = {}
    BY DEF Ending, Reported, TypeOfHandles, JournalDone
  <2>2. Laid(p, t) /\ SeenWhole(p, t)
    BY <2>1, StandingWhole
  <2> QED
    BY <2>1, <2>2, AllUndone
<1>2. tree[fd[p][t]][x].kind = "dir"
  BY <1>1 DEF OwnParents
<1>3. <<t, x>> \notin Ops(p)
  BY <1>1, <1>2 DEF NotDone, Absent, OldLink
<1>4. Beside(p, <<t, x>>)
  BY <1>1, <1>3 DEF Laid
<1>5. x \notin Managed(seen[p][t].entries) /\ seen[p][t].unmanaged[x] = Nothing
  BY <1>1, <1>2, <1>4 DEF Beside, OldLink, Ending
<1>6. ASSUME NEW y \in Paths, x \in Above[y], ~Absent(fd[p][t], y) PROVE CreatedDir(p, t, y)
  <2>1. y \notin Managed(seen[p][t].entries) /\ seen[p][t].unmanaged[y].kind = "absent"
    BY <1>1, <1>5, <1>6 DEF SeenWhole, Nothing
  <2>2. <<t, y>> \notin Ops(p)
    <3>1. ASSUME <<t, y>> \in Ops(p) PROVE FALSE
      <4>1. y \in Artifacts
        BY <3>1 DEF Ops
      <4>2. IsNew(p, <<t, y>>)
        BY <2>1, <4>1 DEF IsNew, Managed
      <4> QED
        BY <1>1, <1>6, <3>1, <4>2 DEF NotDone
    <3> QED
      BY <3>1
  <2>3. Beside(p, <<t, y>>)
    BY <1>1, <2>2 DEF Laid
  <2> QED
    BY <1>1, <1>6, <2>1, <2>3 DEF Beside, Absent, CreatedDir, IsDir
<1> QED
  BY <1>2, <1>3, <1>5, <1>6 DEF Prunable, CreatedDir, IsDir

LEMMA PruneReturns ==
    ASSUME IInv, NEW p \in Applies, OwnParents(p), JournalDone(p), Returns(p), Prune(p)
    PROVE  ReturnsStill(p)
<1> USE DEF IInv, TypeOK, TypeOfControl
<1>1. /\ pc[p] = "prune" /\ pc'[p] = "report" /\ UNCHANGED <<at, ns, left, plan, handles>>
      /\ prev' = prev /\ bak' = bak /\ journal' = journal /\ parents' = parents
      /\ journal[p] = {} /\ left[p] = locked[p]
  BY DEF Prune, Goto, JournalDone, TargetsTracked, Tracked, Turning
<1>2. /\ SamePlan(p) /\ fd' = fd /\ locked' = locked /\ made' = made
      /\ \A o : ~Half(p, o) /\ ~Half(p, o)'
  BY <1>1 DEF plan, handles, SamePlan, Half
<1>3. ASSUME NEW e \in parents[p]
      PROVE  e = <<e[1], e[2]>> /\ e[1] \in locked[p] /\ e[2] \in Paths /\ Prunable(p, e[1], e[2])
  <2>1. e = <<e[1], e[2]>> /\ e[1] \in Targets /\ e[2] \in Paths
    BY DEF TypeOfTxn
  <2>2. e[1] \in locked[p]
    BY <1>1, <2>1 DEF OwnParents
  <2> QED
    BY <1>1, <2>1, <2>2, MadeIsEmpty
<1>4. ~errs'[p]
  BY <1>3 DEF Prune, Returns, TypeOfTxn
<1>5. ASSUME NEW t \in locked[p], NEW x \in Paths
      PROVE  tree'[fd[p][t]][x] = IF <<t, x>> \in parents[p] THEN Hole ELSE tree[fd[p][t]][x]
  <2>1. \A u \in locked[p] : fd[p][u] \in Inodes /\ (fd[p][u] = fd[p][t] => u = t)
    BY ReconcilerAssumption DEF LocksHeld, LocksHeldBy, Holds, InodesApart, TypeOfHandles
  <2>2. tree'[fd[p][t]][x] = IF \E u \in locked[p] : fd[p][u] = fd[p][t] /\ Prunable(p, u, x)
                             THEN Hole ELSE tree[fd[p][t]][x]
    BY <2>1 DEF Prune
  <2>3. (\E u \in locked[p] : fd[p][u] = fd[p][t] /\ Prunable(p, u, x)) <=> Prunable(p, t, x)
    BY <2>1
  <2>4. Prunable(p, t, x) <=> <<t, x>> \in parents[p]
    BY <1>3 DEF Prunable, CreatedDir
  <2> QED
    BY <2>2, <2>3, <2>4
<1>6. ASSUME NEW t \in locked[p] PROVE Whole(p, t)'
  <2>1. ~Reported(p, t) /\ ~Reported(p, t)' /\ ~Ending(p) /\ Ending(p)' /\ t \in PutBackOnes(p)
    BY <1>1 DEF Ending, Reported, PutBackOnes
  <2>2. Standing(p, t) /\ Laid(p, t) /\ at[t] = fd[p][t]
    BY <2>1, StandingWhole
  <2>3. ASSUME NEW x \in Paths, <<t, x>> \in Ops(p) PROVE InOrder(p, <<t, x>>)'
    <3>1. NotDone(p, <<t, x>>)
      BY <1>1, <2>2, <2>3, AllUndone
    <3>2. tree'[fd[p][t]][x] = tree[fd[p][t]][x]
      BY <1>1, <1>5, <2>3, MadeIsEmpty
    <3>3. NotDone(p, <<t, x>>)'
      BY <1>1, <1>2, <3>1, <3>2 DEF NotDone, IsNew, OldLink, Absent, SamePlan
    <3> QED
      BY <3>3 DEF InOrder
  <2>4. ASSUME NEW x \in Paths, <<t, x>> \notin Ops(p) PROVE Beside(p, <<t, x>>)'
    <3>1. Beside(p, <<t, x>>)
      BY <2>2, <2>4 DEF Laid
    <3>2. CASE <<t, x>> \in parents[p]
      <4>1. x \notin Managed(seen[p][t].entries) /\ seen[p][t].unmanaged[x] = Nothing
        BY <1>1, <3>2, MadeIsEmpty
      <4>2. tree'[fd[p][t]][x].kind = "absent" /\ tree'[fd[p][t]][x].to = NoSource
        BY <1>5, <3>2 DEF Hole
      <4> QED
        BY <1>1, <1>2, <4>1, <4>2 DEF Beside, Nothing, SamePlan
    <3>3. CASE <<t, x>> \notin parents[p]
      <4>1. tree'[fd[p][t]][x] = tree[fd[p][t]][x]
        BY <1>5, <3>3
      <4> QED
        BY <1>1, <1>2, <3>1, <3>3, <4>1, BesideKept
    <3> QED
      BY <3>2, <3>3
  <2>5. Laid(p, t)'
    BY <1>2, <2>3, <2>4, SameOps DEF Laid
  <2> QED
    BY <1>1, <1>2, <2>1, <2>2, <2>5, StillWhole DEF Standing, Rec
<1> QED
  BY <1>1, <1>2, <1>4, <1>6 DEF ReturnsStill, Returns
(* A root that a run made is empty in the end.                              *)
LEMMA MadeRootEmpty ==
    ASSUME IInv, NEW p \in Applies, MadeRoots(p), JournalDone(p), Returns(p), pc[p] = "report",
           NEW t \in left[p], made[p][t] # NoInode
    PROVE  Removable(p, t) /\ seen[p][t] = AbsentView /\ at[t] # NoInode
<1> USE DEF IInv, TypeOK
<1>1. t \in locked[p] /\ t \in Targets /\ journal[p] = {} /\ ~Reported(p, t)
  BY DEF TargetsTracked, Tracked, Looping, TypeOfHandles, JournalDone, Reported
<1>2. Standing(p, t) /\ Laid(p, t)
  BY <1>1, StandingWhole
<1>3. seen[p][t] = AbsentView /\ at[t] = fd[p][t]
  BY <1>2 DEF Standing
<1>4. fd[p][t] \in Inodes /\ fd[p][t] = made[p][t]
  BY <1>1, ReconcilerAssumption DEF MadeRoots, LocksHeld, LocksHeldBy, Holds
<1>5. ASSUME NEW x \in Paths PROVE Absent(made[p][t], x)
  <2>1. CASE <<t, x>> \in Ops(p)
    <3>1. NotDone(p, <<t, x>>) /\ x \in Artifacts
      BY <1>1, <1>2, <2>1, AllUndone DEF Ops
    <3>2. IsNew(p, <<t, x>>)
      BY <1>3, <3>1 DEF IsNew, AbsentView, NoLinks
    <3> QED
      BY <1>4, <3>1, <3>2 DEF NotDone
  <2>2. CASE <<t, x>> \notin Ops(p)
    <3>1. Beside(p, <<t, x>>)
      BY <1>2, <2>2 DEF Laid
    <3>2. x \notin Managed(seen[p][t].entries) /\ seen[p][t].unmanaged[x] = Nothing
      BY <1>3 DEF AbsentView, NoLinks, Managed
    <3> QED
      BY <1>4, <3>1, <3>2 DEF Beside, Nothing, Absent
  <2> QED
    BY <2>1, <2>2
<1> QED
  BY <1>3, <1>4, <1>5, ReconcilerAssumption DEF Removable

(* A root that has been reported, or waits for it, stays as it is.          *)
LEMMA ReportedStays ==
    ASSUME NEW p \in Applies, NEW t, Whole(p, t), SamePlan(p), Ending(p), Ending(p)',
           prev'[p][t] = prev[p][t], fd'[p][t] = fd[p][t], made'[p][t] = made[p][t],
           ns'[fd[p][t]] = ns[fd[p][t]], tree'[fd[p][t]] = tree[fd[p][t]],
           at'[t] = at[t], bak'[p][t] = bak[p][t], journal'[p] = journal[p], parents'[p] = parents[p],
           Reported(p, t)' <=> Reported(p, t), t \in PutBackOnes(p)' => t \in PutBackOnes(p)
    PROVE  Whole(p, t)'
<1>1. sel'[p] = sel[p] /\ want'[p] = want[p] /\ seen'[p] = seen[p]
  BY DEF SamePlan
<1>2. SeenWhole(p, t)' /\ SeenRecord(p, t)' = SeenRecord(p, t) /\ prev[p][t] = SeenRecord(p, t)
  BY <1>1 DEF SeenWhole, SeenRecord, Whole
<1>3. CASE Gone(p, t)
  BY <1>1, <1>2, <1>3 DEF Whole, Gone
<1>4. CASE ~Gone(p, t)
  <2>1. Standing(p, t)
    BY <1>4 DEF Whole
  <2>2. Laid(p, t)'
    <3>1. \A o : ~Half(p, o) /\ ~Half(p, o)'
      BY DEF Half, Ending
    <3> QED
      BY <2>1, <3>1, QuietLaid DEF Standing
  <2>3. Standing(p, t)'
    BY <1>1, <2>1, <2>2 DEF Standing, Rec
  <2> QED
    BY <1>2, <1>4, <2>3 DEF Whole, Gone
<1> QED
  BY <1>3, <1>4

LEMMA ReportReturns ==
    ASSUME IInv, NEW p \in Applies, MadeRoots(p), JournalDone(p), Returns(p), Report(p)
    PROVE  ReturnsStill(p)
<1> USE DEF IInv, TypeOK, TypeOfControl, TypeOfDisk, TypeOfHandles, TypeOfTxn
<1>1. /\ pc[p] = "report" /\ UNCHANGED <<tree, plan, handles, prev, journal, parents>>
      /\ journal[p] = {} /\ left[p] \subseteq locked[p]
  BY DEF Report, JournalDone, TargetsTracked, Tracked, Looping
<1>2. /\ SamePlan(p) /\ fd' = fd /\ locked' = locked /\ made' = made
  BY <1>1 DEF plan, handles, SamePlan
<1>3. PICK t \in Targets :
         /\ First(p, t)
         /\ \/ /\ made[p][t] = NoInode /\ ns' = [ns EXCEPT ![fd[p][t]].failure = TRUE]
               /\ UNCHANGED <<at, bak, errs>>
            \/ /\ made[p][t] # NoInode /\ ns' = [ns EXCEPT ![fd[p][t]] = Emptied(fd[p][t])]
               /\ bak' = [bak EXCEPT ![p][t] = EmptyTree] /\ litter' = litter
               /\ Vanishes(p, t) => at' = [at EXCEPT ![t] = NoInode]
               /\ errs' = [errs EXCEPT ![p] = @ \/ ~Vanishes(p, t)]
            \/ errs'[p] /\ faults' = faults + 1
         /\ Loop(p, t, "report", "release", locked[p])
  BY DEF Report, Fault
<1>4. CASE errs'[p] /\ faults' = faults + 1
  BY <1>4 DEF ReturnsStill
<1>6. CASE made[p][t] # NoInode /\ litter' = litter /\ fd[p][t] \in litter /\ errs'[p]
  <2>1. t \in left[p] /\ t \in locked[p] /\ ~Reported(p, t)
    BY <1>1, <1>3 DEF First, Reported
  <2>2. t \in sel[p]
    BY <2>1, StandingWhole
  <2>3. Littered(p)'
    BY <1>2, <1>6, <2>2 DEF Littered, SamePlan
  <2> QED
    BY <1>6, <2>3 DEF ReturnsStill
<1>5. CASE /\ ~(errs'[p] /\ faults' = faults + 1)
           /\ ~(made[p][t] # NoInode /\ litter' = litter /\ fd[p][t] \in litter /\ errs'[p])
  <2>0. /\ made[p][t] # NoInode => fd[p][t] \notin litter /\ at' = [at EXCEPT ![t] = NoInode]
                                   /\ ns' = [ns EXCEPT ![fd[p][t]] = Emptied(fd[p][t])]
                                   /\ bak' = [bak EXCEPT ![p][t] = EmptyTree]
                                   /\ errs'[p] = errs[p]
        /\ made[p][t] = NoInode => ns' = [ns EXCEPT ![fd[p][t]].failure = TRUE]
                                   /\ UNCHANGED <<at, bak, errs>>
    <3>1. CASE made[p][t] = NoInode
      BY <1>3, <1>5, <3>1
    <3>2. CASE made[p][t] # NoInode
      <4>1. /\ ns' = [ns EXCEPT ![fd[p][t]] = Emptied(fd[p][t])]
            /\ bak' = [bak EXCEPT ![p][t] = EmptyTree] /\ litter' = litter
            /\ Vanishes(p, t) => at' = [at EXCEPT ![t] = NoInode]
            /\ errs'[p] = (errs[p] \/ ~Vanishes(p, t))
        BY <1>3, <1>5, <3>2
      <4>2. t \in left[p] /\ Removable(p, t)
        BY <1>1, <1>3, <3>2, MadeRootEmpty DEF First
      <4>3. fd[p][t] \notin litter
        BY <1>5, <3>2, <4>1, <4>2 DEF Vanishes
      <4>4. Vanishes(p, t)
        BY <4>2, <4>3 DEF Vanishes
      <4>5. errs'[p] = errs[p]
        BY <4>1, <4>4 DEF Returns
      <4> QED
        BY <3>2, <4>1, <4>3, <4>4, <4>5
    <3> QED
      BY <3>1, <3>2
  <2>1. t \in left[p] /\ t \in locked[p]
    BY <1>1, <1>3 DEF First
  <2>2. \A u \in locked[p] : /\ u \in Targets /\ fd[p][u] \in Inodes
                             /\ fd[p][u] = fd[p][t] => u = t
    BY <2>1, ReconcilerAssumption DEF LocksHeld, LocksHeldBy, Holds, InodesApart
  <2>3. Ending(p) /\ Ending(p)' /\ \A u \in locked[p] : Reported(p, u)' <=> Reported(p, u) \/ u = t
    <3>1. CASE left[p] = {t} /\ pc'[p] = "release"
      BY <1>1, <3>1 DEF Ending, Reported
    <3>2. CASE left'[p] = left[p] \ {t} /\ pc'[p] = "report"
      BY <1>1, <3>2 DEF Ending, Reported
    <3> QED
      BY <1>3, <3>1, <3>2 DEF Loop, Goto
  <2>4. \A u \in locked[p] : u \in PutBackOnes(p)
    BY <1>1 DEF PutBackOnes
  <2>5. ASSUME NEW u \in locked[p], u # t PROVE Whole(p, u)'
    <3>1. ns'[fd[p][u]] = ns[fd[p][u]] /\ at'[u] = at[u] /\ bak'[p][u] = bak[p][u]
      BY <1>1, <2>0, <2>1, <2>2, <2>5
    <3>2. Whole(p, u)
      BY DEF Returns
    <3> QED
      BY <1>1, <1>2, <2>3, <2>4, <2>5, <3>1, <3>2, ReportedStays
  <2>6. ~Reported(p, t)
    BY <1>1, <2>1 DEF Reported
  <2>7. /\ SeenWhole(p, t) /\ prev[p][t] = SeenRecord(p, t) /\ Standing(p, t) /\ Laid(p, t)
        /\ at[t] = fd[p][t] /\ ns[fd[p][t]].exists
    BY <2>1, <2>6, StandingWhole
  <2>8. SeenWhole(p, t)' /\ prev'[p][t] = SeenRecord(p, t)'
    BY <1>1, <1>2, <2>7 DEF SeenWhole, SeenRecord, SamePlan
  <2>9. Whole(p, t)' /\ ~errs'[p]
    <3>1. CASE made[p][t] = NoInode
      <4>1. ns' = [ns EXCEPT ![fd[p][t]].failure = TRUE] /\ UNCHANGED <<at, bak, errs>>
        BY <2>0, <3>1
      <4>2. /\ ns'[fd[p][t]].exists = ns[fd[p][t]].exists /\ ns'[fd[p][t]].failure
            /\ ns'[fd[p][t]].managed = ns[fd[p][t]].managed
        BY <2>1, <2>2, <4>1 DEF Namespace
      <4>3. Laid(p, t)'
        <5>1. \A o : ~Half(p, o) /\ ~Half(p, o)'
          BY <2>3 DEF Half, Ending
        <5> QED
          BY <1>1, <1>2, <2>3, <2>7, <4>1, <5>1, QuietLaid
      <4>4. Standing(p, t)'
        BY <1>1, <1>2, <2>1, <2>4, <2>7, <4>1, <4>2, <4>3 DEF Standing, Rec, RecordReadable, SamePlan
      <4> QED
        BY <1>2, <2>8, <3>1, <4>1, <4>4 DEF Whole, Gone, Returns
    <3>2. CASE made[p][t] # NoInode
      <4>1. Removable(p, t) /\ seen[p][t] = AbsentView /\ at[t] # NoInode
        BY <1>1, <2>1, <3>2, MadeRootEmpty
      <4>2. at'[t] = NoInode /\ errs'[p] = errs[p]
        BY <2>0, <3>2, <4>1
      <4> QED
        BY <1>2, <2>1, <2>3, <2>7, <2>8, <3>2, <4>1, <4>2 DEF Whole, Gone, Returns, SamePlan
    <3> QED
      BY <3>1, <3>2
  <2> QED
    BY <1>1, <1>2, <2>5, <2>9, SameOps DEF ReturnsStill, Returns
<1> QED
  BY <1>4, <1>5, <1>6
LEMMA ReleaseReturns ==
    ASSUME IInv, NEW p \in Applies, Returns(p), Release(p)
    PROVE  ReturnsStill(p)
<1> USE DEF IInv, TypeOK, TypeOfControl, TypeOfHandles
<1>1. pc[p] = "release" /\ UNCHANGED <<disk, bak, budget>> /\ left[p] = locked[p]
  BY DEF Release, TargetsTracked, Tracked, Turning
<1>2. CASE locked[p] = {}
  <2>1. /\ locked'[p] = {} /\ (errs' = errs \/ ~errs'[p])
        /\ (journal' = journal /\ plan' = plan) \/ journal'[p] = {}
    BY <1>1, <1>2 DEF Release, Reset, handles, TypeOfTxn
  <2> QED
    BY <2>1, SameOps DEF ReturnsStill, Returns, plan, SamePlan
<1>3. CASE locked[p] # {}
  <2>1. PICK t \in Targets :
           /\ fd' = [fd EXCEPT ![p][t] = NoInode] /\ made' = [made EXCEPT ![p][t] = NoInode]
           /\ locked' = [locked EXCEPT ![p] = @ \ {t}]
           /\ UNCHANGED <<pc, phase, plan, fresh, prev, journal, parents, errs, outcome>>
    BY <1>1, <1>3 DEF Release
  <2>2. SamePlan(p) /\ Ending(p) /\ Ending(p)' /\ at' = at /\ tree' = tree /\ ns' = ns
    BY <1>1, <2>1 DEF plan, disk, SamePlan, Ending
  <2>3. ASSUME NEW u \in locked'[p] PROVE Whole(p, u)'
    <3>1. u \in locked[p] /\ u # t /\ fd'[p][u] = fd[p][u] /\ made'[p][u] = made[p][u]
      BY <2>1
    <3>2. Whole(p, u)
      BY <3>1 DEF Returns
    <3>3. (Reported(p, u)' <=> Reported(p, u)) /\ (u \in PutBackOnes(p)' => u \in PutBackOnes(p))
      BY <1>1, <2>1, <3>1 DEF Reported, PutBackOnes
    <3> QED
      BY <1>1, <2>1, <2>2, <3>1, <3>2, <3>3, ReportedStays
  <2> QED
    BY <2>1, <2>2, <2>3, SameOps DEF ReturnsStill, Returns
<1> QED
  BY <1>2, <1>3

------------------------------------------------------------------------------
(* What validation has found: the targets as they were seen, and the record *)
(* that the plan was built on remembered.                                   *)
LEMMA FoundAsSeen ==
    ASSUME IInv, RInv, NEW p \in Applies, SeenAbsent(p), RemembersFound(p), pc[p] = "validate",
           envs = 0, NEW t \in locked[p], AsPlannedFor(p, t)
    PROVE  /\ prev[p][t] = SeenRecord(p, t) /\ seen[p][t].exists = (made[p][t] = NoInode)
           /\ made[p][t] # NoInode => seen[p][t] = AbsentView
           /\ seen[p][t].unmanaged = Unmanaged(RecordedLinks(ns[fd[p][t]]), tree[fd[p][t]])
           /\ seen[p][t].entries = RecordedLinks(ns[fd[p][t]])
           /\ seen[p][t].cache = NoCache => seen[p][t].entries = NoLinks
           /\ LinksSound(seen[p][t].entries, tree[fd[p][t]])
<1> USE DEF IInv, TypeOK, TypeOfControl, TypeOfHandles, TypeOfDisk, TypeOfTxn, TypeOfPlan
<1> DEFINE i == fd[p][t]
<1>1. i \in Inodes /\ t \in Taken(p) /\ t \in Targets
  BY DEF LocksHeld, LocksHeldBy, Holds, Taken
<1>2. ns[i].exists /\ Rec(p, t) # NoFile /\ (fresh[p][t] => Rec(p, t) = EmptyRecord(p))
  BY DEF RInv, Records, Initialized, Early
<1>3. Rec(p, t) \in Record
  BY <1>1, <1>2 DEF Rec, Namespace
<1>4. /\ Current(i).cache = Rec(p, t).cache /\ Current(i).entries = Rec(p, t).entries
      /\ RecordedLinks(ns[i]) = Rec(p, t).entries
      /\ Current(i).unmanaged = Unmanaged(RecordedLinks(ns[i]), tree[i])
  BY <1>2 DEF Current, Scan, RecordedCache, RecordedLinks, HasRecord, Rec
<1>5. LinksSound(RecordedLinks(ns[i]), tree[i])
  BY DEF AsPlannedFor, Scannable
<1>6. /\ seen[p][t].exists = (made[p][t] = NoInode)
      /\ seen[p][t].unmanaged = Unmanaged(RecordedLinks(ns[i]), tree[i])
      /\ seen[p][t].cache = IF fresh[p][t] THEN NoCache ELSE Rec(p, t).cache
      /\ seen[p][t].entries = IF fresh[p][t] THEN NoLinks ELSE Rec(p, t).entries
  BY <1>4 DEF AsPlannedFor, AsReviewed, Current, Scan
<1>7. seen[p][t].entries = RecordedLinks(ns[i])
  BY <1>2, <1>4, <1>6 DEF EmptyRecord
<1>8. seen[p][t].cache = NoCache <=> fresh[p][t]
  BY <1>3, <1>6, PlannerAssumption DEF Record
<1>9. prev[p][t] = SeenRecord(p, t)
  <2>1. IF fresh[p][t] THEN prev[p][t] = NoFile ELSE prev[p][t] = Rec(p, t)
    BY <1>1 DEF RemembersFound, Early
  <2>2. ~fresh[p][t] => Rec(p, t) = [cache |-> seen[p][t].cache, entries |-> seen[p][t].entries]
    BY <1>3, <1>6 DEF Record
  <2> QED
    BY <1>8, <2>1, <2>2 DEF SeenRecord
<1> QED
  BY <1>1, <1>5, <1>6, <1>7, <1>8, <1>9 DEF SeenAbsent
(* Such a view is whole, and the trees are laid as it says.                 *)
LEMMA FoundWhole ==
    ASSUME IInv, RInv, Rooted, Clean, NEW p \in Applies, SeenAbsent(p), RemembersFound(p),
           pc[p] = "validate", envs = 0, NEW t \in locked[p], AsPlannedFor(p, t)
    PROVE  SeenWhole(p, t)
<1> USE DEF IInv, TypeOK, TypeOfDisk
<1> DEFINE view == seen[p][t]
           nodes == tree[fd[p][t]]
<1>1. /\ view.unmanaged = Unmanaged(view.entries, nodes) /\ LinksSound(view.entries, nodes)
      /\ view.cache = NoCache => view.entries = NoLinks
  BY FoundAsSeen
<1>2. fd[p][t] \in Inodes /\ t \in sel[p] /\ ~Blocked(view, want[p][t], CacheRoot[p])
  BY DEF LocksHeld, LocksHeldBy, Holds, RInv, Records, Unblocked, Early, PlanBlocked
<1>3. \A x \in Managed(view.entries) :
         /\ x \in Paths /\ view.entries[x] \notin Unsafe /\ view.unmanaged[x] = Nothing
         /\ nodes[x].kind = "link" /\ \A y \in Above[x] : nodes[y].kind = "dir"
  BY <1>1, PlannerAssumption DEF Managed, Unmanaged, LinksSound
<1>4. \A x \in Paths : x \notin Managed(view.entries) =>
         view.unmanaged[x].kind = nodes[x].kind /\ view.unmanaged[x].to = nodes[x].to
         /\ view.unmanaged[x] = [kind |-> nodes[x].kind, to |-> nodes[x].to]
  BY <1>1 DEF Unmanaged
<1>5. ASSUME NEW x \in Paths, view.unmanaged[x].kind = "absent" PROVE view.unmanaged[x] = Nothing
  <2>1. CASE x \in Managed(view.entries)
    BY <1>3, <2>1
  <2>2. CASE x \notin Managed(view.entries)
    BY <1>2, <1>4, <1>5, <2>2 DEF Clean, Nothing
  <2> QED
    BY <2>1, <2>2
<1>6. ASSUME NEW x \in Paths, NEW y \in Above[x],
             view.unmanaged[x].kind # "absent" \/ x \in Managed(view.entries)
      PROVE  view.unmanaged[y].kind = "dir"
  <2>1. nodes[y].kind = "dir" /\ y \in Paths
    <3>1. y \in Paths
      BY PlannerAssumption
    <3>2. CASE x \in Managed(view.entries)
      BY <1>3, <3>1, <3>2
    <3>3. CASE x \notin Managed(view.entries)
      BY <1>2, <1>4, <1>6, <3>1, <3>3 DEF Rooted, IsDir
    <3> QED
      BY <3>2, <3>3
  <2>2. y \notin Managed(view.entries)
    BY <1>3, <2>1
  <2> QED
    BY <1>4, <2>1, <2>2
<1> HIDE DEF view, nodes
<1>7. /\ ~Blocked(view, want[p][t], CacheRoot[p])
      /\ view.cache = NoCache => view.entries = NoLinks
      /\ \A x \in Managed(view.entries) : view.entries[x] \notin Unsafe /\ view.unmanaged[x] = Nothing
      /\ \A x \in Paths : view.unmanaged[x].kind = "absent" => view.unmanaged[x] = Nothing
      /\ \A x \in Paths : \A y \in Above[x] :
            view.unmanaged[x].kind # "absent" \/ x \in Managed(view.entries)
                => view.unmanaged[y].kind = "dir"
  BY <1>1, <1>2, <1>3, <1>5, <1>6
<1> QED
  BY <1>7 DEF SeenWhole, view

LEMMA FoundLaid ==
    ASSUME IInv, RInv, Rooted, Clean, NEW p \in Applies, SeenAbsent(p), RemembersFound(p),
           pc[p] = "validate", envs = 0, NEW t \in locked[p], AsPlannedFor(p, t),
           journal[p] = {}, parents[p] = {}, \A x \in Paths : bak[p][t][x].kind = "absent"
    PROVE  \A x \in Paths : IF <<t, x>> \in Ops(p) THEN NotDone(p, <<t, x>>) ELSE Beside(p, <<t, x>>)
<1> USE DEF IInv, TypeOK
<1>1. /\ seen[p][t].unmanaged = Unmanaged(seen[p][t].entries, tree[fd[p][t]])
      /\ LinksSound(seen[p][t].entries, tree[fd[p][t]])
  BY FoundAsSeen
<1>2. t \in sel[p] /\ ~Blocked(seen[p][t], want[p][t], CacheRoot[p])
  BY DEF RInv, Records, Unblocked, Early, PlanBlocked
<1>3. ASSUME NEW x \in Managed(seen[p][t].entries) PROVE OldLink(p, <<t, x>>)
  BY <1>1, <1>3 DEF OldLink, LinksSound, Managed
<1>4. \A x \in Paths : x \notin Managed(seen[p][t].entries) =>
         /\ seen[p][t].unmanaged[x] = [kind |-> tree[fd[p][t]][x].kind, to |-> tree[fd[p][t]][x].to]
         /\ seen[p][t].unmanaged[x].kind = tree[fd[p][t]][x].kind
  BY <1>1 DEF Unmanaged
<1>5. ASSUME NEW x \in Paths, <<t, x>> \in Ops(p) PROVE NotDone(p, <<t, x>>)
  <2>1. x \in Artifacts /\ x \in Mutations(seen[p][t], want[p][t])
    BY <1>5 DEF Ops
  <2>2. CASE IsNew(p, <<t, x>>)
    <3>1. x \notin Managed(seen[p][t].entries) /\ want[p][t][x] # NoSource
      BY <2>1, <2>2 DEF IsNew, Managed, Mutations, Action
    <3>2. seen[p][t].unmanaged[x].kind = "absent"
      BY <1>2, <2>1, <3>1 DEF Blocked, Obstructed, Managed
    <3>3. Absent(fd[p][t], x)
      BY <1>4, <3>1, <3>2 DEF Absent
    <3> QED
      BY <2>2, <3>3 DEF NotDone, Half
  <2>3. CASE ~IsNew(p, <<t, x>>)
    BY <1>3, <2>1, <2>3 DEF NotDone, IsNew, Managed, Half
  <2> QED
    BY <2>2, <2>3
<1>6. ASSUME NEW x \in Paths PROVE Beside(p, <<t, x>>)
  BY <1>3, <1>4 DEF Beside
<1> QED
  BY <1>5, <1>6

LEMMA ValidateReturns ==
    ASSUME IInv, RInv, Rooted, Clean, envs = 0, NEW p \in Applies, Trees(p), BackedUp(p),
           NothingMade(p), SeenAbsent(p), RemembersFound(p), Validate(p), pc'[p] = "stage"
    PROVE  journal'[p] \subseteq Ops(p)' /\ \A t \in locked'[p] : Whole(p, t)'
<1> USE DEF IInv, TypeOK, TypeOfControl
<1>1. PICK t \in Targets :
         /\ First(p, t) /\ Verified(p) /\ StillCurrent(p, t) /\ left[p] = {t}
  <2>1. pc[p] = "validate"
    BY DEF Validate
  <2> QED
    BY <2>1 DEF Validate, Loop, Goto, Fail
<1>2. /\ UNCHANGED <<disk, plan, handles, txn>> /\ pc[p] = "validate"
  BY DEF Validate
<1>3. /\ at' = at /\ tree' = tree /\ ns' = ns /\ SamePlan(p) /\ prev' = prev /\ made' = made
      /\ fd' = fd /\ locked' = locked /\ journal' = journal /\ parents' = parents /\ bak' = bak
  BY <1>2 DEF disk, plan, handles, txn, SamePlan
<1>4. Records(p)
  BY DEF RInv
<1>5. \A u \in locked[p] : AsPlannedFor(p, u)
  <2>1. AsPlannedFor(p, t)
    BY <1>1 DEF StillCurrent, AsPlannedFor
  <2>2. \A u \in locked[p] \ {t} : u \in Checked(p)
    BY <1>1, <1>2 DEF Checked
  <2> QED
    BY <1>2, <1>4, <2>1, <2>2 DEF Records, StillPlanned
<1>6. journal[p] = {} /\ parents[p] = {}
  BY <1>2 DEF Trees, NothingDone, NothingMade, Early
<1>7. \A u \in Targets : \A x \in Paths : bak[p][u][x].kind = "absent"
  BY <1>2, NoBackupsYet DEF Before1st, Early
<1>8. ASSUME NEW u \in locked[p] PROVE Whole(p, u)'
  <2>1. u \in Targets /\ at[u] = fd[p][u] /\ u \in sel[p] /\ ns[fd[p][u]].exists
    BY <1>1, <1>2, <1>4 DEF Verified, Records, Unblocked, Initialized, Early, TypeOfHandles
  <2>2. SeenWhole(p, u) /\ prev[p][u] = SeenRecord(p, u)
        /\ seen[p][u].exists = (made[p][u] = NoInode)
        /\ (made[p][u] # NoInode => seen[p][u] = AbsentView)
    BY <1>2, <1>5, FoundWhole, FoundAsSeen
  <2>3. \A x \in Paths : IF <<u, x>> \in Ops(p) THEN NotDone(p, <<u, x>>) ELSE Beside(p, <<u, x>>)
    BY <1>2, <1>5, <1>6, <1>7, <2>1, FoundLaid
  <2>4. \A x \in Paths : IF <<u, x>> \in Ops(p) THEN InOrder(p, <<u, x>>)' ELSE Beside(p, <<u, x>>)'
    <3>1. ~Ending(p) /\ ~Ending(p)' /\ \A o : ~Half(p, o)'
      BY <1>2 DEF Ending, Half
    <3>2. ASSUME NEW x \in Paths, <<u, x>> \in Ops(p) PROVE InOrder(p, <<u, x>>)'
      <4>1. NotDone(p, <<u, x>>)
        BY <2>3, <3>2
      <4>2. NotDone(p, <<u, x>>)'
        BY <1>3, <3>1, <4>1 DEF NotDone, IsNew, OldLink, Absent, SamePlan
      <4> QED
        BY <4>2 DEF InOrder
    <3>3. ASSUME NEW x \in Paths, <<u, x>> \notin Ops(p) PROVE Beside(p, <<u, x>>)'
      BY <1>3, <2>3, <3>1, <3>3, BesideKept
    <3> QED
      BY <3>2, <3>3
  <2>5. Laid(p, u)'
    BY <1>3, <2>4, SameOps DEF Laid
  <2>6. ~Reported(p, u)' /\ u \notin PutBackOnes(p)'
    BY DEF Reported, PutBackOnes
  <2>7. Standing(p, u)'
    BY <1>3, <2>1, <2>2, <2>5, <2>6 DEF Standing, SamePlan
  <2>8. SeenWhole(p, u)' /\ prev'[p][u] = SeenRecord(p, u)'
    BY <1>3, <2>2 DEF SeenWhole, SeenRecord, SamePlan
  <2> QED
    BY <2>6, <2>7, <2>8 DEF Whole, Gone
<1> QED
  BY <1>3, <1>6, <1>8
(* A run that is past validation got there by it, and goes on until it      *)
(* commits.                                                                 *)
Transacts(p) ==
    \/ Stage(p) \/ Promote(p) \/ MoveAside(p) \/ Install(p) \/ CleanStaging(p) \/ Publish(p)
    \/ Undo(p) \/ PutBackup(p) \/ RestoreMetadata(p) \/ Discard(p) \/ Prune(p) \/ Report(p) \/ Release(p)

LEMMA EarlierPhase ==
    ASSUME IInv, NEW p \in Applies, Trees(p),
           \/ Begin(p) \/ ReadRecord(p) \/ WalkTree(p) \/ BuildPlan(p)
           \/ LookAtRoot(p) \/ MakeRoot(p) \/ OpenRoot(p) \/ LockRoot(p) \/ LockExpires(p)
           \/ OpenNamespace(p) \/ Abandon(p) \/ Unchain(p) \/ InitMetadata(p)
           \/ DropBackup(p) \/ Settle(p) \/ Crash(p)
    PROVE  ~Late(p)'
<1> USE DEF IInv, TypeOK, TypeOfControl
<1>1. CASE Begin(p) \/ ReadRecord(p) \/ WalkTree(p) \/ BuildPlan(p)
  <2>1. phase' = phase /\ pc[p] \in {"idle", "scan", "walk", "plan"}
    BY <1>1 DEF Begin, ReadRecord, WalkTree, BuildPlan
  <2>2. phase[p] = "locking"
    BY <2>1 DEF Trees, Course
  <2> QED
    BY <2>1, <2>2 DEF Late, Past
<1>2. CASE \/ LookAtRoot(p) \/ MakeRoot(p) \/ OpenRoot(p) \/ LockRoot(p) \/ LockExpires(p)
           \/ OpenNamespace(p) \/ Abandon(p) \/ Unchain(p)
  <2>1. phase' = phase /\ pc[p] \in Early
    BY <1>2 DEF LookAtRoot, MakeRoot, OpenRoot, LockRoot, LockExpires, OpenNamespace, Abandon, Unchain,
       Early, Preparing
  <2>2. phase[p] \in {"locking", "validation"}
    BY <2>1 DEF Trees, NothingDone
  <2> QED
    BY <2>1, <2>2 DEF Late, Past
<1>3. CASE InitMetadata(p)
  <2>1. pc[p] \in Early /\ phase'[p] \in {phase[p], "validation"}
    BY <1>3 DEF InitMetadata, Early
  <2>2. phase[p] \in {"locking", "validation"}
    BY <2>1 DEF Trees, NothingDone
  <2> QED
    BY <2>1, <2>2 DEF Late, Past
<1>4. CASE DropBackup(p) \/ Settle(p)
  <2>1. phase' = phase /\ pc[p] \in {"drop", "settle"}
    BY <1>4 DEF DropBackup, Settle
  <2>2. phase[p] = "committed"
    BY <2>1 DEF Trees, Course
  <2> QED
    BY <2>1, <2>2 DEF Late
<1>5. CASE Crash(p)
  BY <1>5 DEF Crash, Reset, Late, Past
<1> QED
  BY <1>1, <1>2, <1>3, <1>4, <1>5

LEMMA LateBegins ==
    ASSUME IInv, NEW p \in Applies, Trees(p), NothingToUndo(p), Begin(p) \/ Step(p) \/ Crash(p), Late(p)'
    PROVE  (Validate(p) /\ pc'[p] = "stage") \/ (Late(p) /\ Transacts(p))
<1> USE DEF IInv, TypeOK, TypeOfControl
<1>1. CASE Validate(p)
  <2>1. pc[p] = "validate" /\ phase[p] \in {"locking", "validation"}
    BY <1>1 DEF Validate, Trees, NothingDone, Early
  <2>2. PICK t \in Targets : /\ Loop(p, t, "validate", "stage", {})
                             /\ phase' = [phase EXCEPT ![p] = IF left[p] = {t} THEN "staging" ELSE @]
    <3>1. phase' # phase
      BY <2>1 DEF Late, Past
    <3> QED
      BY <1>1, <3>1 DEF Validate
  <2>3. left[p] = {t}
    BY <2>1, <2>2 DEF Late, Past
  <2> QED
    BY <1>1, <2>2, <2>3 DEF Loop, Goto
<1>2. CASE Stage(p) \/ Promote(p) \/ MoveAside(p) \/ Install(p) \/ CleanStaging(p) \/ Publish(p)
  <2>1. pc[p] \in Promoting
    BY <1>2 DEF Stage, Promote, MoveAside, Install, CleanStaging, Publish, Promoting
  <2> QED
    BY <1>2, <2>1 DEF Transacts, NothingToUndo, Late, Trees, Course
<1>3. CASE \/ Undo(p) \/ PutBackup(p) \/ RestoreMetadata(p) \/ Discard(p) \/ Prune(p) \/ Report(p)
           \/ Release(p)
  <2>1. phase' = phase \/ phase'[p] = "locking"
    BY <1>3 DEF Undo, PutBackup, RestoreMetadata, Discard, Prune, Report, Release, Reset
  <2> QED
    BY <1>3, <2>1 DEF Transacts, Late, Past
<1> QED
  BY <1>1, <1>2, <1>3, EarlierPhase DEF Step

LEMMA TransactsReturns ==
    ASSUME IInv, AllNoted, NEW p \in Applies, Trees(p), MadeRoots(p), OwnParents(p), JournalDone(p),
           Returns(p), Transacts(p)
    PROVE  ReturnsStill(p)
<1>1. CASE Stage(p) \/ CleanStaging(p)
  BY <1>1, StagingReturns
<1>2. CASE Promote(p)
  BY <1>2, PromoteReturns
<1>3. CASE MoveAside(p)
  BY <1>3, MoveReturns
<1>4. CASE Install(p)
  BY <1>4, InstallReturns DEF AllNoted
<1>5. CASE Publish(p)
  BY <1>5, PublishReturns
<1>6. CASE Undo(p)
  BY <1>6, UndoReturns
<1>7. CASE PutBackup(p)
  BY <1>7, PutBackReturns
<1>8. CASE RestoreMetadata(p)
  BY <1>8, RestoreReturns
<1>9. CASE Discard(p)
  BY <1>9, DiscardReturns
<1>10. CASE Prune(p)
  BY <1>10, PruneReturns
<1>11. CASE Report(p)
  BY <1>11, ReportReturns
<1>12. CASE Release(p)
  BY <1>12, ReleaseReturns
<1> QED
  BY <1>1, <1>2, <1>3, <1>4, <1>5, <1>6, <1>7, <1>8, <1>9, <1>10, <1>11, <1>12 DEF Transacts
(* Errors of a rollback.                                                    *)
LEMMA ErrsKept ==
    ASSUME NEW p \in Applies, Begin(p) \/ Step(p),
           ~(\/ Undo(p) \/ PutBackup(p) \/ RestoreMetadata(p) \/ Discard(p) \/ Prune(p) \/ Report(p)
             \/ Release(p))
    PROVE  errs' = errs
<1>1. CASE Begin(p) \/ ReadRecord(p) \/ WalkTree(p) \/ BuildPlan(p)
  BY <1>1 DEF Begin, ReadRecord, WalkTree, BuildPlan, txn
<1>2. CASE ~(Begin(p) \/ ReadRecord(p) \/ WalkTree(p) \/ BuildPlan(p))
  BY <1>2 DEF Step, LookAtRoot, MakeRoot, OpenRoot, LockRoot, LockExpires, OpenNamespace, Abandon,
     Unchain, InitMetadata, Validate, Stage, CleanStaging, Publish, DropBackup, Settle, Promote,
     MoveAside, Install, txn
<1> QED
  BY <1>1, <1>2

LEMMA ErrorStep ==
    ASSUME IInv, NEW p \in Applies, Course(p), errs[p] => outcome[p] = "failed",
           Begin(p) \/ Step(p) \/ Crash(p), errs'[p]
    PROVE  /\ outcome'[p] = "failed" /\ outcome[p] = "failed" /\ phase'[p] = phase[p]
           /\ pc[p] # "done" /\ plan' = plan /\ litter \subseteq litter'
           /\ \/ UNCHANGED handles
              \/ \E t \in Targets : /\ t \in locked[p]
                                    /\ fd' = [fd EXCEPT ![p][t] = NoInode]
                                    /\ made' = [made EXCEPT ![p][t] = NoInode]
                                    /\ locked' = [locked EXCEPT ![p] = @ \ {t}]
<1> USE DEF IInv, TypeOK, TypeOfControl, TypeOfTxn
<1>1. ~Crash(p)
  BY DEF Crash, Reset
<1>2. \/ Undo(p) \/ PutBackup(p) \/ RestoreMetadata(p) \/ Discard(p) \/ Prune(p) \/ Report(p)
      \/ Release(p)
  <2>1. CASE pc[p] \in RollingBack \cup {"release", "done"}
    BY <1>1, <2>1, RollbackSteps
  <2>2. CASE pc[p] \notin RollingBack \cup {"release", "done"}
    <3>1. pc[p] \in {"idle", "scan", "walk", "plan", "drop", "settle"} \cup Early \cup Promoting
      BY <2>2 DEF RollingBack, Early, Preparing, Promoting, Steps
    <3>2. outcome[p] # "failed"
      BY <3>1 DEF Course
    <3> QED
      BY <1>1, <3>2, ErrsKept
  <2> QED
    BY <2>1, <2>2
<1>3. CASE Undo(p) \/ PutBackup(p) \/ RestoreMetadata(p) \/ Discard(p) \/ Prune(p) \/ Report(p)
  <2>1. outcome' = outcome /\ phase' = phase /\ plan' = plan /\ pc[p] \in RollingBack
    BY <1>3 DEF Undo, PutBackup, RestoreMetadata, Discard, Prune, Report, RollingBack
  <2>2. outcome[p] = "failed"
    BY <2>1 DEF Course, RolledBack, RollingBack
  <2>3. litter \subseteq litter' /\ UNCHANGED handles
    BY <1>3 DEF Undo, PutBackup, RestoreMetadata, Discard, Prune, Report
  <2> QED
    BY <2>1, <2>2, <2>3 DEF RollingBack
<1>4. CASE Release(p)
  <2>1. outcome' = outcome /\ phase' = phase /\ plan' = plan /\ errs' = errs /\ pc[p] = "release"
    BY <1>4 DEF Release, Reset
  <2>2. litter' = litter
    BY <1>4 DEF Release
  <2>3. \/ UNCHANGED handles
        \/ \E t \in Targets : /\ t \in locked[p]
                              /\ fd' = [fd EXCEPT ![p][t] = NoInode]
                              /\ made' = [made EXCEPT ![p][t] = NoInode]
                              /\ locked' = [locked EXCEPT ![p] = @ \ {t}]
    BY <1>4 DEF Release, Last, TargetsTracked, Tracked, Turning
  <2> QED
    BY <2>1, <2>2, <2>3
<1> QED
  BY <1>2, <1>3, <1>4

(* A run that can be taken back stays so, and an error of its rollback is   *)
(* the second one.                                                          *)
LEMMA OwnReverts ==
    ASSUME IInv, RInv, AllNoted, GInv, envs = 0, NEW p \in Applies, Roots(p), Trees(p), Owned(p),
           BackedUp(p), JournalDone(p), SeenAbsent(p), RemembersFound(p), ErrorsCounted(p),
           Reverts(p), Begin(p) \/ Step(p) \/ Crash(p)
    PROVE  Reverts(p)'
<1> USE DEF IInv, TypeOK, TypeOfControl
<1>1. NothingToUndo(p)'
  BY PastGrows DEF Reverts
<1>2. ASSUME Late(p)', ~errs'[p], ~Moves(p)'
      PROVE  journal'[p] \subseteq Ops(p)' /\ \A t \in locked'[p] : Whole(p, t)'
  <2>1. CASE Validate(p) /\ pc'[p] = "stage"
    BY <2>1, ValidateReturns DEF GInv, Owned
  <2>2. CASE Late(p) /\ Transacts(p)
    <3>1. plan' = plan /\ (errs[p] => errs'[p])
      <4>1. CASE Release(p)
        <5>1. ~(phase'[p] = "locking")
          BY <1>2 DEF Late, Past
        <5> QED
          BY <4>1, <5>1 DEF Release, Reset
      <4>2. CASE Undo(p) \/ PutBackup(p) \/ RestoreMetadata(p) \/ Discard(p) \/ Prune(p) \/ Report(p)
        BY <4>2 DEF Undo, PutBackup, RestoreMetadata, Discard, Prune, Report, TypeOfTxn
      <4>3. CASE Stage(p) \/ Promote(p) \/ MoveAside(p) \/ Install(p) \/ CleanStaging(p) \/ Publish(p)
        BY <4>3 DEF Stage, Promote, MoveAside, Install, CleanStaging, Publish, txn
      <4> QED
        BY <2>2, <4>1, <4>2, <4>3 DEF Transacts
    <3>2. Returns(p)
      <4>1. ~Moves(p)
        BY <1>2, <3>1, SameOps DEF plan, SamePlan
      <4> QED
        BY <1>2, <2>2, <3>1, <4>1 DEF Reverts, Returns
    <3>3. ReturnsStill(p)
      BY <2>2, <3>2, TransactsReturns DEF Roots, Owned
    <3> QED
      BY <1>2, <3>3 DEF ReturnsStill
  <2> QED
    BY <1>2, <2>1, <2>2, LateBegins DEF Reverts
<1> QED
  BY <1>1, <1>2 DEF Reverts

LEMMA OwnErrors ==
    ASSUME IInv, AllNoted, FailuresAreEarly, envs = 0, NEW p \in Applies, Roots(p), Trees(p), Owned(p),
           JournalDone(p), ErrorsCounted(p), Reverts(p), Begin(p) \/ Step(p) \/ Crash(p)
    PROVE  ErrorsCounted(p)'
<1> USE DEF IInv, TypeOK, TypeOfBudget
<1>1. SUFFICES ASSUME errs'[p]
               PROVE  /\ outcome'[p] = "failed"
                      /\ Late(p)' /\ ~Moves(p)' /\ sel'[p] \subseteq locked'[p]
                            => faults' >= 2 \/ Littered(p)'
  BY DEF ErrorsCounted
<1>2. /\ outcome'[p] = "failed" /\ outcome[p] = "failed" /\ phase'[p] = phase[p]
      /\ pc[p] # "done" /\ plan' = plan
  BY <1>1, ErrorStep DEF ErrorsCounted, Trees
<1>4. ASSUME sel'[p] \subseteq locked'[p]
      PROVE  sel[p] \subseteq locked[p] /\ (Littered(p) => Littered(p)')
  <2>1. sel' = sel /\ litter \subseteq litter'
    BY <1>1, <1>2, ErrorStep DEF ErrorsCounted, Trees, plan
  <2>2. CASE UNCHANGED handles
    BY <1>4, <2>1, <2>2 DEF handles, Littered
  <2>3. ASSUME NEW t \in Targets, t \in locked[p], fd' = [fd EXCEPT ![p][t] = NoInode],
               made' = [made EXCEPT ![p][t] = NoInode], locked' = [locked EXCEPT ![p] = @ \ {t}]
        PROVE  sel[p] \subseteq locked[p] /\ (Littered(p) => Littered(p)')
    <3>1. locked'[p] = locked[p] \ {t}
      BY <2>3 DEF TypeOfHandles
    <3>2. t \notin sel[p] /\ sel[p] \subseteq locked[p]
      BY <1>4, <2>1, <3>1
    <3>3. \A u \in sel[p] : fd'[p][u] = fd[p][u] /\ made'[p][u] = made[p][u]
      BY <2>3, <3>2
    <3> QED
      BY <2>1, <3>2, <3>3 DEF Littered
  <2> QED
    BY <1>1, <2>2, <2>3, ErrorStep DEF ErrorsCounted, Trees
<1>3. ASSUME Late(p)', ~Moves(p)', sel'[p] \subseteq locked'[p]
      PROVE  faults' >= 2 \/ Littered(p)'
  <2>1. Late(p) /\ ~Moves(p)
    BY <1>2, <1>3, SameOps DEF Late, Past, plan, SamePlan
  <2>2. faults' \in {faults, faults + 1} /\ faults \in Nat
    BY FaultsGrow
  <2>3. CASE errs[p]
    BY <1>3, <1>4, <2>1, <2>2, <2>3 DEF ErrorsCounted
  <2>4. CASE ~errs[p]
    <3>1. Returns(p)
      BY <2>1, <2>4 DEF Reverts, Returns
    <3>2. Transacts(p)
      <4>1. ~(Validate(p) /\ pc'[p] = "stage")
        BY <1>2 DEF Validate, Trees, Course, Early
      <4> QED
        BY <1>3, <4>1, LateBegins DEF Reverts
    <3>3. faults' = faults + 1 \/ Littered(p)'
      BY <1>1, <3>1, <3>2, TransactsReturns DEF ReturnsStill, Roots, Owned
    <3>4. faults # 0
      BY <1>2, <2>1 DEF FailuresAreEarly, FailsEarly, Late, Past
    <3> QED
      BY <2>2, <3>3, <3>4
  <2> QED
    BY <2>3, <2>4
<1> QED
  BY <1>2, <1>3

(* The other runs change nothing that a run could not take back.            *)
LEMMA GoneStaysGone ==
    ASSUME IInv, NEW p \in Applies, Begin(p) \/ Step(p) \/ Crash(p), NEW q \in Applies,
           NEW t \in locked[q], at[t] # fd[q][t]
    PROVE  at'[t] # fd[q][t]
<1> USE DEF IInv, TypeOK, TypeOfDisk, TypeOfHandles
<1>1. fd[q][t] \in Inodes /\ t \in Targets /\ fd[q][t] # NoInode
  BY ReconcilerAssumption DEF LocksHeld, LocksHeldBy, Holds
<1>2. CASE at' = at
  BY <1>2
<1>3. ASSUME NEW u \in Targets, NEW i \in Inodes, Unused(i), at' = [at EXCEPT ![u] = i]
      PROVE  at'[t] # fd[q][t]
  BY <1>1, <1>3 DEF Unused
<1>4. ASSUME NEW u \in Targets, at' = [at EXCEPT ![u] = NoInode] PROVE at'[t] # fd[q][t]
  BY <1>1, <1>4
<1> QED
  BY <1>2, <1>3, <1>4, PathEffects

LEMMA LitterGrows ==
    ASSUME NEW p \in Applies, Begin(p) \/ Step(p) \/ Crash(p) PROVE litter \subseteq litter'
BY DEF Step, Begin, ReadRecord, WalkTree, BuildPlan, LookAtRoot, MakeRoot, OpenRoot,
   LockRoot, LockExpires, OpenNamespace, Abandon, Unchain, InitMetadata, Validate, Stage,
   CleanStaging, Publish, DropBackup, Settle, RestoreMetadata, Discard, Report, Release, Crash,
   Promote, MoveAside, Install, Undo, PutBackup, Prune

LEMMA OthersRevert ==
    ASSUME IInv, \A r \in Applies : Roots(r), NEW p \in Applies, Begin(p) \/ Step(p) \/ Crash(p),
           NEW q \in Applies \ {p}, ErrorsCounted(q), Reverts(q)
    PROVE  ErrorsCounted(q)' /\ Reverts(q)'
<1> USE DEF IInv
<1>1. OthersUntouched(p) /\ OwnRootsOnly(p)
  BY StepFrame
<1>2. /\ pc'[q] = pc[q] /\ left'[q] = left[q] /\ fd'[q] = fd[q] /\ locked'[q] = locked[q]
      /\ prev'[q] = prev[q] /\ journal'[q] = journal[q] /\ parents'[q] = parents[q]
      /\ made'[q] = made[q] /\ phase'[q] = phase[q] /\ outcome'[q] = outcome[q]
      /\ bak'[q] = bak[q] /\ errs'[q] = errs[q]
      /\ sel'[q] = sel[q] /\ want'[q] = want[q] /\ seen'[q] = seen[q]
  BY <1>1, OthersCourse, OthersBackups DEF OthersUntouched
<1>3. SamePlan(q) /\ Ops(q)' = Ops(q) /\ (Moves(q)' <=> Moves(q)) /\ (Late(q)' <=> Late(q))
  BY <1>2, SameOps DEF SamePlan, Late, Past
<1>4. ErrorsCounted(q)'
  <2>1. faults' \in {faults, faults + 1} /\ faults \in Nat
    BY FaultsGrow DEF TypeOK, TypeOfBudget
  <2>2. faults >= 2 => faults' >= 2
    BY <2>1
  <2>3. Littered(q) => Littered(q)'
    BY <1>2, LitterGrows DEF Littered
  <2> QED
    BY <1>2, <1>3, <2>2, <2>3 DEF ErrorsCounted
<1>5. NothingToUndo(q)'
  BY <1>2 DEF NothingToUndo, Past, Reverts
<1>6. ASSUME NEW t \in locked[q], Whole(q, t) PROVE Whole(q, t)'
  <2>1. tree'[fd[q][t]] = tree[fd[q][t]] /\ ns'[fd[q][t]] = ns[fd[q][t]]
    BY <1>1 DEF OwnRootsOnly, LocksHeld, LocksHeldBy, Holds
  <2>2. SeenWhole(q, t)' /\ prev'[q][t] = SeenRecord(q, t)'
    BY <1>2, <1>6 DEF Whole, SeenWhole, SeenRecord
  <2>3. (Gone(q, t)' <=> Gone(q, t)) /\ (Reported(q, t)' <=> Reported(q, t))
    BY <1>2 DEF Gone, Reported
  <2>4. CASE Gone(q, t)
    <3>1. at[t] # fd[q][t] /\ seen[q][t] = AbsentView
      BY <1>6, <2>4 DEF Whole
    <3>2. at'[t] # fd[q][t]
      BY <3>1, GoneStaysGone
    <3> QED
      BY <1>2, <2>2, <2>3, <2>4, <3>1, <3>2 DEF Whole
  <2>5. CASE ~Gone(q, t)
    <3>1. Standing(q, t)
      BY <1>6, <2>5 DEF Whole
    <3>2. at'[t] = at[t]
      BY <1>1, <3>1, OthersRoots DEF Standing
    <3>3. Laid(q, t)'
      <4>1. (Ending(q)' <=> Ending(q)) /\ \A o : Half(q, o)' <=> Half(q, o)
        BY <1>2, <1>3, SameHalves DEF Ending
      <4> QED
        BY <1>2, <1>3, <2>1, <3>1, <4>1, QuietLaid DEF Standing
    <3>4. Standing(q, t)'
      BY <1>2, <2>1, <2>3, <3>1, <3>2, <3>3 DEF Standing, Rec, PutBackOnes
    <3> QED
      BY <2>2, <2>3, <2>5, <3>4 DEF Whole
  <2> QED
    BY <2>4, <2>5
<1>7. Reverts(q)'
  BY <1>2, <1>3, <1>5, <1>6 DEF Reverts
<1> QED
  BY <1>4, <1>7

LEMMA RevertsInit == Init => SInv
BY DEF Init, SInv, SeenAbsent, RemembersFound, ErrorsCounted, Reverts, NothingToUndo, Past, Late,
   Promoting, Early, Preparing

LEMMA RevertsStutter ==
    ASSUME SInv, UNCHANGED vars PROVE SInv'
<1> SUFFICES ASSUME NEW p \in Applies
             PROVE  SeenAbsent(p)' /\ RemembersFound(p)' /\ ErrorsCounted(p)' /\ Reverts(p)'
  BY DEF SInv
<1>1. /\ UNCHANGED <<at, alive, tree, ns, sel, want, seen, pc, phase, left, fd, locked, made, flock>>
      /\ UNCHANGED <<fresh, prev, bak, journal, parents, errs, outcome, faults, litter>>
  BY DEF vars, disk, plan, control, handles, txn, budget
<1>2. SeenAbsent(p) /\ RemembersFound(p) /\ ErrorsCounted(p) /\ Reverts(p)
  BY DEF SInv
<1>3. SeenAbsent(p)' /\ RemembersFound(p)'
  BY <1>1, <1>2 DEF SeenAbsent, First, RemembersFound, Taken, Rec
<1>4. SamePlan(p) /\ Ops(p)' = Ops(p) /\ (Moves(p)' <=> Moves(p)) /\ (Late(p)' <=> Late(p))
  BY <1>1, SameOps DEF SamePlan, Late, Past
<1>5. ErrorsCounted(p)' /\ NothingToUndo(p)'
  BY <1>1, <1>2, <1>4 DEF ErrorsCounted, Littered, Reverts, NothingToUndo, Past
<1>6. ASSUME NEW t, Whole(p, t) PROVE Whole(p, t)'
  <2>1. (Ending(p)' <=> Ending(p)) /\ \A o : Half(p, o)' <=> Half(p, o)
    BY <1>1, <1>4, SameHalves DEF Ending
  <2>2. Laid(p, t) => Laid(p, t)'
    BY <1>1, <1>4, <2>1, QuietLaid
  <2>3. SeenWhole(p, t)' /\ prev'[p][t] = SeenRecord(p, t)' /\ (Gone(p, t)' <=> Gone(p, t))
    BY <1>1, <1>6 DEF Whole, SeenWhole, SeenRecord, Gone, Reported
  <2>4. Standing(p, t) => Standing(p, t)'
    BY <1>1, <2>2 DEF Standing, Rec, PutBackOnes, Reported
  <2> QED
    BY <1>1, <1>6, <2>3, <2>4 DEF Whole
<1> QED
  BY <1>1, <1>2, <1>3, <1>4, <1>5, <1>6 DEF Reverts

LEMMA RevertsNext ==
    ASSUME AllNoted, IInv, RInv, TInv, DInv, BInv, GInv, FailuresAreEarly, SInv, [Next]_vars
    PROVE  SInv'
<1> USE DEF IInv
<1>1. ASSUME NEW p \in Applies, Begin(p) \/ Step(p) \/ Crash(p) PROVE SInv'
  <2>1. envs = 0 /\ \A r \in Applies : Roots(r) /\ Trees(r) /\ Owned(r) /\ BackedUp(r) /\ JournalDone(r)
    BY DEF BInv, TInv, DInv
  <2>2. \A q \in Applies : SeenAbsent(q) /\ RemembersFound(q) /\ ErrorsCounted(q) /\ Reverts(q)
    BY DEF SInv
  <2>3. SeenAbsent(p)' /\ RemembersFound(p)'
    BY <1>1, <2>2, OwnSeen, OwnRemembers
  <2>4. Reverts(p)'
    BY <1>1, <2>1, <2>2, OwnReverts
  <2>5. ErrorsCounted(p)'
    BY <1>1, <2>1, <2>2, OwnErrors
  <2>6. ASSUME NEW q \in Applies \ {p}
        PROVE  SeenAbsent(q)' /\ RemembersFound(q)' /\ ErrorsCounted(q)' /\ Reverts(q)'
    <3>1. RemembersFound(q)'
      BY <1>1, <2>2, OthersRemember
    <3>2. ErrorsCounted(q)' /\ Reverts(q)'
      BY <1>1, <2>1, <2>2, OthersRevert
    <3>3. SeenAbsent(q)'
      <4>1. seen'[q] = seen[q] /\ pc'[q] = pc[q] /\ left'[q] = left[q]
        BY <1>1, StepFrame DEF OthersUntouched
      <4> QED
        BY <2>2, <4>1 DEF SeenAbsent, First
    <3> QED
      BY <3>1, <3>2, <3>3
  <2> QED
    BY <2>3, <2>4, <2>5, <2>6 DEF SInv
<1>2. ~UserStep
  BY DEF UserStep, AllNoted, NoGaps, TypeOK, TypeOfBudget
<1>3. CASE UNCHANGED vars
  BY <1>3, RevertsStutter
<1> QED
  BY <1>1, <1>2, <1>3 DEF Next, Finished

(* A run that has rolled back leaves what it has seen: the record, the      *)
(* recorded links, and everything beside them.                              *)
LEMMA SeenIsThere ==
    ASSUME IInv, Clean, NEW p \in Applies, pc[p] = "release", outcome[p] = "failed",
           NEW t \in locked[p], Whole(p, t), ~Gone(p, t)
    PROVE  AsBefore(p, t)
<1> USE DEF IInv, TypeOK, TypeOfDisk, TypeOfPlan, TypeOfHandles
<1>1. /\ SeenWhole(p, t) /\ prev[p][t] = SeenRecord(p, t) /\ Standing(p, t)
      /\ t \in PutBackOnes(p) /\ Reported(p, t) /\ made[p][t] = NoInode
  BY DEF Whole, Gone, Reported, PutBackOnes
<1> DEFINE i == fd[p][t]
           view == seen[p][t]
<1>2. /\ at[t] = i /\ ns[i].exists /\ view.exists /\ Laid(p, t) /\ ns[i].managed = SeenRecord(p, t)
      /\ RecordReadable(ns[i]) /\ journal[p] = {} /\ t \in sel[p]
  BY <1>1 DEF Standing, Rec
<1>3. t \in Targets /\ i \in Inodes /\ view \in View
  BY DEF LocksHeld, LocksHeldBy, Holds
<1>4. RecordedLinks(ns[i]) = view.entries /\ RecordedCache(ns[i]) = view.cache
  <2>1. CASE view.cache = NoCache
    <3>1. ns[i].managed = NoFile /\ view.entries = NoLinks
      BY <1>1, <1>2, <2>1 DEF SeenRecord, SeenWhole
    <3> QED
      BY <2>1, <3>1 DEF RecordedLinks, RecordedCache, HasRecord
  <2>2. CASE view.cache # NoCache
    <3>1. ns[i].managed = [cache |-> view.cache, entries |-> view.entries]
      BY <1>2, <2>2 DEF SeenRecord
    <3>2. ns[i].managed \in Record
      BY <1>3, <2>2, <3>1 DEF View, Record
    <3> QED
      BY <1>2, <3>1, <3>2, RecordAssumption DEF RecordedLinks, RecordedCache, HasRecord
  <2> QED
    BY <2>1, <2>2
<1>5. ASSUME NEW x \in Artifacts, <<t, x>> \in Ops(p)
      PROVE  IF view.entries[x] = NoSource
             THEN Absent(i, x) /\ want[p][t][x] # NoSource /\ view.unmanaged[x] = Nothing
             ELSE OldLink(p, <<t, x>>)
  <2>1. NotDone(p, <<t, x>>)
    BY <1>2, <1>5, AllUndone, PlannerAssumption
  <2>2. view.entries[x] = NoSource => want[p][t][x] # NoSource
    BY <1>5 DEF Ops, Mutations, Action
  <2>3. want[p][t][x] # NoSource => view.unmanaged[x].kind = "absent"
    BY <1>1 DEF SeenWhole, Blocked, Obstructed, Managed
  <2>4. view.unmanaged[x].kind = "absent" => view.unmanaged[x] = Nothing
    BY <1>1, PlannerAssumption DEF SeenWhole
  <2> QED
    BY <2>1, <2>2, <2>3, <2>4 DEF NotDone, IsNew
<1>6. ASSUME NEW x \in Paths, <<t, x>> \notin Ops(p)
      PROVE  IF x \in Managed(view.entries) THEN OldLink(p, <<t, x>>)
             ELSE [kind |-> tree[i][x].kind, to |-> tree[i][x].to] = view.unmanaged[x]
  BY <1>2, <1>6 DEF Laid, Beside
<1>7. ASSUME NEW x \in Artifacts, x \in Managed(view.entries)
      PROVE  /\ tree[i][x].kind = "link" /\ tree[i][x].to = view.entries[x]
             /\ view.entries[x] \notin Unsafe
  <2>1. OldLink(p, <<t, x>>)
    <3>1. view.entries[x] # NoSource /\ x \in Paths
      BY <1>7, PlannerAssumption DEF Managed
    <3>2. CASE <<t, x>> \in Ops(p)
      BY <1>5, <3>1, <3>2
    <3>3. CASE <<t, x>> \notin Ops(p)
      BY <1>6, <1>7, <3>1, <3>3
    <3> QED
      BY <3>2, <3>3
  <2> QED
    BY <1>1, <1>7, <2>1 DEF OldLink, SeenWhole
<1>8. ASSUME NEW x \in Paths, x \notin Managed(view.entries)
      PROVE  [kind |-> tree[i][x].kind, to |-> tree[i][x].to] = view.unmanaged[x]
  <2>1. CASE <<t, x>> \in Ops(p)
    <3>1. x \in Artifacts /\ view.entries[x] = NoSource
      BY <1>8, <2>1 DEF Ops, Managed
    <3>2. Absent(i, x) /\ view.unmanaged[x] = Nothing
      BY <1>5, <2>1, <3>1
    <3>3. tree[i][x].kind = "absent" /\ tree[i][x].to = NoSource
      BY <1>3, <3>2 DEF Absent, Clean
    <3> QED
      BY <3>2, <3>3 DEF Nothing
  <2> QED
    BY <1>6, <1>8, <2>1
<1>9. ASSUME NEW x \in Managed(view.entries), NEW y \in Above[x] PROVE tree[i][y].kind = "dir"
  <2>1. y \in Paths /\ view.unmanaged[y].kind = "dir"
    BY <1>1, PlannerAssumption DEF SeenWhole, Managed
  <2>2. y \notin Managed(view.entries)
    BY <1>1, <2>1 DEF SeenWhole, Nothing
  <2>3. [kind |-> tree[i][y].kind, to |-> tree[i][y].to].kind = view.unmanaged[y].kind
    BY <1>8, <2>1, <2>2
  <2> QED
    BY <2>1, <2>3
<1>10. Scannable(ns[i], tree[i])
  BY <1>2, <1>4, <1>7, <1>9 DEF Scannable, LinksSound, Managed
<1>11. Unmanaged(view.entries, tree[i]) = view.unmanaged
  <2>1. view.unmanaged \in [Paths -> Shape]
    BY <1>3 DEF View
  <2>2. \A x \in Managed(view.entries) : view.unmanaged[x] = Nothing
    BY <1>1 DEF SeenWhole
  <2>3. \A x \in Paths : Unmanaged(view.entries, tree[i])[x] = view.unmanaged[x]
    BY <1>8, <2>2 DEF Unmanaged
  <2>4. Unmanaged(view.entries, tree[i]) = [x \in Paths |-> Unmanaged(view.entries, tree[i])[x]]
    BY DEF Unmanaged
  <2>5. view.unmanaged = [x \in Paths |-> view.unmanaged[x]]
    BY <2>1
  <2> HIDE DEF view, i
  <2> QED
    BY <2>3, <2>4, <2>5
<1>12. Current(i) = view
  <2>1. view = [exists |-> view.exists, cache |-> view.cache, entries |-> view.entries,
                unmanaged |-> view.unmanaged]
    BY <1>3 DEF View
  <2>2. view.exists = TRUE
    BY <1>2, <1>3 DEF View
  <2> QED
    BY <1>4, <1>11, <2>1, <2>2 DEF Current, Scan
<1> QED
  BY <1>2, <1>10, <1>12 DEF AsBefore

(* What a run leaves that could not carry its plan out.                     *)
Restores(p) ==
    /\ pc[p] = "release" /\ locked[p] = sel[p]
    /\ outcome[p] = "failed" /\ Past(p)
    /\ (faults <= 1 /\ ~Littered(p)) \/ ~errs[p]
    => \A t \in locked[p] : AsBefore(p, t)
RestoredUnlessMoved == \A p \in Applies : ~Moves(p) => Restores(p)

LEMMA RolledBackIsRestored ==
    ASSUME IInv, TInv, BInv, GInv, SInv PROVE RestoredUnlessMoved
<1> SUFFICES ASSUME NEW p \in Applies, ~Moves(p), pc[p] = "release", locked[p] = sel[p],
                    outcome[p] = "failed", Past(p), (faults <= 1 /\ ~Littered(p)) \/ ~errs[p],
                    NEW t \in locked[p]
             PROVE  AsBefore(p, t)
  BY DEF RestoredUnlessMoved, Restores
<1> USE DEF IInv, TypeOK, TypeOfBudget
<1>2. envs = 0 /\ Clean /\ Course(p) /\ ErrorsCounted(p) /\ Reverts(p)
  BY DEF BInv, GInv, TInv, Trees, SInv
<1>3. Late(p)
  BY <1>2 DEF Late, Past, Course, RolledBack, Settled
<1>4. ~errs[p]
  BY <1>2, <1>3 DEF ErrorsCounted
<1>5. Whole(p, t)
  BY <1>2, <1>3, <1>4 DEF Reverts
<1>6. CASE Gone(p, t)
  BY <1>5, <1>6 DEF Whole, AsBefore
<1>7. CASE ~Gone(p, t)
  BY <1>2, <1>5, <1>7, SeenIsThere
<1> QED
  BY <1>6, <1>7

(* Where no users interfere and no error gets between a change and the note *)
(* of it (AllNoted), a run that fails after validation leaves every target  *)
(* as it was scanned, or it reports errors of its rollback: then a second   *)
(* error has struck, or leftovers of a transaction lie in a root it made.   *)
(* This is so whatever other runs do and whoever is killed; but for one     *)
(* kind of plan, those that put a link below the place of another one.      *)
THEOREM RollbacksReturn == ASSUME AllNoted PROVE Spec => []RestoredUnlessMoved
<1>1. Init => /\ IInv /\ RInv /\ TInv /\ DInv /\ BInv
              /\ GInv /\ FailuresAreEarly /\ SInv
  BY InvariantInit, RecordsInit, TreesInit, OwnedInit, BackupsInit, WholeInit, FailuresInit,
     RevertsInit
<1>2. /\ IInv /\ RInv /\ TInv /\ DInv /\ BInv
      /\ GInv /\ FailuresAreEarly /\ SInv /\ [Next]_vars
      => /\ IInv' /\ RInv' /\ TInv' /\ DInv' /\ BInv'
         /\ GInv' /\ FailuresAreEarly' /\ SInv'
  BY InvariantNext, RecordsNext, TreesNext, OwnedNext, BackupsNext, WholeNext, FailuresNext,
     RevertsNext DEF AllNoted
<1>3. IInv /\ TInv /\ BInv /\ GInv /\ SInv => RestoredUnlessMoved
  BY RolledBackIsRestored
<1> QED
  BY <1>1, <1>2, <1>3, PTL DEF Spec

(* Nothing is recorded, desired or remembered where no configuration asks   *)
(* for a link and no record had one at the start.                           *)
THEOREM OnlyUsedPlaces == Spec => [](IInv /\ UInv)
<1>1. Init => IInv /\ UInv
  BY InvariantInit, UsedInit
<1>2. IInv /\ UInv /\ [Next]_vars => IInv' /\ UInv'
  BY InvariantNext, UsedNext
<1> QED
  BY <1>1, <1>2, PTL DEF Spec

(* So if no link is ever asked for, or was recorded, below the place of     *)
(* another one, every rollback leaves the targets as they were scanned.     *)
THEOREM RollbackIsComplete ==
    ASSUME AllNoted, NothingNested PROVE Spec => []RollbackRestores
<1>1. RestoredUnlessMoved /\ IInv /\ UInv => RollbackRestores
  BY NothingMoves DEF RestoredUnlessMoved, Restores, RollbackRestores
<1> QED
  BY <1>1, RollbacksReturn, OnlyUsedPlaces, PTL
=============================================================================
