---------------------------- MODULE MCReconciler ----------------------------
(* Small instances of Reconciler for TLC.                                   *)
EXTENDS ReconcilerProperties, ReconcilerRefinement, TLC

CONSTANTS p1, p2, t1, t2, i1, i2, v1, v2, w1, cacheA, cacheB

(* s is a source id, s/a an artifact of it, s/a/b one nested below s/a.     *)
MCPaths == {"s", "s/a", "s/a/b"}
MCArtifacts == {"s/a", "s/a/b"}
MCAbove == [x \in MCPaths |-> CASE x = "s" -> {} [] x = "s/a" -> {"s"} [] OTHER -> {"s", "s/a"}]
MCPathRank == [x \in MCPaths |-> CASE x = "s" -> 1 [] x = "s/a" -> 2 [] OTHER -> 3]
MCCacheOf == [s \in {v1, v2, w1} |-> IF s = w1 THEN cacheB ELSE cacheA]
MCTargetRank == [t \in Targets |-> IF t = t1 THEN 1 ELSE 2]
MCIdRank == [t \in Targets |-> IF t = t1 THEN 2 ELSE 1]
MCHome == [t \in Targets |-> IF t = t1 THEN i1 ELSE i2]
MCMakers == Applies \cup {"init", "env", "racer"}

OneAuthority == [p \in Applies |-> cacheA]
TwoAuthorities == [p \in Applies |-> IF p = p1 THEN cacheA ELSE cacheB]

(* Home, the only constant that tells inodes apart, is used by Init alone,  *)
(* so permuting inodes maps behaviours to behaviours.                       *)
Symmetry == Permutations(Applies) \cup Permutations(Inodes)
InodeSymmetry == Permutations(Inodes)

(* What a target may hold: no root, a root without a manager, a root that   *)
(* an earlier run converged, with only the directories its links need.      *)
Link(x, s) == [NoLinks EXCEPT ![x] = s]
Old(kind, s) == [kind |-> kind, to |-> s, by |-> "init"]
Holding(links) == [x \in MCPaths |->
    CASE x \in Managed(links) -> Old("link", links[x])
      [] \E y \in Managed(links) : x \in MCAbove[y] -> Old("dir", NoSource)
      [] OTHER -> Hole]
Missing == [present |-> FALSE, ns |-> NoNamespace, nodes |-> EmptyTree]
Bare == [present |-> TRUE, ns |-> NoNamespace, nodes |-> EmptyTree]
Managing(cache, links) ==
    [present |-> TRUE,
     ns |-> [exists |-> TRUE, managed |-> [cache |-> cache, entries |-> links], failure |-> FALSE],
     nodes |-> Holding(links)]
AllOver(links) == [t \in Targets |-> links]

RacePriors == {Missing, Managing(cacheA, Link("s/a", v1))}
RaceConfigs == {AllOver(Link("s/a", v2)), AllOver(Link("s/a/b", v1)), AllOver(NoLinks)}

FaultPriors == {Missing, Bare, Managing(cacheA, Link("s/a", v1))}
FaultConfigs == {AllOver(Link("s/a", v2)), AllOver(NoLinks)}

LiveConfigs == {AllOver(Link("s/a", v2))}

RefinePriors == FaultPriors \ {Missing}

UserPriors == {Bare, Managing(cacheA, Link("s/a", v1))}
UserConfigs == {AllOver(Link("s/a", v2)), AllOver(Link("s/a", w1)), AllOver(NoLinks)}

AbsentPriors == {Missing}
BarePriors == {Bare}
NestedPriors == {Managing(cacheA, Link("s/a", v1))}
NestedConfigs == {AllOver(Link("s/a/b", v1))}
=============================================================================
