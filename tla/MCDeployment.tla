---------------------------- MODULE MCDeployment ----------------------------
(***************************************************************************)
(* An instance of Deployment: a root with its ignore file, and two skills,  *)
(* the first of which has a second file.                                    *)
(***************************************************************************)
EXTENDS DeploymentProperties, TLC

CONSTANTS ignore, f1, m1, m2, d1, d2, x, y, t1, t2

MCIn == ignore :> Root @@ f1 :> d1 @@ m1 :> d1 @@ m2 :> d2
MCRank == ignore :> 1 @@ d1 :> 2 @@ f1 :> 3 @@ m1 :> 4 @@ d2 :> 5 @@ m2 :> 6
MCManifest == d1 :> m1 @@ d2 :> m2

(* As an ignore file, y hides the first skill; as a manifest, x and y are   *)
(* names.                                                                   *)
MCHides == x :> {} @@ y :> {d1, f1, m1}
MCNameOf == x :> x @@ y :> y

MCFirstTrees == {ignore :> x @@ f1 :> x @@ m1 :> x @@ m2 :> y}
Wide == [pool |-> {d1, d2}, grants |-> [t \in Targets |-> IF t = t1 THEN {d1, d2} ELSE {d1}]]
Narrow == [pool |-> {d2}, grants |-> [t \in Targets |-> IF t = t1 THEN {d2} ELSE {}]]
MCPolicies == {Wide, Narrow}
MCFirstPolicies == {Wide}

Symmetry == Permutations(Applies)
=============================================================================
