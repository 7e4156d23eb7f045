--------------------------- MODULE MCVerification ---------------------------
(***************************************************************************)
(* An instance of Verification: two delegations, of which the second       *)
(* commit removes one.                                                     *)
(***************************************************************************)
EXTENDS VerificationProperties, TLC

CONSTANTS v1, v2, d1, d2, a, b, h1, h2

MCFileRank == [f \in Files |-> IF f = d1 THEN 1 ELSE 2]

MCBlobs == [h \in Commits |-> [f \in Files |-> IF h = h2 /\ f = d2 THEN NoContent ELSE a]]

(* The name of one receipt without a commit is taken by something else.    *)
MCSpoiled == {[config |-> [f \in Files |-> IF f = d2 THEN NoContent ELSE a], commit |-> NoCommit]}

Symmetry == Permutations(Verifiers)
=============================================================================
