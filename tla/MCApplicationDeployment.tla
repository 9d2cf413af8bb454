----------------------- MODULE MCApplicationDeployment -----------------------
(* Bounded instances of ApplicationDeployment. *)
EXTENDS ApplicationDeployment, TLC

Symmetry == Permutations(Workers)

(* Bound: behaviors in which things go wrong in more than one way are cut. *)
OneKindOfTrouble == Cardinality(trouble) <= 1
==============================================================================
