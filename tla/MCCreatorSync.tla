--------------------------- MODULE MCCreatorSync ---------------------------
(***************************************************************************)
(* Instances of CreatorSync for TLC: a seed of two pages, the partition of *)
(* one page that it is split into, and one of the bucket Very High.        *)
(***************************************************************************)
EXTENDS CreatorSync, TLC

CONSTANTS seed, child, rare

MCLastPage == [p \in Partition |-> IF p = seed THEN 2 ELSE 1]
MCParent   == [p \in Partition |-> IF p = child THEN seed ELSE None]

RunSymmetry == Permutations(Run)

=============================================================================
