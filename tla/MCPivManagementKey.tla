------------------------- MODULE MCPivManagementKey -------------------------
(* Bounds for model checking PivManagementKey: two chosen keys beside the   *)
(* default one, two PINs, two salts, two recovery files.                    *)
EXTENDS PivManagementKey, TLC

CONSTANTS k1, k2, p2
MCChosenKeys == {DefaultKey, k1, k2}
MCPins == {DefaultPin, p2}

\* Nothing tells two generated keys, two salts or two file names apart.
MCSymmetry == Permutations({k1, k2}) \cup Permutations(Salts) \cup Permutations(Paths)
=============================================================================
