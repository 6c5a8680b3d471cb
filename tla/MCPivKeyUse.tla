---------------------------- MODULE MCPivKeyUse ----------------------------
(* Two ordinary slots whose output paths lead to two files or to one, F9,    *)
(* and one key more than a batch generates.                                  *)
EXTENDS PivKeyUse
CONSTANTS s9a, s9c, f9, fileA, fileC, k1, k2, k3

MCSlots   == {s9a, s9c, f9}
MCBatches == {<<s9a, s9c>>, <<s9c, s9c>>, <<>>}
MCFiles   == {fileA, fileC}
\* Two files, or symbolic links to one.
MCPathMaps == {[s \in MCSlots |-> IF s = s9c THEN fileC ELSE fileA],
               [s \in MCSlots |-> fileA]}
MCKeys    == {k1, k2, k3}

KeySymmetry == Permutations(MCKeys)
=============================================================================
