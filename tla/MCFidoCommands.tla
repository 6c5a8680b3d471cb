--------------------------- MODULE MCFidoCommands ---------------------------
(* Two credentials with a user name and a display name of two values each,  *)
(* and two PINs one of which a raised minimum excludes.                      *)
EXTENDS FidoCommands, TLC
CONSTANTS c1, c2, short, long

MCPinLength == [p \in {short, long} |-> IF p = short THEN 4 ELSE 6]
(* Always-UV, the long touch and the blobs are in no guard and no property.  *)
MCView == <<users, unmade, pin, minimum, token, command>>
MCSymmetry == Permutations({c1, c2})
=============================================================================
