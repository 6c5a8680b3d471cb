--------------------------- MODULE MCPreparedFile ---------------------------
(* An ordinary and a secret output with one destination, and three          *)
(* temporary names so that both can collide and still finish.               *)
EXTENDS PreparedFile
CONSTANTS plain, secret, n1, n2, n3

MCWriters == {plain, secret}
MCNames   == {n1, n2, n3}
=============================================================================
