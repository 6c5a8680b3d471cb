------------------------------ MODULE MCOpenPgp ------------------------------
(***************************************************************************)
(* One slot at a time is enough for the order of checks and writes; the    *)
(* passwords are the two defaults, of which the PIN is too short for an    *)
(* Admin PIN, and one that fits both.                                      *)
(***************************************************************************)
EXTENDS OpenPgp

MCLength == [p \in Passwords |->
    CASE p = "123456" -> 6 [] p = "12345678" -> 8 [] p = "abcdefgh" -> 8]
MCRetryCounts == {[r \in References |-> 1], [r \in References |-> IF r = "Pw3" THEN 2 ELSE 1]}
=============================================================================
