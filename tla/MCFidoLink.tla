----------------------------- MODULE MCFidoLink -----------------------------
(* Two readers; two CanoKeys that report the same serial number, one with  *)
(* another, and a card that is no CanoKey.  One of the first two runs      *)
(* firmware whose USB strings do not have the serial number.               *)
EXTENDS FidoLink

CONSTANTS c1, c2, c3, other, s1, s2

MCReaders  == 1 .. 2
MCCards    == {c1, c2, c3, other}
MCCanoKeys == {c1, c2, c3}
MCSerials  == {s1, s2}
MCSerialOf == [c \in MCCanoKeys |-> IF c = c3 THEN s2 ELSE s1]
MCHidSerialOf == [c \in MCCanoKeys |-> IF c = c2 THEN None ELSE MCSerialOf[c]]
=============================================================================
