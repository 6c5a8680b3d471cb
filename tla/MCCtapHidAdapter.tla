-------------------------- MODULE MCCtapHidAdapter --------------------------
(* Three operations with messages of one to four APDUs and one to four     *)
(* reports, the longest one above the CTAPHID limit.                        *)
EXTENDS CtapHidAdapter
CONSTANTS o1, o2, o3

MCBytes == Operations \X (1..7)
MCPayloads == {Message(o, n) : o \in Operations, n \in MessageLens}
=============================================================================
