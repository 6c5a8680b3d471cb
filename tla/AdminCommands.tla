--------------------------- MODULE AdminCommands ---------------------------
(***************************************************************************)
(* Commands that work on one selected CanoKey through the Admin applet:    *)
(* `ckman config`, and the applet resets (commands/config.rs,              *)
(* ckman-core/src/admin.rs).  Most of them are first tried without a PIN   *)
(* and repeated with one when the library or the card asks for it          *)
(* (with_admin_pin_retry).                                                 *)
(***************************************************************************)
EXTENDS CardSelection

CONSTANT MaxTries    \* wrong Admin PINs a card accepts before it blocks

ASSUME AdminAssumption == MaxTries \in Nat \ {0}

VARIABLES
    tries,    \* wrong PINs each CanoKey still accepts
    pin,      \* the PIN of the command: "none", "right" or "wrong"
    spent,    \* wrong PINs this command has used up
    done      \* requests the card has carried out for this command

vars == <<selectionVars, tries, pin, spent, done>>

(* "read" and "write" stand for the config commands and the applet resets;  *)
(* pass-set and info may be given --admin-pin.                              *)
Retrying  == {"read", "write", "pass-set"}
Public    == {"read", "info"}
TakesPin  == {"pass-set", "info"}
Ops       == Retrying \cup {"info", "change-pin", "factory-reset", "list"}

Init ==
    /\ SelectionInit
    /\ tries = [c \in CanoKeys |-> MaxTries]
    /\ pin = "none" /\ spent = 0 /\ done = 0

chosen == targets[target]

Finish ==
    /\ EndSelection
    /\ pin' = "none" /\ spent' = 0 /\ done' = 0

Begin(op, device, named) ==
    /\ Start(op, device, named)
    /\ \E p \in {"none", "right", "wrong"} : (p # "none" => op \in TakesPin) /\ pin' = p
    /\ UNCHANGED <<tries, spent, done>>

Scan ==
    /\ VisitCandidate \/ SelectCandidate \/ VisitNamed \/ VisitListed \/ ShowList
    /\ IF pc' = "idle" THEN pin' = "none" ELSE UNCHANGED pin
    /\ UNCHANGED <<tries, spent, done>>

Environment ==
    /\ \E r \in Readers : Remove(r) \/ \E c \in Cards : Insert(r, c)
    /\ UNCHANGED <<tries, pin, spent, done>>

(* The command reports its result, or ends on a transport failure, an       *)
(* unsupported feature, a declined confirmation, a file it cannot read.     *)
End ==
    /\ pc \notin {"idle", "scan"}
    /\ Finish
    /\ UNCHANGED tries

-----------------------------------------------------------------------------
(* One attempt at the operation. *)

Continue(label) ==
    /\ pc' = label
    /\ UNCHANGED <<inReader, args, left, targets, alive, target, steady, skipped>>

(* Mutant: any failure is taken for a missing PIN.                          *)
AnyFailure == args.op \in Retrying /\ pin = "none"

(* The library or the card refuses for want of a PIN; nothing was done.     *)
NeedsAdminPin == args.op \in Retrying /\ pin = "none" /\ done = 0

Refused ==
    /\ pc \in {"selected", "executed"} /\ NeedsAdminPin
    /\ Continue("prompt")
    /\ UNCHANGED <<tries, pin, spent, done>>

EnterAdminPin ==
    /\ pc = "prompt" \/ (pc = "selected" /\ args.op = "change-pin" /\ pin = "none")
    /\ pin' \in {"right", "wrong"}
    /\ Continue("selected")
    /\ UNCHANGED <<tries, spent, done>>

Verifying == pc = "selected" /\ pin # "none" /\ target \in alive /\ tries[chosen] > 0

VerifyRight ==
    /\ Verifying /\ pin = "right"
    /\ tries' = [tries EXCEPT ![chosen] = MaxTries]
    /\ Continue("verified")
    /\ UNCHANGED <<pin, spent, done>>

(* The one wrong PIN ends the command.                                      *)
VerifyWrong ==
    /\ Verifying /\ pin = "wrong"
    /\ tries' = [tries EXCEPT ![chosen] = @ - 1]
    /\ spent' = spent + 1
    /\ Continue("executed")
    /\ UNCHANGED <<pin, done>>

(* The request runs; its answer may be lost.  `info` goes on to the flash   *)
(* usage, with the same PIN.                                                *)
Execute ==
    /\ target \in alive
    /\ pc = "verified" \/ (pc = "selected" /\ pin = "none" /\ args.op \in Public)
    /\ done' = done + 1
    /\ Continue(IF args.op = "info" /\ done = 0 THEN "selected" ELSE "executed")
    /\ UNCHANGED <<tries, pin, spent>>

(* The card refuses unless its Admin PIN is blocked and it is touched.      *)
FactoryReset ==
    /\ pc = "selected" /\ args.op = "factory-reset"
    /\ target \in alive /\ tries[chosen] = 0
    /\ tries' = [tries EXCEPT ![chosen] = MaxTries]
    /\ done' = done + 1
    /\ Continue("executed")
    /\ UNCHANGED <<pin, spent>>

Next ==
    \/ \E op \in Ops, device \in Serials \cup {None}, named \in (SUBSET Readers) \cup {None} :
          Begin(op, device, named)
    \/ Scan \/ Environment \/ End
    \/ Refused \/ EnterAdminPin \/ VerifyRight \/ VerifyWrong \/ Execute \/ FactoryReset

Spec == Init /\ [][Next]_vars

-----------------------------------------------------------------------------
(* Properties. *)

(* The repeated attempt carries out no operation for the second time, so    *)
(* an attempt whose answer is lost is not repeated; and a command uses up   *)
(* at most one of the card's tries (mod.rs:316, "the user is prompted once  *)
(* and the operation retried").                                             *)
RetriedOnce ==
    /\ done > 1 => args.op = "info"
    /\ spent \in 0 .. 1
=============================================================================
