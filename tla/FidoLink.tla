------------------------------- MODULE FidoLink -------------------------------
(***************************************************************************)
(* Which authenticator a FIDO command talks to (commands/fido.rs,          *)
(* FidoLink): the FIDO interface of a CanoKey on USB HID is preferred, and *)
(* FIDO over PC/SC, with the selection every other command uses, is what   *)
(* is left.  These are the commands of AdminCommands, and fido.            *)
(*                                                                         *)
(* A HID interface is opened at the path it was listed with; the operating *)
(* system is taken not to give that path to another device in between.     *)
(***************************************************************************)
EXTENDS AdminCommands

CONSTANT HidSerialOf    \* the serial number in a FIDO interface's USB strings, or None

ASSUME LinkAssumption == \A c \in CanoKeys : HidSerialOf[c] \in {None, SerialOf[c]}

VARIABLES
    interfaces,    \* CanoKeys whose FIDO interface was listed, if the command looked
    link           \* the CanoKey the command talks CTAP to

linkVars == <<vars, interfaces, link>>

LinkInit == Init /\ interfaces = {} /\ link = None

Unlinked == UNCHANGED <<interfaces, link>>

-----------------------------------------------------------------------------
(* HID. *)

(* Mutant: the only interface is taken for the device asked for.            *)
ListAnyInterface(device) ==
    /\ interfaces' \in SUBSET CanoKeys
    /\ pc' = "hid"
    /\ UNCHANGED <<inReader, left, targets, alive, target, steady, skipped>>

(* Listing the interfaces may fail, which is the same as finding none.      *)
ListInterfaces(device) ==
    /\ interfaces' \in SUBSET {c \in CanoKeys : device # None => HidSerialOf[c] = device}
    /\ pc' = "hid"
    /\ UNCHANGED <<inReader, left, targets, alive, target, steady, skipped>>

(* `fido info --admin-pin` reads the SM2 configuration, and --reader names  *)
(* a reader: both want PC/SC.                                               *)
BeginFido(device, named) ==
    /\ \E p \in {"none", "right", "wrong"} :
          /\ pin' = p
          /\ Arguments(IF p = "none" THEN "fido" ELSE "fido-info", device, named)
          /\ IF p # "none" \/ named # None
             THEN ListReaders /\ UNCHANGED interfaces
             ELSE ListInterfaces(device)
    /\ UNCHANGED <<tries, spent, done, link>>

OpenHid ==
    /\ pc = "hid"
    /\ \E c \in interfaces : interfaces = {c} /\ link' = c
    /\ pc' = "linked"
    /\ UNCHANGED <<inReader, args, left, targets, alive, target, steady, skipped>>
    /\ UNCHANGED <<tries, pin, spent, done, interfaces>>

(* No interface, or with --device not one; or, without --device, the one    *)
(* interface cannot be opened or does not speak CTAP2.                      *)
FallBack ==
    /\ pc = "hid"
    /\ IF args.device # None THEN \A c \in interfaces : interfaces # {c}
       ELSE \A c, d \in interfaces : c = d
    /\ interfaces' = {}
    /\ ListReaders
    /\ UNCHANGED <<args, tries, pin, spent, done, link>>

-----------------------------------------------------------------------------
(* PC/SC: the card selected, and for `fido info --admin-pin` the very       *)
(* connection that read the SM2 configuration.                              *)

LinkPcsc ==
    /\ \/ args.op = "fido" /\ pc = "selected"
       \/ args.op = "fido-info" /\ pc = "executed" /\ done = 1
    /\ link' = chosen
    /\ Continue("linked")
    /\ UNCHANGED <<tries, pin, spent, done, interfaces>>

(* The command is done, or fails, or several interfaces were found.         *)
EndLink ==
    /\ pc \notin {"idle", "scan"}
    /\ Finish
    /\ interfaces' = {} /\ link' = None
    /\ UNCHANGED tries

-----------------------------------------------------------------------------
LinkNext ==
    \/ \E op \in Ops, device \in Serials \cup {None}, named \in (SUBSET Readers) \cup {None} :
          Begin(op, device, named) /\ Unlinked
    \/ \E device \in Serials \cup {None}, named \in (SUBSET Readers) \cup {None} :
          BeginFido(device, named)
    \/ OpenHid \/ FallBack \/ LinkPcsc \/ EndLink
    \/ (Scan \/ Environment) /\ Unlinked
    \/ (Refused \/ EnterAdminPin \/ VerifyRight \/ VerifyWrong \/ Execute \/ FactoryReset)
          /\ Unlinked

LinkSpec == LinkInit /\ [][LinkNext]_linkVars

-----------------------------------------------------------------------------
(* fido.rs:336, "never silently pick another device": the link leads to a   *)
(* CanoKey with the serial number asked for, whichever way it was reached;  *)
(* over PC/SC to the card selected, which is also the one whose SM2         *)
(* configuration was read; and, when nothing was asked for, to the only one *)
(* that had a FIDO interface.                                               *)
LinkAsAsked ==
    link # None =>
        /\ args.device # None => SerialOf[link] = args.device
        /\ target # None => link = targets[target]
        /\ target = None => interfaces = {link}
=============================================================================
