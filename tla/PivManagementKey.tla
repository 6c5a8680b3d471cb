-------------------------- MODULE PivManagementKey --------------------------
(***************************************************************************)
(* The life of the PIV management key: `ckman piv access ...` and          *)
(* `ckman piv reset` (commands/piv.rs, commands/piv_recovery.rs) driving   *)
(* the multi-command operations of ckman-core's piv.rs against one card.   *)
(*                                                                         *)
(* A command holds an exclusive connection from start to end, so commands  *)
(* never interleave; what makes them hard is that each is a sequence of    *)
(* card commands, none of which is undone when a later one fails.  Every   *)
(* card command is exchanged once (execute): its response can be lost      *)
(* after the card has applied it, and the process can die at any point.    *)
(*                                                                         *)
(* A key is an opaque value: chosen (typed or generated) or derived from a *)
(* PIN and a salt; PBKDF2 is the pair itself, that is, collision-free.     *)
(***************************************************************************)
EXTENDS Naturals, FiniteSets

CONSTANTS
    ChosenKeys,       \* management keys typed or generated, the default one too
    DefaultKey,       \* the factory management key
    Pins,             \* PINs
    DefaultPin,       \* the factory PIN
    Salts,            \* derivation salts
    Paths,            \* recovery file names
    NoKey, NoPin, NoSalt, NoFile, NoPath

Derived(p, s) == <<p, s>>
DerivedKeys == Pins \X Salts
Keys == ChosenKeys \cup DerivedKeys

ASSUME KeyAssumption ==
    /\ DefaultKey \in ChosenKeys
    /\ NoKey \notin Keys
    /\ ChosenKeys \cap DerivedKeys = {}
ASSUME PinAssumption ==
    /\ DefaultPin \in Pins
    /\ NoPin \notin Pins
    /\ NoSalt \notin Salts
ASSUME FileAssumption ==
    /\ NoPath \notin Paths
    /\ NoFile \notin [key : Keys, protect : BOOLEAN]

VARIABLES
    \* The card.
    mgmtKey,     \* the active management key
    pin,         \* the PIN
    pukBlocked,  \* the PUK has no retries left
    admin,       \* ADMIN DATA (5FFF00), a missing object being the default
    printed,     \* the key in PRINTED (5FC109), NoKey when missing or empty
    \* The host.
    pc, job, result,
    recovery,    \* recovery files on disk
    known        \* management keys the user has typed or been shown

\* History, which only properties read: the PIN commands that have changed on
\* the card what ADMIN DATA says of it and have not rewritten ADMIN DATA.
VARIABLE behind

card == <<mgmtKey, pin, pukBlocked, admin, printed>>
host == <<pc, job, result>>
vars == <<card, host, recovery, known, behind>>

PivmanData == [puk_blocked : BOOLEAN, stored_key : BOOLEAN,
               salt : Salts \cup {NoSalt}]
NoPivman == [puk_blocked |-> FALSE, stored_key |-> FALSE, salt |-> NoSalt]
RecoveryFile == [key : Keys, protect : BOOLEAN]

has_derived_key(data) == data.salt # NoSalt

(***************************************************************************)
(* What a command remembers between its card commands.  "explicit" is the  *)
(* -m option, "access" the key resolve_management settled on, "pin" the    *)
(* PIN the command carries, "pivman" its copy of ADMIN DATA, "copy" the    *)
(* key it found in PRINTED, "again" set-retries' second key resolution.    *)
(***************************************************************************)
Jobs == [op : {"none", "change_key", "set_retries", "change_pin", "unblock_pin"},
         newKey : Keys \cup {NoKey}, protect : BOOLEAN,
         explicit : Keys \cup {NoKey}, access : Keys \cup {NoKey},
         pin : Pins \cup {NoPin}, newPin : Pins \cup {NoPin},
         pivman : PivmanData, copy : Keys \cup {NoKey},
         path : Paths \cup {NoPath}, again : BOOLEAN]
NoJob == [op |-> "none", newKey |-> NoKey, protect |-> FALSE,
          explicit |-> NoKey, access |-> NoKey, pin |-> NoPin, newPin |-> NoPin,
          pivman |-> NoPivman, copy |-> NoKey, path |-> NoPath, again |-> FALSE]

KeySteps == {"save", "inspect", "replace", "store", "publish", "block", "cleanup"}
RetrySteps == {"reset", "reread", "clear"}
PinSteps == {"read", "repin", "verify", "rotate", "resalt"}
Active == KeySteps \cup RetrySteps \cup PinSteps \cup {"check", "resolve", "unblock"}

CardTypeOK ==
    /\ mgmtKey \in Keys
    /\ pin \in Pins
    /\ pukBlocked \in BOOLEAN
    /\ admin \in PivmanData
    /\ printed \in Keys \cup {NoKey}
HostTypeOK ==
    /\ pc \in Active \cup {"idle", "ended"}
    /\ job \in Jobs
    /\ result \in {"none", "ok", "refused", "failed"}
UserTypeOK ==
    /\ recovery \in [Paths -> RecoveryFile \cup {NoFile}]
    /\ known \subseteq ChosenKeys
HistoryTypeOK == behind \subseteq {"change_pin", "set_retries"}
TypeOK == CardTypeOK /\ HostTypeOK /\ UserTypeOK /\ HistoryTypeOK

-----------------------------------------------------------------------------
(* Cards a user may plug in. *)

FactoryCard ==
    /\ mgmtKey = DefaultKey
    /\ admin = NoPivman
    /\ printed = NoKey

\* A card provisioned with a PIN-derived key (the deprecated scheme).
DerivedCard == \E s \in Salts :
    /\ mgmtKey = Derived(pin, s)
    /\ admin = [NoPivman EXCEPT !.salt = s]
    /\ printed = NoKey

\* A stored key recorded without the PUK-blocked claim.
LegacyStoredCard == \E k \in ChosenKeys :
    /\ mgmtKey = k
    /\ admin = [NoPivman EXCEPT !.stored_key = TRUE]
    /\ printed = k

Init ==
    /\ pin = DefaultPin
    /\ pukBlocked = FALSE
    /\ FactoryCard \/ DerivedCard \/ LegacyStoredCard
    /\ pc = "idle"
    /\ job = NoJob
    /\ result = "none"
    /\ recovery = [p \in Paths |-> NoFile]
    /\ known = {DefaultKey}
    /\ behind = {}

-----------------------------------------------------------------------------
(* Running a command. *)

Start(next, locals) ==
    /\ pc = "idle"
    /\ pc' = next
    /\ job' = locals
    /\ result' = "none"

Goto(next, locals) == pc' = next /\ job' = locals /\ result' = result

End(outcome) == pc' = "ended" /\ result' = outcome /\ job' = job

\* One card command, exchanged once.  An accepted command takes effect, and
\* then either the command goes on or the response is lost and it fails.
Exchange(accepted, effect, goOn) ==
    \/ accepted /\ effect /\ goOn
    \/ accepted /\ effect /\ End("failed")
    \/ ~accepted /\ UNCHANGED card /\ End("refused")

\* A card command that changes nothing on the card; its loss is Interrupt.
Query(accepted, goOn) ==
    /\ UNCHANGED card
    /\ (accepted /\ goOn) \/ (~accepted /\ End("refused"))

\* Mutant: a Drop that cleans up the recovery file of a failed update.
InterruptDroppingFile ==
    /\ pc \in Active
    /\ End("failed")
    /\ recovery' = [p \in Paths |-> IF p = job.path THEN NoFile ELSE recovery[p]]
    /\ UNCHANGED <<card, known>>

\* The process is killed, the connection drops before the card has applied
\* the command, the card answers an unrelated error, or host I/O fails.
Interrupt ==
    /\ pc \in Active
    /\ End("failed")
    /\ UNCHANGED <<card, recovery, known>>

Return ==
    /\ pc = "ended"
    /\ pc' = "idle"
    /\ job' = NoJob
    /\ result' = "none"
    /\ UNCHANGED <<card, recovery, known>>

-----------------------------------------------------------------------------
(* Resolving the management key: -m wins, then a stored key, then a derived *)
(* key, then a prompt.  Only change-management-key --protect completes an   *)
(* unfinished protection on the way.                                        *)

FileKeys == {recovery[p].key : p \in {q \in Paths : recovery[q] # NoFile}}
UserKeys == known \cup FileKeys

\* Mutant: every key change completes protection, asked for or not.
CompleteAlways == job.op = "change_key"

CompleteProtection == job.op = "change_key" /\ job.protect

StepAfterResolve == IF job.op = "change_key" THEN "save"
                    ELSE IF job.again THEN "clear" ELSE "reset"
AfterResolve(access, p) ==
    Goto(StepAfterResolve, [job EXCEPT !.access = access, !.pin = p])

\* The PIN a command carries when the key was found without it: prompted for
\* by set-retries and by --protect, otherwise none.
PromptedPins == IF job.op = "set_retries" \/ job.protect THEN Pins ELSE {NoPin}

\* libcanokey's pin_managed: the stored key, after it has authenticated.
\* Whether it tolerates a live PUK when it may not block it is the library's
\* business, and left open.
PinManaged(p) ==
    /\ p = pin
    /\ admin.stored_key
    /\ admin.puk_blocked
    /\ printed = mgmtKey

ResolveExplicit ==
    /\ job.explicit # NoKey
    /\ \E p \in PromptedPins : AfterResolve(job.explicit, p)
    /\ UNCHANGED card

StoredKeyClaimed == job.explicit = NoKey /\ admin.stored_key

\* --protect on a stored key without the PUK claim: read it, so that
\* set_management_key_synced adds the claim.
ResolveLegacyStored(p) ==
    /\ StoredKeyClaimed
    /\ CompleteProtection
    /\ ~admin.puk_blocked
    /\ Query(p = pin /\ printed # NoKey, AfterResolve(printed, p))

\* --protect on a protected key: complete_pin_managed_key, which blocks a PUK
\* that still has retries.
ResolveCompleting(p) ==
    /\ StoredKeyClaimed
    /\ CompleteProtection
    /\ admin.puk_blocked
    /\ Exchange(PinManaged(p),
                pukBlocked' = TRUE /\ UNCHANGED <<mgmtKey, pin, admin, printed>>,
                AfterResolve(printed, p))

\* Otherwise pin_managed_key, which never blocks it.
ResolveStored(p) ==
    /\ StoredKeyClaimed
    /\ ~CompleteProtection
    /\ \E tolerated \in BOOLEAN :
          Query(PinManaged(p) /\ (pukBlocked \/ tolerated), AfterResolve(printed, p))

ResolveDerived(p) ==
    /\ job.explicit = NoKey
    /\ ~admin.stored_key
    /\ has_derived_key(admin)
    /\ AfterResolve(Derived(p, admin.salt), p)
    /\ UNCHANGED card

ResolvePrompt(k) ==
    /\ job.explicit = NoKey
    /\ ~admin.stored_key
    /\ ~has_derived_key(admin)
    /\ \E p \in PromptedPins : AfterResolve(k, p)
    /\ UNCHANGED card

ResolveManagement ==
    /\ pc = "resolve"
    /\ \/ ResolveExplicit
       \/ \E p \in Pins : \/ ResolveLegacyStored(p) \/ ResolveCompleting(p)
                          \/ ResolveStored(p) \/ ResolveDerived(p)
       \/ \E k \in UserKeys : ResolvePrompt(k)
    /\ UNCHANGED <<recovery, known>>

-----------------------------------------------------------------------------
(* change-management-key: save the new key, then set_management_key_synced. *)

\* The new key is typed, generated and shown, or (with --protect) generated
\* and shown to nobody.
ChangeManagementKey(k, protect, hidden, explicit) ==
    /\ hidden => protect
    /\ Start("resolve", [NoJob EXCEPT !.op = "change_key", !.newKey = k,
                                      !.protect = protect, !.explicit = explicit])
    /\ known' = IF hidden THEN known ELSE known \cup {k}
    /\ UNCHANGED <<card, recovery>>

\* Mutant: an existing file at the requested path is taken for this update's.
SaveRecoveryFileReusing ==
    /\ pc = "save"
    /\ \E p \in Paths :
        /\ recovery' = [recovery EXCEPT ![p] = IF @ # NoFile THEN @
                           ELSE [key |-> job.newKey, protect |-> job.protect]]
        /\ Goto("inspect", [job EXCEPT !.path = p])
    /\ UNCHANGED <<card, known>>

\* ManagementKeyRecovery::create never overwrites a file, and syncs the new
\* one to disk before it returns.
SaveRecoveryFile ==
    /\ pc = "save"
    /\ \E p \in Paths :
        \/ /\ recovery[p] = NoFile
           /\ recovery' = [recovery EXCEPT ![p] =
                              [key |-> job.newKey, protect |-> job.protect]]
           /\ Goto("inspect", [job EXCEPT !.path = p])
        \/ /\ recovery[p] # NoFile
           /\ End("refused")
           /\ UNCHANGED recovery
    /\ UNCHANGED <<card, known>>

\* Read ADMIN DATA and, when protection is wanted or claimed, PRINTED.
NeedsPrinted == job.protect \/ admin.stored_key

InspectProtection ==
    /\ pc = "inspect"
    /\ Query(NeedsPrinted => job.pin = pin,
             Goto("replace", [job EXCEPT !.pivman = admin,
                      !.copy = IF NeedsPrinted THEN printed ELSE NoKey]))
    /\ UNCHANGED <<recovery, known>>

\* Mutant: an old stored-key claim survives the removal of protection.
UpdatedKeepingClaim ==
    [puk_blocked |-> job.protect \/ job.pivman.puk_blocked,
     stored_key |-> job.protect \/ job.pivman.stored_key, salt |-> NoSalt]

Updated == [puk_blocked |-> job.protect \/ job.pivman.puk_blocked,
            stored_key |-> job.protect, salt |-> NoSalt]

\* Mutant: the PUK is left live once its blocking has been published.
StepAfterPublishUnblocked == "cleanup"

StepAfterPublish == IF job.protect THEN "block" ELSE "cleanup"
StepAfterStore == IF Updated # job.pivman THEN "publish" ELSE StepAfterPublish
StepAfterReplace == IF job.protect \/ job.copy # NoKey THEN "store" ELSE StepAfterStore

ReplaceKey ==
    /\ pc = "replace"
    /\ Exchange(job.access = mgmtKey,
                mgmtKey' = job.newKey /\ UNCHANGED <<pin, pukBlocked, admin, printed>>,
                Goto(StepAfterReplace, job))
    /\ UNCHANGED <<recovery, known>>

StoreProtectedKey ==
    /\ pc = "store"
    /\ Exchange(job.pin = pin /\ job.newKey = mgmtKey,
                /\ printed' = IF job.protect THEN job.newKey ELSE NoKey
                /\ UNCHANGED <<mgmtKey, pin, pukBlocked, admin>>,
                Goto(StepAfterStore, job))
    /\ UNCHANGED <<recovery, known>>

UpdateMetadata ==
    /\ pc = "publish"
    /\ Exchange(job.newKey = mgmtKey,
                admin' = Updated /\ UNCHANGED <<mgmtKey, pin, pukBlocked, printed>>,
                Goto(StepAfterPublish, job))
    /\ UNCHANGED <<recovery, known>>

ProtectPuk ==
    /\ pc = "block"
    /\ Exchange(PinManaged(job.pin),
                pukBlocked' = TRUE /\ UNCHANGED <<mgmtKey, pin, admin, printed>>,
                Goto("cleanup", job))
    /\ UNCHANGED <<recovery, known>>

\* Removing the recovery file may fail, which is only a warning.
RemoveRecoveryFile ==
    /\ pc = "cleanup"
    /\ recovery' \in {recovery, [recovery EXCEPT ![job.path] = NoFile]}
    /\ End("ok")
    /\ UNCHANGED <<card, known>>

-----------------------------------------------------------------------------
(* set-retries and unblock-pin, which both replace the PIN without knowing  *)
(* whether a key is derived from it, unless they check first.               *)

SetRetries(explicit) ==
    /\ Start("check", [NoJob EXCEPT !.op = "set_retries", !.explicit = explicit])
    /\ UNCHANGED <<card, recovery, known>>

\* Mutant: the new PIN never reaches the command.
UnblockPinWithoutNew(new) ==
    /\ Start("check", [NoJob EXCEPT !.op = "unblock_pin"])
    /\ UNCHANGED <<card, recovery, known>>

UnblockPin(new) ==
    /\ Start("check", [NoJob EXCEPT !.op = "unblock_pin", !.newPin = new])
    /\ UNCHANGED <<card, recovery, known>>

\* Mutant: a PIN reset does not look for a derived key.
PinResetAlwaysSafe(data) == TRUE

PinResetSafe(data) == ~has_derived_key(data)

EnsurePinResetSafe ==
    /\ pc = "check"
    /\ Query(PinResetSafe(admin),
             Goto(IF job.op = "set_retries" THEN "resolve" ELSE "unblock", job))
    /\ UNCHANGED <<recovery, known>>

\* RESET RETRY COUNTERS: PIN and PUK return to their factory values.
ResetRetries ==
    /\ pc = "reset"
    /\ Exchange(job.pin = pin /\ job.access = mgmtKey,
                /\ pin' = DefaultPin
                /\ pukBlocked' = FALSE
                /\ UNCHANGED <<mgmtKey, admin, printed>>,
                Goto("reread", job))
    /\ UNCHANGED <<recovery, known>>

\* A claim that the PUK is blocked is now false: resolve the management key
\* once more, this time asking for the PIN again, and clear the claim.
RereadPivman ==
    /\ pc = "reread"
    /\ UNCHANGED card
    /\ \/ admin.puk_blocked /\ Goto("resolve",
              [job EXCEPT !.pivman = [admin EXCEPT !.puk_blocked = FALSE],
                          !.again = TRUE])
       \/ ~admin.puk_blocked /\ End("ok")
    /\ UNCHANGED <<recovery, known>>

ClearPukClaim ==
    /\ pc = "clear"
    /\ Exchange(job.access = mgmtKey,
                admin' = job.pivman /\ UNCHANGED <<mgmtKey, pin, pukBlocked, printed>>,
                End("ok"))
    /\ UNCHANGED <<recovery, known>>

\* A wrong PUK costs a retry, the last one blocks it.
WrongPuk ==
    /\ pukBlocked' \in {pukBlocked, TRUE}
    /\ UNCHANGED <<mgmtKey, pin, admin, printed>>
    /\ End("refused")

ResetPinWithPuk ==
    /\ pc = "unblock"
    /\ \/ Exchange(~pukBlocked,
                   pin' = job.newPin /\ UNCHANGED <<mgmtKey, pukBlocked, admin, printed>>,
                   End("ok"))
       \/ WrongPuk
    /\ UNCHANGED <<recovery, known>>

\* change-puk is one card command; the value of the PUK is not modelled.
ChangePuk ==
    /\ pc = "idle"
    /\ pukBlocked' \in {pukBlocked, TRUE}
    /\ UNCHANGED <<mgmtKey, pin, admin, printed, host, recovery, known>>

-----------------------------------------------------------------------------
(* change-pin: change_pin_synced. *)

ChangePin(old, new) ==
    /\ Start("read", [NoJob EXCEPT !.op = "change_pin", !.pin = old, !.newPin = new])
    /\ UNCHANGED <<card, recovery, known>>

\* Read ADMIN DATA; with a derived key, authenticate it before any change and
\* draw the new salt.
ReadBeforePinChange ==
    /\ pc = "read"
    /\ \/ /\ ~has_derived_key(admin)
          /\ Goto("repin", [job EXCEPT !.pivman = admin])
          /\ UNCHANGED card
       \/ /\ has_derived_key(admin)
          /\ \E s \in Salts \ {admin.salt} :
               Query(Derived(job.pin, admin.salt) = mgmtKey,
                     Goto("repin", [job EXCEPT
                            !.pivman = [admin EXCEPT !.salt = s],
                            !.access = Derived(job.pin, admin.salt),
                            !.newKey = Derived(job.newPin, s)]))
    /\ UNCHANGED <<recovery, known>>

ChangeCardPin ==
    /\ pc = "repin"
    /\ Exchange(job.pin = pin,
                pin' = job.newPin /\ UNCHANGED <<mgmtKey, pukBlocked, admin, printed>>,
                IF has_derived_key(job.pivman) THEN Goto("verify", job) ELSE End("ok"))
    /\ UNCHANGED <<recovery, known>>

VerifyNewPin ==
    /\ pc = "verify"
    /\ Query(job.newPin = pin, Goto("rotate", job))
    /\ UNCHANGED <<recovery, known>>

RotateDerivedKey ==
    /\ pc = "rotate"
    /\ Exchange(job.access = mgmtKey,
                mgmtKey' = job.newKey /\ UNCHANGED <<pin, pukBlocked, admin, printed>>,
                Goto("resalt", job))
    /\ UNCHANGED <<recovery, known>>

WriteNewSalt ==
    /\ pc = "resalt"
    /\ Exchange(job.newKey = mgmtKey,
                admin' = job.pivman /\ UNCHANGED <<mgmtKey, pin, pukBlocked, printed>>,
                End("ok"))
    /\ UNCHANGED <<recovery, known>>

-----------------------------------------------------------------------------
(* `piv reset`, one command of the Admin applet; its failure changes nothing. *)

ResetApplet ==
    /\ pc = "idle"
    /\ mgmtKey' = DefaultKey
    /\ pin' = DefaultPin
    /\ pukBlocked' = FALSE
    /\ admin' = NoPivman
    /\ printed' = NoKey
    /\ UNCHANGED <<host, recovery, known>>

-----------------------------------------------------------------------------
(* The history: which PIN command has left ADMIN DATA behind the card.      *)

\* The running command replaces the PIN or the key that the salt belongs to,
\* or revives the PUK.
Outdates ==
    \/ /\ job.op = "change_pin"
       /\ has_derived_key(admin) /\ (pin' # pin \/ mgmtKey' # mgmtKey)
    \/ job.op = "set_retries" /\ pukBlocked /\ ~pukBlocked'

\* ADMIN DATA is rewritten, or the command claims that all is done.
CaughtUp(op) ==
    \/ IF op = "change_pin" THEN admin' # admin ELSE ~admin'.puk_blocked
    \/ job.op = op /\ pc' = "ended" /\ result' = "ok"

KeepHistory ==
    behind' = {op \in behind \cup (IF Outdates THEN {job.op} ELSE {}) : ~CaughtUp(op)}

Step ==
    \/ \E k \in ChosenKeys, protect, hidden \in BOOLEAN, e \in UserKeys \cup {NoKey} :
          ChangeManagementKey(k, protect, hidden, e)
    \/ \E e \in UserKeys \cup {NoKey} : SetRetries(e)
    \/ \E new \in Pins : UnblockPin(new)
    \/ \E old, new \in Pins : ChangePin(old, new)
    \/ ChangePuk \/ ResetApplet
    \/ ResolveManagement
    \/ SaveRecoveryFile \/ InspectProtection \/ ReplaceKey \/ StoreProtectedKey
    \/ UpdateMetadata \/ ProtectPuk \/ RemoveRecoveryFile
    \/ EnsurePinResetSafe \/ ResetRetries \/ RereadPivman \/ ClearPukClaim
    \/ ResetPinWithPuk
    \/ ReadBeforePinChange \/ ChangeCardPin \/ VerifyNewPin
    \/ RotateDerivedKey \/ WriteNewSalt
    \/ Interrupt \/ Return

Next == Step /\ KeepHistory

Spec == Init /\ [][Next]_vars

-----------------------------------------------------------------------------
(* Safety. *)

\* The active key, unless it is derived from a PIN, is never lost: the user
\* knows it, a recovery file on disk holds it, or PRINTED does.  A hidden
\* generated key passes from its recovery file to PRINTED across four card
\* commands, any of which may be the last (set_management_key_synced,
\* ManagementKeyRecovery).
ActiveKeyRetained ==
    mgmtKey \in DerivedKeys \cup UserKeys \cup {printed}

\* An update that reports success has left card and metadata in step: with
\* --protect, PRINTED holds the active key, both claims are published and
\* the PUK really is blocked; without, no stored or derived key is claimed.
SuccessMeansSynced ==
    pc = "cleanup" =>
        /\ mgmtKey = job.newKey
        /\ admin.stored_key = job.protect
        /\ ~has_derived_key(admin)
        /\ job.protect => printed = mgmtKey /\ admin.puk_blocked /\ pukBlocked

\* While no recovery file remains on disk, what ADMIN DATA says is true: a
\* stored-key claim is backed by the active key in PRINTED, a salt and the PIN
\* of the card give the active key, a card with neither runs on a key the user
\* has seen, and a PUK claimed blocked is.  Two commands keep no file to finish
\* from and are excepted: a change-pin cut short before the new salt is on the
\* card (change_pin_synced) leaves a salt that gives no key, and a set-retries
\* cut short before it clears the claim (set_retries) leaves a PUK that is live.
CleanDiskMeansTrueMetadata ==
    FileKeys = {} =>
        /\ IF admin.stored_key THEN printed = mgmtKey
           ELSE IF has_derived_key(admin)
           THEN mgmtKey = Derived(pin, admin.salt) \/ "change_pin" \in behind
           ELSE mgmtKey \in known
        /\ admin.puk_blocked => pukBlocked \/ "set_retries" \in behind

\* change-management-key never gives the card a key that is not already in
\* a recovery file, typed keys included (piv_recovery.rs: durable before
\* mutation), and the file survives that step.
SavedBeforeReplaced ==
    [][mgmtKey' # mgmtKey /\ job.op = "change_key" => mgmtKey' \in FileKeys']_vars

\* Only change-pin may separate a PIN from the key derived from it: neither
\* set-retries nor unblock-pin replaces the PIN of a card whose ADMIN DATA
\* says the active key is derived (ensure_pin_reset_safe).
PinResetKeepsDerivedKey ==
    [][pin' # pin /\ has_derived_key(admin) /\ mgmtKey = Derived(pin, admin.salt)
          => job.op = "change_pin" \/ mgmtKey' = DefaultKey]_vars

\* The PUK is blocked only for a stored key that has just authenticated, and
\* only on an explicit --protect; every other blocking is a user's wrong PUK
\* (complete_pin_managed_key, the device test "PIV invalid key leaves PUK
\* available").
PukBlockedOnlyToProtect ==
    [][pukBlocked' /\ ~pukBlocked /\ pc \notin {"unblock", "idle"} =>
          job.protect /\ admin.stored_key /\ printed = mgmtKey]_vars

-----------------------------------------------------------------------------
(* What the program says of itself and does not do. *)

\* The recovery file: "To finish, repeat change-management-key with the saved
\* algorithm and new-management-key.  If the new key is active, also supply it
\* as --management-key."  Once the interrupted update has replaced the key,
\* following this with the right key, a fresh file and the right PIN is not
\* refused.
RecoveryInstructionsWork ==
    ~ /\ pc = "ended" /\ result = "refused"
      /\ job.op = "change_key" /\ job.path # NoPath
      /\ job.explicit = mgmtKey /\ job.newKey = mgmtKey /\ printed # mgmtKey
      /\ job.pin \in {NoPin, pin}
      /\ \E f \in Paths \ {job.path} :
            recovery[f] = [key |-> job.newKey, protect |-> job.protect]

\* change_pin_synced changes the PIN "while keeping a PIN-derived management
\* key working": between commands, a derived key can be derived again from
\* some PIN and the salt on the card.
PinChangeKeepsKeyWorking ==
    pc = "idle" /\ mgmtKey \in DerivedKeys =>
        \E p \in Pins : mgmtKey = Derived(p, admin.salt)
=============================================================================
