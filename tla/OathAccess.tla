----------------------------- MODULE OathAccess -----------------------------
(***************************************************************************)
(* The password of the OATH applet and the access keys that hosts remember *)
(* in their system keyrings (commands/oath.rs): how every OATH command     *)
(* unlocks the applet, and access change, clear, remember, forget and      *)
(* reset.  One card moves between several hosts; a command holds it        *)
(* exclusively, may lose the answer to the card command that takes effect, *)
(* and may find the keyring unavailable at any time.                       *)
(***************************************************************************)
EXTENDS Naturals, FiniteSets

CONSTANTS
    Hosts,
    Passwords,
    Handles,   \* device handles, which the key derivation salts with
    Absent     \* no password, no key, no handle

ASSUME OathAssumption == Absent \notin Passwords

VARIABLES
    lock,      \* the applet's access key, Absent when it has no password
    handle,    \* its handle, Absent on legacy firmware
    keyring,   \* the key each host remembers for this card's serial number
    job,       \* the command being run
    pc,        \* its next step
    key,       \* the access key of its session
    typed,     \* the password its user has given or typed
    result,    \* how it ended
    keyringFailed,  \* whether a keyring access of it failed
    past       \* every key that has ever been the applet's access key

session == <<job, key, typed>>
accessVars == <<lock, handle, keyring, job, pc, key, typed, result,
                keyringFailed, past>>

(* derive_key_bytes: PBKDF2 of the password, salted with the handle.        *)
derive_key_bytes(password) == <<password, handle>>
AccessKeys == Passwords \X Handles

Jobs == [op : {"use", "change", "clear", "remember", "forget", "reset"},
         host : Hosts, given : Passwords \cup {Absent},
         new : Passwords \cup {Absent}, remember : BOOLEAN]

AccessInit ==
    /\ lock = Absent
    /\ handle \in Handles \cup {Absent}
    /\ keyring = [h \in Hosts |-> Absent]
    /\ job \in {j \in Jobs : j.op = "forget" /\ j.given = Absent
                             /\ j.new = Absent /\ ~j.remember}
    /\ pc = "idle"
    /\ key = Absent /\ typed = Absent
    /\ result = "none" /\ keyringFailed = FALSE
    /\ past = {}

-----------------------------------------------------------------------------
Go(label) == pc' = label /\ UNCHANGED result
End(outcome) == pc' = "idle" /\ result' = outcome

Start(op, h, given, new, remember) ==
    /\ pc = "idle"
    /\ job' = [op |-> op, host |-> h, given |-> given, new |-> new,
               remember |-> remember]
    /\ key' = Absent /\ typed' = given
    /\ result' = "none" /\ keyringFailed' = FALSE
    /\ pc' = IF op \in {"forget", "reset"} THEN op ELSE "select"
    /\ UNCHANGED <<lock, handle, keyring, past>>

Command ==
    \E h \in Hosts, given \in Passwords \cup {Absent}, r \in BOOLEAN :
        \/ Start("use", h, given, Absent, r)
        \/ \E p \in Passwords : Start("change", h, given, p, r)
        \/ Start("clear", h, given, Absent, FALSE)
        \/ Start("remember", h, given, Absent, TRUE)
        \/ Start("forget", h, Absent, Absent, FALSE)
        \/ Start("reset", h, Absent, Absent, FALSE)

(* A transport failure, a refusal, end of input or the death of the         *)
(* process, before the step takes effect.                                   *)
Abort ==
    /\ pc # "idle"
    /\ End("failed")
    /\ UNCHANGED <<lock, handle, keyring, session, keyringFailed, past>>

-----------------------------------------------------------------------------
(* Unlocking: OathSession::connect and access_remember.                     *)

Unlocked ==
    \/ job.op = "remember" /\ End("ok")
    \/ job.op # "remember" /\ job.given # Absent /\ End("failed")
    \/ job.op # "remember" /\ job.given = Absent /\ Go("operate")

Select ==
    /\ pc = "select"
    /\ IF lock = Absent THEN Unlocked
       ELSE Go(IF job.given # Absent THEN "validate"
               ELSE IF job.op = "remember" THEN "prompt" ELSE "recall")
    /\ UNCHANGED <<lock, handle, keyring, session, keyringFailed, past>>

Prompt ==
    /\ pc = "prompt"
    /\ \E p \in Passwords : typed' = p
    /\ Go("validate")
    /\ UNCHANGED <<lock, handle, keyring, job, key, keyringFailed, past>>

(* access change remembers the new password, never the current one.         *)
Remembers == job.remember /\ job.op # "change"

(* Mutant: the key is taken, and remembered, before it is validated.        *)
ValidateLater ==
    /\ pc = "validate"
    /\ key' = derive_key_bytes(typed)
    /\ Go(IF Remembers THEN "remember" ELSE "operate")
    /\ UNCHANGED <<lock, handle, keyring, job, typed, keyringFailed, past>>

(* Validation of the key derived from a password given or typed.            *)
Validate ==
    /\ pc = "validate"
    /\ IF derive_key_bytes(typed) = lock
       THEN /\ key' = derive_key_bytes(typed)
            /\ Go(IF Remembers THEN "remember" ELSE "operate")
       ELSE End("wrong") /\ UNCHANGED key
    /\ UNCHANGED <<lock, handle, keyring, job, typed, keyringFailed, past>>

(* Mutant: a rejected remembered key ends the command.                      *)
RecallRejected ==
    /\ pc = "recall"
    /\ IF keyring[job.host] = Absent THEN Go("prompt") /\ UNCHANGED key
       ELSE IF keyring[job.host] = lock
       THEN key' = lock /\ Go("operate")
       ELSE End("wrong") /\ UNCHANGED key
    /\ UNCHANGED <<lock, handle, keyring, job, typed, keyringFailed, past>>

(* A remembered key that the applet rejects is forgotten, and the user is   *)
(* asked for the password.                                                  *)
Recall ==
    /\ pc = "recall"
    /\ \/ /\ keyring[job.host] = Absent
          /\ Go("prompt") /\ UNCHANGED <<keyring, key, keyringFailed>>
       \/ /\ keyringFailed' = TRUE         \* the keyring cannot be read
          /\ Go("prompt") /\ UNCHANGED <<keyring, key>>
       \/ /\ keyring[job.host] # Absent /\ keyring[job.host] = lock
          /\ key' = keyring[job.host]
          /\ Go("operate") /\ UNCHANGED <<keyring, keyringFailed>>
       \/ /\ keyring[job.host] \notin {Absent, lock}
          /\ \/ keyring' = [keyring EXCEPT ![job.host] = Absent]
                /\ UNCHANGED keyringFailed
             \/ keyringFailed' = TRUE /\ UNCHANGED keyring
          /\ Go("prompt") /\ UNCHANGED key
    /\ UNCHANGED <<lock, handle, job, typed, past>>

(* remember_key: a keyring failure is a warning.                            *)
Store(k) ==
    \/ keyring' = [keyring EXCEPT ![job.host] = k] /\ UNCHANGED keyringFailed
    \/ keyringFailed' = TRUE /\ UNCHANGED keyring

Remember ==
    /\ pc = "remember"
    /\ Store(key)
    /\ IF job.op = "remember" THEN End("ok") ELSE Go("operate")
    /\ UNCHANGED <<lock, handle, session, past>>

-----------------------------------------------------------------------------
(* The operations.  Each is executed with the session's key validated anew; *)
(* the answer of the card to a password change or a reset can be lost.      *)

Operate ==
    /\ pc = "operate" /\ job.op = "use"
    /\ End("ok")
    /\ UNCHANGED <<lock, handle, keyring, session, keyringFailed, past>>

Answered == Go("keyring") \/ End("failed")

ChangePassword ==
    /\ pc = "operate" /\ job.op = "change"
    /\ handle # Absent
    /\ lock' = derive_key_bytes(job.new)
    /\ past' = past \cup {lock'}
    /\ Answered
    /\ UNCHANGED <<handle, keyring, session, keyringFailed>>

NoPasswordSupport ==
    /\ pc = "operate" /\ job.op = "change"
    /\ handle = Absent
    /\ End("failed")
    /\ UNCHANGED <<lock, handle, keyring, session, keyringFailed, past>>

ClearPassword ==
    /\ pc = "operate" /\ job.op = "clear"
    /\ lock' = Absent
    /\ Answered
    /\ UNCHANGED <<handle, keyring, session, keyringFailed, past>>

(* A reset removes the password; the applet may come back with a new handle.*)
Reset ==
    /\ pc = "reset"
    /\ lock' = Absent
    /\ handle' \in IF handle = Absent THEN {Absent} ELSE Handles
    /\ Answered
    /\ UNCHANGED <<keyring, session, keyringFailed, past>>

(* Mutant: the key of the session is remembered instead of the new one.     *)
NewKeyringKeyOfSession ==
    IF job.op = "change" /\ job.remember THEN key ELSE Absent

(* What the keyring holds afterwards.                                       *)
NewKeyringKey ==
    IF job.op = "change" /\ job.remember THEN derive_key_bytes(job.new) ELSE Absent

UpdateKeyring ==
    /\ pc \in {"keyring", "forget"}
    /\ Store(NewKeyringKey)
    /\ End("ok")
    /\ UNCHANGED <<lock, handle, session, past>>

AccessNext ==
    \/ Command \/ Abort
    \/ Select \/ Prompt \/ Validate \/ Recall \/ Remember
    \/ Operate \/ ChangePassword \/ NoPasswordSupport \/ ClearPassword
    \/ Reset \/ UpdateKeyring

AccessSpec == AccessInit /\ [][AccessNext]_accessVars

-----------------------------------------------------------------------------
(* Properties.                                                              *)

(* A keyring entry is stored only after the applet accepted or was given    *)
(* the key: it never holds a key the applet has never had.                  *)
RememberedKeyWorked ==
    \A h \in Hosts : keyring[h] # Absent => keyring[h] \in past

(* "forget it and fall through to a prompt": whatever another host did to   *)
(* the password, and whatever the keyrings hold, a command reports a wrong  *)
(* password only when the password its user entered in this command is      *)
(* wrong.                                                                   *)
StaleKeyNeverDenies ==
    result = "wrong" => typed # Absent /\ derive_key_bytes(typed) # lock

(* A command that used, replaced or removed the remembered key and reports  *)
(* success leaves this host with the applet's key or with none, unless the  *)
(* keyring itself failed.                                                   *)
Settling == job.op \in {"change", "clear", "remember", "reset"}
            \/ (job.op = "use" /\ job.given = Absent)

SuccessSettlesKeyring ==
    result = "ok" /\ ~keyringFailed /\ lock # Absent /\ Settling =>
        keyring[job.host] \in {Absent, lock}
=============================================================================
