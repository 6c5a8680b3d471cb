------------------------------- MODULE OpenPgp -------------------------------
(***************************************************************************)
(* The OpenPGP commands (ckman/src/commands/openpgp.rs) over the typed     *)
(* operations of ckman-core/src/openpgp.rs.  A command checks its          *)
(* arguments, asks for passwords and consent, and then sends one or two    *)
(* operations; each selects the applet again, verifies at most one         *)
(* password and takes effect as a whole.  The card is opened exclusively,  *)
(* so other programs act between commands only.                            *)
(***************************************************************************)
EXTENDS Naturals, Sequences, FiniteSets

CONSTANTS
    Slots,                  \* among "Signature", "Decryption", "Authentication"
    Firmwares,              \* among "1.3", "1.6.2", "3.1.2"
    Algorithms,             \* of key files and key slots
    Passwords, Length,      \* what is typed, and how long it is
    PinDefault, AdminDefault,
    DefaultTries,
    RetryCounts,            \* what set-retries may be asked for
    Fields,                 \* cardholder data
    MaxCommands,            \* bound on the commands of a behaviour
    None, Unknown

References == {"Pw1", "ResetCode", "Pw3"}
KeyStates  == {"absent", "generated", "imported"}

\* A password has a try at least (commands/openpgp.rs:53, the range of the counts).
ASSUME OpenPgpAssumption ==
    /\ Slots \subseteq {"Signature", "Decryption", "Authentication"}
    /\ Fields \subseteq {"Name", "Language", "Sex", "Login", "Url"}
    /\ Length \in [Passwords -> Nat]
    /\ {PinDefault, AdminDefault} \subseteq Passwords
    /\ DefaultTries \in Nat \ {0}
    /\ RetryCounts \subseteq [References -> Nat \ {0}]
    /\ None \notin Passwords \cup References \cup Algorithms \cup KeyStates
    /\ Unknown \notin Passwords

KeyAlgorithmArg ==
    {"Rsa2048", "Rsa3072", "Rsa4096", "EccP256", "EccP384", "EccP521",
     "Secp256k1", "Ed25519", "X25519"} \cap Algorithms
TouchPolicyArg == {"off", "on", "fixed"}

VARIABLES
    firmware,   \* what the profile says the card is
    card,       \* everything the applet stores but the counters
    tries,      \* tries left of each password
    told,       \* the password the user was last told, or typed, to be valid
    job,        \* the operations still to send, and what success will tell
    result,     \* how the last command ended; "busy" while one runs
    before,     \* the card when the command started
    spent,      \* refused passwords of the command
    report,     \* what info, or keys info, has said
    commands    \* commands started

vars == <<firmware, card, tries, told, job, result, before, spent, report, commands>>

NoReport == [about |-> "nothing", keys |-> {}, objects |-> {}]
NoJob    == [ops |-> << >>, tells |-> << >>]

Defaults(code) ==
    [r \in References |->
        IF r = "Pw1" THEN PinDefault ELSE IF r = "Pw3" THEN AdminDefault ELSE code]

Factory == [attributes  |-> [s \in Slots |-> "Rsa2048"],
            key         |-> [s \in Slots |-> "absent"],
            fingerprint |-> {},
            touch       |-> [s \in Slots |-> "off"],
            certificate |-> {},
            objects     |-> {},
            password    |-> Defaults(None),
            limit       |-> [r \in References |-> DefaultTries]]

Init ==
    /\ firmware \in Firmwares
    /\ card = Factory /\ before = Factory
    /\ tries = Factory.limit
    /\ told = Factory.password
    /\ job = NoJob /\ result = "done"
    /\ spent = 0 /\ report = NoReport /\ commands = 0

-----------------------------------------------------------------------------
(* The operations of ckman-core: what is sent, and the password it is sent  *)
(* with.                                                                    *)

change_password(reference, old, new) ==
    [name |-> "change_password", auth |-> reference, password |-> old, new |-> new]
unblock(reference, password, new) ==
    [name |-> "unblock", auth |-> reference, password |-> password, new |-> new]
unblock_with_admin(new, admin) == unblock("Pw3", admin, new)
unblock_with_code(code, new)   == unblock("ResetCode", code, new)
set_reset_code(code, admin) ==
    [name |-> "set_reset_code", auth |-> "Pw3", password |-> admin, new |-> code]
reset_retries(counts, admin) ==
    [name |-> "reset_retries", auth |-> "Pw3", password |-> admin, counts |-> counts]
write_data(object, present, admin) ==
    [name |-> "write_data", auth |-> "Pw3", password |-> admin,
     object |-> object, present |-> present]
set_signature_policy(reuse, admin) == write_data("ReuseSignaturePin", reuse, admin)
set_touch_cache_time(on, admin)    == write_data("TouchCacheTime", on, admin)
set_touch_policy(slot, policy, admin) ==
    [name |-> "set_touch_policy", auth |-> "Pw3", password |-> admin,
     slot |-> slot, policy |-> policy]
set_algorithm(slot, algorithm, admin) ==
    [name |-> "set_algorithm", auth |-> "Pw3", password |-> admin,
     slot |-> slot, algorithm |-> algorithm]
generate_key(slot, admin) ==
    [name |-> "generate_key", auth |-> "Pw3", password |-> admin, slot |-> slot]
import_key(slot, algorithm, admin) ==
    [name |-> "import_key", auth |-> "Pw3", password |-> admin,
     slot |-> slot, algorithm |-> algorithm]
write_certificate(slot, present, admin) ==
    [name |-> "write_certificate", auth |-> "Pw3", password |-> admin,
     slot |-> slot, present |-> present]

(* Without a password.                                                      *)
Open(name)           == [name |-> name, auth |-> None, password |-> None]
OpenSlot(name, slot) == [name |-> name, auth |-> None, password |-> None, slot |-> slot]
read_application_data   == Open("read_application_data")
reset_applet            == Open("reset_applet")
read_public_key(slot)   == OpenSlot("read_public_key", slot)
read_certificate(slot)  == OpenSlot("read_certificate", slot)
read_data(object) ==
    [name |-> "read_data", auth |-> None, password |-> None, object |-> object]

(* What the library knows of a firmware: pre-2.0 cards take keys of         *)
(* algorithms they cannot generate.                                         *)
openpgp_algorithm_support(algorithm, generating) ==
    \/ firmware = "3.1.2"
    \/ algorithm = "Rsa2048"
    \/ firmware = "1.6.2" /\ ~generating

HasUif       == firmware # "1.3"
HasKeyStatus == firmware = "3.1.2"

(* Library checks made before the password is sent; generation and import   *)
(* read the slot's attributes first.                                        *)
Accepted(o) ==
    /\ o.name = "reset_retries" => firmware = "3.1.2"
    /\ o.name = "set_touch_policy" => HasUif
    /\ o.name \in {"write_data", "read_data"} /\ o.object = "TouchCacheTime" => HasUif
    /\ o.name = "set_algorithm" => openpgp_algorithm_support(o.algorithm, FALSE)
    /\ o.name = "generate_key" => openpgp_algorithm_support(card.attributes[o.slot], TRUE)
    /\ o.name = "import_key" =>
          o.algorithm = card.attributes[o.slot] /\ openpgp_algorithm_support(o.algorithm, FALSE)

(* The card after an operation: changing a slot's attributes discards its   *)
(* key and not its fingerprint, and a fixed touch policy stays with its key.*)
Put(set, x, present) == IF present THEN set \cup {x} ELSE set \ {x}

SetPassword(reference, new) == [card EXCEPT !.password = [@ EXCEPT ![reference] = new]]
SetKey(slot, state)         == [card EXCEPT !.key = [@ EXCEPT ![slot] = state]]

Effects(o) ==
    CASE o.name = "change_password"   -> {SetPassword(o.auth, o.new)}
      [] o.name = "unblock"           -> {SetPassword("Pw1", o.new)}
      [] o.name = "set_reset_code"    -> {SetPassword("ResetCode", o.new)}
      [] o.name = "reset_retries"     ->
            {[card EXCEPT !.limit = o.counts, !.password = Defaults(code)]
                : code \in {None, card.password["ResetCode"]}}
      [] o.name = "write_data"        -> {[card EXCEPT !.objects = Put(@, o.object, o.present)]}
      [] o.name = "set_touch_policy"  ->
            IF card.touch[o.slot] = "fixed" /\ o.policy # "fixed" /\ card.key[o.slot] # "absent"
            THEN {} ELSE {[card EXCEPT !.touch = [@ EXCEPT ![o.slot] = o.policy]]}
      [] o.name = "set_algorithm"     ->
            IF card.attributes[o.slot] = o.algorithm THEN {card}
            ELSE {[SetKey(o.slot, "absent") EXCEPT
                      !.attributes = [@ EXCEPT ![o.slot] = o.algorithm]]}
      [] o.name = "generate_key"      -> {SetKey(o.slot, "generated")}
      [] o.name = "import_key"        -> {SetKey(o.slot, "imported")}
      [] o.name = "write_certificate" -> {[card EXCEPT !.certificate = Put(@, o.slot, o.present)]}
      [] o.name = "reset_applet"      -> {Factory}
      [] o.name = "read_public_key"   -> IF card.key[o.slot] = "absent" THEN {} ELSE {card}
      [] o.name = "read_certificate"  -> IF o.slot \in card.certificate THEN {card} ELSE {}

TriesAfter(o, after) ==
    [r \in References |->
        IF \/ o.name \in {"reset_retries", "reset_applet"}
           \/ r = o.auth
           \/ r = "Pw1" /\ o.name = "unblock"
           \/ r = "ResetCode" /\ o.name = "set_reset_code"
        THEN after.limit[r] ELSE tries[r]]

Changed(o) ==
    {r \in References :
        \/ o.name = "change_password" /\ r = o.auth
        \/ o.name = "unblock" /\ r = "Pw1"
        \/ o.name = "set_reset_code" /\ r = "ResetCode"
        \/ o.name \in {"reset_retries", "reset_applet"}}

-----------------------------------------------------------------------------
(* Driving the operations of a command, OpenPgpSession::run.                *)

Finish(r) == result' = r /\ job' = NoJob

Next1 == job.ops[1]
Blocked(o)  == o.auth # None /\ (tries[o.auth] = 0 \/ card.password[o.auth] = None)
Verifies(o) == o.auth # None => card.password[o.auth] = o.password

(* Mutant: a refused first operation does not end the command.              *)
RefusedButGoingOn ==
    IF Len(job.ops) > 1 THEN job' = [job EXCEPT !.ops = Tail(@)] /\ UNCHANGED result
    ELSE Finish("refused")

Refused == Finish("refused")

(* Refused by the library, or by the card for the password.                 *)
OperationRefused ==
    /\ result = "busy"
    /\ \/ ~Accepted(Next1) /\ UNCHANGED <<tries, spent>>
       \/ Accepted(Next1) /\ Blocked(Next1) /\ UNCHANGED <<tries, spent>>
       \/ /\ Accepted(Next1) /\ ~Blocked(Next1) /\ ~Verifies(Next1)
          /\ tries' = [tries EXCEPT ![Next1.auth] = @ - 1]
          /\ spent' = spent + 1
    /\ Refused
    /\ UNCHANGED <<firmware, card, told, before, report, commands>>

(* What the user knows of the passwords after some news of them.             *)
Heard(news) == [r \in References |-> IF r \in DOMAIN news THEN news[r] ELSE told[r]]

Allowed(o) == Accepted(o) /\ ~Blocked(o) /\ Verifies(o)

Reads(o) == o.name \in {"read_application_data", "read_data"}

OperationDone ==
    /\ result = "busy" /\ Allowed(Next1) /\ ~Reads(Next1)
    /\ card' \in Effects(Next1)
    /\ tries' = TriesAfter(Next1, card')
    /\ IF Len(job.ops) = 1 THEN told' = Heard(job.tells) /\ Finish("done")
       ELSE job' = [job EXCEPT !.ops = Tail(@)] /\ UNCHANGED <<told, result>>
    /\ UNCHANGED <<firmware, before, spent, report, commands>>

(* The card refuses for another reason, the connection fails, the process   *)
(* dies, or the answer is lost after the operation took effect.             *)
OperationFails ==
    /\ result = "busy" /\ Accepted(Next1) /\ ~Reads(Next1)
    /\ card' \in {card} \cup IF Allowed(Next1) THEN Effects(Next1) ELSE {}
    /\ IF Allowed(Next1) THEN tries' \in {tries, TriesAfter(Next1, card')} /\ UNCHANGED spent
       ELSE /\ ~Blocked(Next1)
            /\ tries' = [tries EXCEPT ![Next1.auth] = @ - 1]
            /\ spent' = spent + 1
    /\ told' = Heard([r \in Changed(Next1) |-> Unknown])
    /\ Finish("failed")
    /\ UNCHANGED <<firmware, before, report, commands>>

-----------------------------------------------------------------------------
(* Commands: their checks, prompts and consent.                             *)

Fits(password, minimum) == Length[password] \in minimum..64
PinFits(password)       == Fits(password, 6)
AdminFits(password)     == Fits(password, 8)

(* A new password is given on the command line, or typed twice.             *)
NewFits(c, minimum) == c.repeated /\ Fits(c.new, minimum)

Begin ==
    /\ result # "busy" /\ commands < MaxCommands
    /\ commands' = commands + 1
    /\ before' = card /\ spent' = 0
    /\ UNCHANGED <<firmware, card, tries, told>>

Stop(r)          == Begin /\ Finish(r) /\ report' = NoReport
Send(ops, tells) ==
    Begin /\ job' = [ops |-> ops, tells |-> tells] /\ result' = "busy" /\ report' = NoReport

NoNews == << >>
Only(reference, password) == [r \in {reference} |-> password]

(* Checked arguments, then a confirmation unless forced.                    *)
WithConsent(force, ops, tells) ==
    \/ ~force /\ Stop("declined")
    \/ Send(ops, tells)

AccessCommand ==
    [cmd : {"set-retries"}, counts : RetryCounts, admin : Passwords, force : BOOLEAN]
    \cup [cmd : {"change-pin", "change-admin-pin"}, old : Passwords, new : Passwords, repeated : BOOLEAN]
    \cup [cmd : {"change-reset-code"}, admin : Passwords, new : Passwords, repeated : BOOLEAN, clear : BOOLEAN]
    \cup [cmd : {"unblock-pin"}, with : {"admin", "code"}, password : Passwords, new : Passwords, repeated : BOOLEAN]
    \cup [cmd : {"set-signature-policy", "set-touch-cache"}, admin : Passwords, on : BOOLEAN]

(* Mutant: only the Admin PIN is told.                                      *)
DefaultsToldAdminOnly == [r \in {"Pw3", "ResetCode"} |-> Defaults(Unknown)[r]]

DefaultsTold == Defaults(Unknown)

SetRetries(c) ==
    /\ c.cmd = "set-retries"
    /\ IF AdminFits(c.admin)
       THEN WithConsent(c.force, <<reset_retries(c.counts, c.admin)>>, DefaultsTold)
       ELSE Stop("refused")

ChangePin(c) ==
    /\ c.cmd = "change-pin"
    /\ IF PinFits(c.old) /\ NewFits(c, 6)
       THEN Send(<<change_password("Pw1", c.old, c.new)>>, Only("Pw1", c.new))
       ELSE Stop("refused")

ChangeAdminPin(c) ==
    /\ c.cmd = "change-admin-pin"
    /\ IF AdminFits(c.old) /\ NewFits(c, 8)
       THEN Send(<<change_password("Pw3", c.old, c.new)>>, Only("Pw3", c.new))
       ELSE Stop("refused")

ChangeResetCode(c) ==
    LET code == IF c.clear THEN None ELSE c.new IN
    /\ c.cmd = "change-reset-code"
    /\ IF AdminFits(c.admin) /\ (c.clear \/ NewFits(c, 8))
       THEN Send(<<set_reset_code(code, c.admin)>>, Only("ResetCode", code))
       ELSE Stop("refused")

UnblockPin(c) ==
    /\ c.cmd = "unblock-pin"
    /\ IF NewFits(c, 6) /\ AdminFits(c.password)
       THEN Send(<<IF c.with = "admin" THEN unblock_with_admin(c.new, c.password)
                   ELSE unblock_with_code(c.password, c.new)>>, Only("Pw1", c.new))
       ELSE Stop("refused")

SetSignaturePolicy(c) ==
    /\ c.cmd = "set-signature-policy"
    /\ IF AdminFits(c.admin) THEN Send(<<set_signature_policy(c.on, c.admin)>>, NoNews)
       ELSE Stop("refused")

SetTouchCache(c) ==
    /\ c.cmd = "set-touch-cache"
    /\ IF AdminFits(c.admin) THEN Send(<<set_touch_cache_time(c.on, c.admin)>>, NoNews)
       ELSE Stop("refused")

CardholderCommand ==
    [field : Fields, value : {"empty", "fits", "too long"}, admin : Passwords]

Cardholder(c) ==
    IF c.value # "too long" /\ AdminFits(c.admin)
    THEN Send(<<write_data(c.field, c.value = "fits", c.admin)>>, NoNews)
    ELSE Stop("refused")

(* After the confirmation, the reset asks for the CanoKey's own Admin PIN,  *)
(* not the OpenPGP one.                                                     *)
Reset(force) == WithConsent(force, <<reset_applet>>, Factory.password)

KeysCommand ==
    [cmd : {"generate"}, slot : Slots, algorithm : KeyAlgorithmArg \cup {None}, admin : Passwords]
    \cup [cmd : {"import"}, slot : Slots, file : Algorithms \cup {None},
          algorithm : KeyAlgorithmArg \cup {None}, admin : Passwords]
    \cup [cmd : {"set-touch"}, slot : Slots, policy : TouchPolicyArg, admin : Passwords, force : BOOLEAN]
    \cup [cmd : {"info", "export"}, slot : Slots]

validate_import_algorithm(actual, requested, slot) ==
    /\ requested \in {None, actual}
    /\ actual \in KeyAlgorithmArg
    /\ slot = "Decryption" => actual # "Ed25519"
    /\ slot # "Decryption" => actual # "X25519"

(* Mutant: what may be imported may be generated.                           *)
validate_generation_as_import(slot, algorithm) ==
    validate_import_algorithm(algorithm, None, slot)

validate_generation_algorithm(slot, algorithm) ==
    /\ validate_import_algorithm(algorithm, None, slot)
    /\ openpgp_algorithm_support(algorithm, TRUE)

AlgorithmFirst(c) ==
    IF c.algorithm = None THEN << >> ELSE <<set_algorithm(c.slot, c.algorithm, c.admin)>>

Generate(c) ==
    /\ c.cmd = "generate"
    /\ IF /\ c.algorithm # None => validate_generation_algorithm(c.slot, c.algorithm)
          /\ AdminFits(c.admin)
       THEN Send(AlgorithmFirst(c) \o <<generate_key(c.slot, c.admin)>>, NoNews)
       ELSE Stop("refused")

Import(c) ==
    /\ c.cmd = "import"
    /\ IF /\ c.file # None /\ validate_import_algorithm(c.file, c.algorithm, c.slot)
          /\ AdminFits(c.admin)
       THEN Send(AlgorithmFirst(c) \o <<import_key(c.slot, c.file, c.admin)>>, NoNews)
       ELSE Stop("refused")

SetTouch(c) ==
    /\ c.cmd = "set-touch"
    /\ IF AdminFits(c.admin)
       THEN WithConsent(c.force, <<set_touch_policy(c.slot, c.policy, c.admin)>>, NoNews)
       ELSE Stop("refused")

ExportKey(c) == c.cmd = "export" /\ Send(<<read_public_key(c.slot)>>, NoNews)

CertificatesCommand ==
    [cmd : {"import"}, slot : Slots, file : {"certificate", "other"}, admin : Passwords]
    \cup [cmd : {"delete"}, slot : Slots, admin : Passwords]
    \cup [cmd : {"export"}, slot : Slots]

certificate_der(file) == file = "certificate"

ImportCertificate(c) ==
    /\ c.cmd = "import"
    /\ IF certificate_der(c.file) /\ AdminFits(c.admin)
       THEN Send(<<write_certificate(c.slot, TRUE, c.admin)>>, NoNews)
       ELSE Stop("refused")

DeleteCertificate(c) ==
    /\ c.cmd = "delete"
    /\ IF AdminFits(c.admin) THEN Send(<<write_certificate(c.slot, FALSE, c.admin)>>, NoNews)
       ELSE Stop("refused")

ExportCertificate(c) == c.cmd = "export" /\ Send(<<read_certificate(c.slot)>>, NoNews)

-----------------------------------------------------------------------------
(* What the card says of itself.                                            *)

key_information(slot) == IF HasKeyStatus THEN card.key[slot] ELSE None

(* The key status where the card has one; fingerprints are written by other *)
(* software and survive their key.                                          *)
key_is_present(slot) ==
    IF key_information(slot) # None THEN key_information(slot) # "absent"
    ELSE slot \in card.fingerprint

(* Mutant: any failure to read an object is its absence.                    *)
optional_record_of_anything(answer) == IF answer = "value" THEN "value" ELSE "absent"

optional_record(answer) == IF answer = "not found" THEN "absent" ELSE answer

(* The cardholder object holds name, language and sex.                      *)
Contents(object) ==
    card.objects \cap IF object = "Cardholder" THEN {"Name", "Language", "Sex"} ELSE {object}

touch_cache_time == IF HasUif THEN <<read_data("TouchCacheTime")>> ELSE << >>

Info ==
    /\ Begin
    /\ job' = [ops |-> <<read_application_data, read_data("Cardholder"), read_data("Login"), read_data("Url")>>
                        \o touch_cache_time,
               tells |-> NoNews]
    /\ result' = "busy"
    /\ report' = [NoReport EXCEPT !.about = "card"]

KeyInfo(c) ==
    /\ c.cmd = "info"
    /\ Begin
    /\ job' = [ops |-> <<read_application_data>> \o touch_cache_time, tells |-> NoNews]
    /\ result' = "busy"
    /\ report' = [NoReport EXCEPT !.about = c.slot]

Continue ==
    IF Len(job.ops) = 1 THEN Finish("done")
    ELSE job' = [job EXCEPT !.ops = Tail(@)] /\ UNCHANGED result

(* keys info goes on where the card has no key status for the slot.         *)
ReadApplicationData ==
    /\ result = "busy" /\ Next1.name = "read_application_data"
    /\ \/ Finish("failed") /\ UNCHANGED report
       \/ /\ report.about = "card"
          /\ report' = [report EXCEPT !.keys = {s \in Slots : key_is_present(s)}]
          /\ Continue
       \/ /\ report.about \in Slots
          /\ IF key_information(report.about) = "absent"
             THEN Finish("refused") /\ UNCHANGED report
             ELSE report' = [report EXCEPT !.keys = {report.about}] /\ Continue
    /\ UNCHANGED <<firmware, card, tries, told, before, spent, commands>>

(* The touch cache time is always there; any other object may be missing.   *)
ReadData ==
    /\ result = "busy" /\ Next1.name = "read_data"
    /\ \E answer \in {"value", "not found", "failed"} :
          LET object == Next1.object
              record == IF object = "TouchCacheTime" THEN answer ELSE optional_record(answer)
          IN  /\ answer = "value" => object = "TouchCacheTime" \/ Contents(object) # {}
              /\ answer = "not found" => object # "TouchCacheTime" /\ Contents(object) = {}
              /\ CASE record = "failed" -> Finish("failed") /\ UNCHANGED report
                   [] record = "absent" -> Continue /\ UNCHANGED report
                   [] record = "value"  ->
                        /\ report' = [report EXCEPT !.objects = @ \cup Contents(object)]
                        /\ Continue
    /\ UNCHANGED <<firmware, card, tries, told, before, spent, commands>>

(* Other software, between commands: it names the keys it knows.            *)
OtherSoftware ==
    /\ result # "busy" /\ commands < MaxCommands
    /\ \E s \in Slots : card' = [card EXCEPT !.fingerprint = @ \cup {s}]
    /\ card' # card /\ result' = "done" /\ report' = NoReport /\ before' = card'
    /\ UNCHANGED <<firmware, tries, told, job, spent, commands>>

Access(c) ==
    \/ SetRetries(c) \/ ChangePin(c) \/ ChangeAdminPin(c) \/ ChangeResetCode(c)
    \/ UnblockPin(c) \/ SetSignaturePolicy(c) \/ SetTouchCache(c)

Keys(c) == Generate(c) \/ Import(c) \/ SetTouch(c) \/ ExportKey(c) \/ KeyInfo(c)

Certificates(c) == ImportCertificate(c) \/ DeleteCertificate(c) \/ ExportCertificate(c)

Next ==
    \/ Info
    \/ \E force \in BOOLEAN : Reset(force)
    \/ \E c \in AccessCommand : Access(c)
    \/ \E c \in CardholderCommand : Cardholder(c)
    \/ \E c \in KeysCommand : Keys(c)
    \/ \E c \in CertificatesCommand : Certificates(c)
    \/ OperationRefused \/ OperationDone \/ OperationFails
    \/ ReadApplicationData \/ ReadData
    \/ OtherSoftware

Spec == Init /\ [][Next]_vars

-----------------------------------------------------------------------------
(* Properties.                                                              *)

\* "Validate before any algorithm write: changing attributes may discard a
\* key": whatever command is declined by the user, or refused by the program,
\* the library or a password, the card's keys, certificates, passwords and
\* data are those from before it, although generation and import may have
\* sent the slot's new algorithm first.
RefusedMeansUnchanged == result \in {"refused", "declined"} => card = before

\* A password the user got wrong costs one of its tries, however many
\* operations the command was to send with it, and a command that was
\* declined costs none.
OneTryPerCommand == spent <= 1 /\ (result = "declined" => spent = 0)

\* What the user was last told, or typed, to be the PIN, the Admin PIN or the
\* reset code is what the card holds, through retry counters and resets that
\* restore defaults; only a command whose answer is lost leaves it unknown.
TruePasswords ==
    \A r \in References : told[r] = Unknown \/ told[r] = card.password[r]

\* "A failed read is not absence": when info ends well it has named every
\* object on the card, and every key where the card reports key status,
\* whatever fingerprints other software has left behind.
InfoTruthful ==
    result = "done" /\ report.about # "nothing" =>
        /\ HasKeyStatus =>
              LET present == {s \in Slots : card.key[s] # "absent"}
              IN  report.keys = IF report.about = "card" THEN present ELSE {report.about} \cap present
        /\ report.about = "card" =>
              report.objects = card.objects \cap (Fields \cup {"TouchCacheTime"})
=============================================================================
