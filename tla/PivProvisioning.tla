-------------------------- MODULE PivProvisioning --------------------------
(***************************************************************************)
(* The commands of ckman that write PIV keys and certificates, one after   *)
(* another on one card: keys generate, generate-batch, import, move and    *)
(* delete; certificates import, generate and delete; objects import of a   *)
(* certificate object.  A command inspects every slot it will write, asks  *)
(* the user where it finds content, authenticates, writes, and publishes   *)
(* public keys to files.  The card is connected exclusively, so nothing    *)
(* else touches it while a command runs.                                   *)
(*                                                                         *)
(* A private key is identified by a value of Keys; its public key and a    *)
(* certificate for it are identified by the same value.                    *)
(***************************************************************************)
EXTENDS Naturals, Sequences, FiniteSets, SequencesExt

CONSTANTS
    Slots,        \* key slots, the attestation slot F9 included
    Attestation,  \* F9
    Keys,         \* identities of key pairs
    None,         \* an empty slot, object or file
    Batches,      \* slot sequences a user passes to keys generate-batch
    Files,        \* output files
    PathMaps      \* ways the output paths of the slots may resolve to files

ASSUME ProvisioningAssumption ==
    /\ Attestation \in Slots
    /\ None \notin Keys
    /\ Batches \subseteq Seq(Slots \ {Attestation})
    /\ PathMaps \subseteq [Slots -> Files]

VARIABLES
    keys,      \* private key in each slot
    certs,     \* key certified by each slot's certificate object
    firmware,  \* what key metadata this card reports
    files,     \* public key this command has published in each file
    spares,    \* public keys it left in temporary files named in an error
    outputs,   \* the file prepared for each of its slots
    job,       \* the command: what it does, to which slots, with which key
    pc,        \* what it does next
    at,        \* index into job.slots of the slot it is working on
    found,     \* what the inspection of that slot has found
    consent,   \* slots the user agreed to overwrite in this command
    result,    \* how the command ended
    before     \* the card when the command started

card == <<keys, certs, firmware>>
disk == <<files, spares, outputs>>
vars == <<keys, certs, firmware, files, spares, outputs, job, pc, at, found, consent,
          result, before>>

Content == Keys \cup {None}

KeyWriting  == {"generate", "generate-batch", "import-key"}
CertWriting == {"import-certificate", "generate-certificate",
                "delete-certificate", "import-object"}
Unasked     == {"move", "delete-key"}

slot == job.slots[at]

Init ==
    /\ keys = [s \in Slots |-> None]
    /\ certs = [s \in Slots |-> None]
    /\ firmware \in {"full", "keyless", "old"}
    /\ files = [f \in Files |-> None]
    /\ spares = {} /\ outputs = << >>
    /\ job = [op |-> "none", slots |-> <<>>, key |-> None]
    /\ pc = "idle" /\ at = 1
    /\ found = {} /\ consent = {}
    /\ result = "none"
    /\ before = [keys |-> keys, certs |-> certs]

-----------------------------------------------------------------------------
(* Starting, failing and ending a command.                                 *)

Start(op, slots, key, first) ==
    /\ pc = "idle"
    /\ job' = [op |-> op, slots |-> slots, key |-> key]
    /\ pc' = first /\ at' = 1
    /\ found' = {} /\ consent' = {}
    /\ files' = [f \in Files |-> None] /\ spares' = {} /\ outputs' = << >>
    /\ result' = "none"
    /\ before' = [keys |-> keys, certs |-> certs]
    /\ UNCHANGED card

Stop(outcome) ==
    /\ result' = outcome
    /\ pc' = "idle"
    /\ UNCHANGED <<job, at, found, consent, before>>

Go(label) ==
    /\ pc' = label
    /\ UNCHANGED <<job, result, before>>

(* A transport failure, a refusal by the card, a host error, an unreadable  *)
(* answer or the death of the process, before the step takes effect.        *)
Abort ==
    /\ pc # "idle"
    /\ Stop("failed")
    /\ UNCHANGED <<card, disk>>

Generate(s)         == Start("generate", <<s>>, None, "prepare")
GenerateBatch(b)    == Start("generate-batch", b, None, "prepare")
Import(s, k)        == Start("import-key", <<s>>, k, "metadata")
ImportCertificate(s, k) ==
    Start("import-certificate", <<s>>, k, "match")
GenerateCertificate(s, k) ==    \* k is the PUBLIC-KEY argument, or None
    /\ s # Attestation
    /\ Start("generate-certificate", <<s>>, k, "match")
DeleteCertificate(s) == Start("delete-certificate", <<s>>, None, "certificate")
ImportObject(s, k)  == Start("import-object", <<s>>, k, "certificate")
Move(s, t)          == /\ Attestation \notin {s, t}
                       /\ Start("move", <<s, t>>, None, "authorize")
Delete(s)           == /\ s # Attestation
                       /\ Start("delete-key", <<s>>, None, "authorize")

(* Every output file is opened before the card is touched.                  *)
Destinations(slots, paths) == [i \in DOMAIN slots |-> paths[slots[i]]]

(* Mutant: outputs compared by slot instead of by resolved destination.     *)
ValidBatchBySlot(slots, paths) == slots # <<>> /\ IsInjective(slots)

ValidBatch(slots, paths) ==
    /\ slots # <<>>
    /\ IsInjective(slots)
    /\ IsInjective(Destinations(slots, paths))

PrepareOutputs ==
    /\ pc = "prepare"
    /\ \E paths \in PathMaps :
          IF ValidBatch(job.slots, paths)
          THEN /\ outputs' = Destinations(job.slots, paths)
               /\ Go("metadata") /\ UNCHANGED <<at, found, consent>>
          ELSE Stop("failed") /\ UNCHANGED outputs
    /\ UNCHANGED <<card, files, spares>>

-----------------------------------------------------------------------------
(* Inspecting the slots and asking (commands/piv/overwrite.rs).             *)

(* The public key that slot metadata reports, None when it reports none.    *)
ReportedKey(s) == IF firmware = "full" THEN keys[s] ELSE None

(* Older firmware has no F9 metadata and no F9 certificate object.          *)
Supported(s) == s = Attestation => firmware # "old"

(* certificates import and generate compare the public key first; an older  *)
(* card has nothing to compare, which ends only certificates generate.      *)
Certified == IF job.key # None THEN job.key ELSE ReportedKey(slot)

(* Mutant: no comparison with the slot's key.                               *)
ComparableAnyway == Certified # None

Comparable ==
    /\ job.op = "generate-certificate" => firmware # "old"
    /\ Certified # None
    /\ ReportedKey(slot) \in {None, Certified}

MatchPublicKey ==
    /\ pc = "match"
    /\ IF Comparable
       THEN /\ job' = [job EXCEPT !.key = Certified]
            /\ pc' = "certificate"
            /\ UNCHANGED <<at, found, consent, result, before>>
       ELSE Stop("failed")
    /\ UNCHANGED <<card, disk>>

(* Mutant: a failed metadata read taken for an empty slot.                  *)
ReadMetadataErrorIsEmpty ==
    /\ pc = "metadata"
    /\ found' = IF firmware # "old" /\ keys[slot] # None THEN {"key"} ELSE {}
    /\ Go("certificate") /\ UNCHANGED <<at, consent>>
    /\ UNCHANGED <<card, disk>>

ReadMetadata ==
    /\ pc = "metadata"
    /\ IF ~Supported(slot)
       THEN Stop("failed")
       ELSE /\ found' = IF firmware = "old" \/ keys[slot] # None
                        THEN {"key"} ELSE {}
            /\ Go("certificate") /\ UNCHANGED <<at, consent>>
    /\ UNCHANGED <<card, disk>>

(* Mutant: only the first slot of a batch is inspected.                     *)
InspectedFirstOnly == found' = {} /\ at' = 1 /\ Go("authorize")

(* The next slot of a batch, or the end of the preflight.                   *)
Inspected ==
    /\ found' = {}
    /\ IF at < Len(job.slots)
       THEN at' = at + 1 /\ Go("metadata")
       ELSE at' = 1 /\ Go("authorize")

ReadCertificate ==
    /\ pc = "certificate"
    /\ \/ /\ ~Supported(slot)
          /\ Stop("failed")
       \/ /\ Supported(slot) /\ found = {} /\ certs[slot] = None
          /\ Inspected /\ UNCHANGED consent
       \/ /\ Supported(slot) /\ (found # {} \/ certs[slot] # None)
          /\ found' = IF certs[slot] # None THEN found \cup {"certificate"}
                                           ELSE found
          /\ Go("ask") /\ UNCHANGED <<at, consent>>
    /\ UNCHANGED <<card, disk>>

Approve ==
    /\ pc = "ask"
    /\ consent' = consent \cup {slot}
    /\ Inspected
    /\ UNCHANGED <<card, disk>>

(* The prompt defaults to no, and end of input is a no.                     *)
Decline ==
    /\ pc = "ask"
    /\ Stop("declined")
    /\ UNCHANGED <<card, disk>>

(* Removing a key or a certificate is refused on older firmware.            *)
Capable ==
    job.op \in Unasked \cup {"delete-certificate"} => firmware # "old"

Authorize ==
    /\ pc = "authorize" /\ Capable
    /\ Go("write") /\ UNCHANGED <<at, found, consent>>
    /\ UNCHANGED <<card, disk>>

-----------------------------------------------------------------------------
(* Writing.  The answer to a command the card carried out can be lost.      *)

Answered(label) == Go(label) /\ UNCHANGED <<at, found, consent>>
Ended           == Stop("ok") \/ Stop("failed")

Fresh == Keys \ ({keys[s] : s \in Slots} \cup {certs[s] : s \in Slots}
                   \cup {files[f] : f \in Files} \cup spares)

WriteGeneratedKey ==
    /\ pc = "write" /\ job.op \in {"generate", "generate-batch"}
    /\ \E k \in Fresh : keys' = [keys EXCEPT ![slot] = k]
    /\ Answered("save") \/ Stop("failed")
    /\ UNCHANGED <<certs, firmware, disk>>

WriteImportedKey ==
    /\ pc = "write" /\ job.op = "import-key"
    /\ keys' = [keys EXCEPT ![slot] = job.key]
    /\ Ended
    /\ UNCHANGED <<certs, firmware, disk>>

WriteCertificate ==
    /\ pc = "write" /\ job.op \in CertWriting    \* signing needs the slot's key
    /\ job.op = "generate-certificate" => keys[slot] # None
    /\ certs' = [certs EXCEPT ![slot] = job.key]
    /\ Ended
    /\ UNCHANGED <<keys, firmware, disk>>

(* What move and delete do with the certificate depends on the firmware.    *)
MoveKey ==
    /\ pc = "write" /\ job.op = "move"
    /\ LET s == job.slots[1]  t == job.slots[2] IN
       /\ keys[s] # None /\ keys[t] = None
       /\ keys' = [keys EXCEPT ![s] = None, ![t] = keys[s]]
       /\ \/ UNCHANGED certs
          \/ certs' = [certs EXCEPT ![s] = None, ![t] = certs[s]]
    /\ Ended
    /\ UNCHANGED <<firmware, disk>>

DeleteKey ==
    /\ pc = "write" /\ job.op = "delete-key"
    /\ keys[slot] # None
    /\ keys' = [keys EXCEPT ![slot] = None]
    /\ \/ UNCHANGED certs
       \/ certs' = [certs EXCEPT ![slot] = None]
    /\ Ended
    /\ UNCHANGED <<firmware, disk>>

(* The public key is published before any command for the next slot.        *)
NextKey ==
    IF at < Len(job.slots)
    THEN at' = at + 1 /\ Go("write") /\ UNCHANGED <<found, consent>>
    ELSE Stop("ok")

SavePublicKey ==
    /\ pc = "save"
    /\ files' = [files EXCEPT ![outputs[at]] = keys[slot]]
    /\ NextKey
    /\ UNCHANGED <<card, spares, outputs>>

(* The rename failed: the complete output stays under its temporary name.   *)
KeepOutput ==
    /\ pc = "save"
    /\ spares' = spares \cup {keys[slot]}
    /\ Stop("failed")
    /\ UNCHANGED <<card, files, outputs>>

-----------------------------------------------------------------------------
Command ==
    \/ \E s \in Slots : Generate(s) \/ DeleteCertificate(s) \/ Delete(s)
    \/ \E b \in Batches : GenerateBatch(b)
    \/ \E s, t \in Slots : Move(s, t)
    \/ \E s \in Slots, k \in Keys :
          Import(s, k) \/ ImportCertificate(s, k)
    \/ \E s \in Slots, k \in Content :
          GenerateCertificate(s, k) \/ ImportObject(s, k)

Next ==
    \/ Command \/ Abort
    \/ PrepareOutputs \/ MatchPublicKey
    \/ ReadMetadata \/ ReadCertificate \/ Approve \/ Decline \/ Authorize
    \/ WriteGeneratedKey \/ WriteImportedKey \/ WriteCertificate
    \/ MoveKey \/ DeleteKey \/ SavePublicKey \/ KeepOutput

Spec == Init /\ [][Next]_vars

-----------------------------------------------------------------------------
(* Properties.                                                              *)

(* README lines 57-64: generating, importing and raw object writes replace  *)
(* or remove a key or certificate that was on the card only if the user     *)
(* agreed, in this same command, to lose the content of that slot.          *)
ReplacedWithConsent ==
    [][\A s \in Slots :
         /\ job.op \notin Unasked
         /\ \/ keys[s] # None /\ keys'[s] # keys[s]
            \/ certs[s] # None /\ certs'[s] # certs[s]
         => s \in consent]_vars

(* "Batch generation confirms all slots before any write": when a batch has *)
(* changed any slot, each slot of it that held something when the command   *)
(* started has been confirmed.                                              *)
BatchConfirmedFirst ==
    job.op = "generate-batch" /\ keys # before.keys =>
        \A s \in Range(job.slots) :
            before.keys[s] # None \/ before.certs[s] # None => s \in consent

(* Of the keys a batch has generated at most one has its public key on no   *)
(* disk, and a batch that reports success has left them all in their files. *)
Generated == {i \in DOMAIN job.slots : keys[job.slots[i]] # before.keys[job.slots[i]]}
Saved(i)  == keys[job.slots[i]] \in spares \cup {files[outputs[i]]}

BatchKeysSaved ==
    job.op = "generate-batch" =>
        /\ Cardinality({i \in Generated : ~Saved(i)}) <= 1
        /\ result = "ok" => \A i \in DOMAIN job.slots :
                                /\ i \in Generated
                                /\ keys[job.slots[i]] = files[outputs[i]]

=============================================================================
