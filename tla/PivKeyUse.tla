----------------------------- MODULE PivKeyUse -----------------------------
(***************************************************************************)
(* The commands of ckman that use a PIV key or show its public key, run in *)
(* any order with those that provision the same card: piv sign, decrypt,   *)
(* derive, decapsulate and agree-sm2, certificates request, and keys       *)
(* export with or without --verify.                                        *)
(*                                                                         *)
(* The first five are tried without a PIN and repeated with one if the     *)
(* card asks for it (run_with_pin); the last two verify the PIN at once.   *)
(* A signature, a secret, a request and a public key are identified by the *)
(* key they were made with or name.                                        *)
(***************************************************************************)
EXTENDS PivProvisioning

VARIABLES
    uses,    \* private-key operations the card has carried out for the command
    pin,     \* the PIN the user gave: "none", "right" or "wrong"
    spent    \* PIN tries the command has used up

useVars == <<vars, uses, pin, spent>>

Plain    == {"sign", "secret"}    \* "secret" is any of decrypt to agree-sm2
Signing  == {"request", "export-verified"}
Prepared == {"secret", "request"}

Unused == uses' = 0 /\ pin' = "none" /\ spent' = 0
Untouched == UNCHANGED <<card, uses, pin, spent>>

UseInit == Init /\ uses = 0 /\ pin = "none" /\ spent = 0

-----------------------------------------------------------------------------
(* Starting. *)

Sign(s)       == s # Attestation /\ Start("sign", <<s>>, None, "algorithm")
UseSecret(s)  == s # Attestation /\ Start("secret", <<s>>, None, "output")
Request(s, k) == s # Attestation /\ Start("request", <<s>>, k, "output")
Export(s)     == Start("export", <<s>>, None, "public")
ExportVerified(s) == s # Attestation /\ Start("export-verified", <<s>>, None, "public")

BeginUse ==
    /\ \E s \in Slots :
          \/ Sign(s) \/ UseSecret(s) \/ Export(s) \/ ExportVerified(s)
          \/ \E k \in Keys : Request(s, k)
    /\ Unused

(* The file for a secret or a request is opened before the card is touched. *)
PrepareOutput ==
    /\ pc = "output"
    /\ \E paths \in PathMaps : outputs' = Destinations(job.slots, paths)
    /\ Go(IF job.op = "secret" THEN "algorithm" ELSE "request")
    /\ UNCHANGED <<at, found, consent, files, spares>>
    /\ Untouched

-----------------------------------------------------------------------------
(* What the slot's metadata says. *)

Readable == firmware # "old" /\ keys[slot] # None

(* A key that cannot do what is asked ends the command here (Abort).        *)
slot_algorithm ==
    /\ pc = "algorithm"
    /\ IF Readable THEN Go("try") /\ UNCHANGED <<at, found, consent>> ELSE Stop("failed")
    /\ UNCHANGED disk /\ Untouched

(* PUBLIC-KEY is compared with the slot's key where the card reports it.    *)
MatchRequest ==
    /\ pc = "request"
    /\ IF Readable /\ Comparable
       THEN Go("pin") /\ UNCHANGED <<at, found, consent>>
       ELSE Stop("failed")
    /\ UNCHANGED disk /\ Untouched

ReadPublicKey ==
    /\ pc = "public"
    /\ IF Supported(slot) /\ ReportedKey(slot) # None
       THEN /\ job' = [job EXCEPT !.key = ReportedKey(slot)]
            /\ pc' = IF job.op = "export" THEN "deliver" ELSE "pin"
            /\ UNCHANGED <<at, found, consent, result, before>>
       ELSE Stop("failed")
    /\ UNCHANGED disk /\ Untouched

-----------------------------------------------------------------------------
(* Using the key.  The answer of an operation the card carried out can be   *)
(* lost; whether the card wants the PIN depends on the key's policy.        *)

(* Mutant: any failure is taken for a missing PIN.                          *)
needs_pinAnyFailure(executed) == TRUE

(* The card says that it wants the PIN only instead of using the key.       *)
needs_pin(executed) == ~executed

Used     == uses' = uses + 1 /\ UNCHANGED spent
Returned == Go("deliver") /\ UNCHANGED <<at, found, consent>>

TryWithoutPin ==
    /\ pc = "try"
    /\ \/ Used /\ Returned
       \/ \E executed \in BOOLEAN :
             /\ IF executed THEN Used ELSE UNCHANGED <<uses, spent>>
             /\ IF needs_pin(executed)
                THEN Go("pin") /\ UNCHANGED <<at, found, consent>>
                ELSE Stop("failed")
    /\ UNCHANGED <<card, disk, pin>>

resolve_pin ==
    /\ pc = "pin"
    /\ pin' \in {"right", "wrong"}
    /\ Go("verify")
    /\ UNCHANGED <<at, found, consent, card, disk, uses, spent>>

UseWithPin ==
    /\ pc = "verify"
    /\ \/ pin = "wrong" /\ spent' = spent + 1 /\ UNCHANGED uses /\ Stop("failed")
       \/ pin = "right" /\ Used /\ (Returned \/ Stop("failed"))
    /\ UNCHANGED <<card, disk, pin>>

-----------------------------------------------------------------------------
(* The output. *)

Product == IF job.op \in Plain THEN keys[slot] ELSE job.key

verify_signature == job.op = "export-verified" => keys[slot] = job.key

Deliver ==
    /\ pc = "deliver" /\ verify_signature
    /\ \/ /\ \E paths \in PathMaps :
                /\ job.op \in Prepared => Destinations(job.slots, paths) = outputs
                /\ files' = [files EXCEPT ![paths[slot]] = Product]
          /\ Stop("ok") /\ UNCHANGED spares
       \/ /\ job.op \in Prepared    \* complete, under its temporary name
          /\ spares' = spares \cup {Product}
          /\ Stop("failed") /\ UNCHANGED files
    /\ UNCHANGED outputs /\ Untouched

-----------------------------------------------------------------------------
Provision == Next /\ IF pc = "idle" THEN Unused ELSE UNCHANGED <<uses, pin, spent>>

UseNext ==
    \/ Provision
    \/ BeginUse \/ PrepareOutput
    \/ slot_algorithm \/ MatchRequest \/ ReadPublicKey
    \/ TryWithoutPin \/ resolve_pin \/ UseWithPin \/ Deliver

UseSpec == UseInit /\ [][UseNext]_useVars

-----------------------------------------------------------------------------
(* Properties. *)

(* piv.rs:724, "resolve the PIN (argument or prompt) and retry once": the   *)
(* key is used at most once however answers are lost, one PIN try at most   *)
(* is spent and then the key was not used, and a command that reports       *)
(* success has used the key if that is what it is for.                      *)
KeyUsedOnce ==
    /\ uses + spent <= 1
    /\ pc = "idle" /\ result = "ok" => (uses = 1 <=> job.op \in Plain \cup Signing)

(* On a card that reports public keys no slot with a key is given, by       *)
(* certificates import and generate, a certificate for another key; and no  *)
(* file a request, an export or a public key of another slot.               *)
NamedKeysMatch ==
    [][firmware = "full" =>
         /\ \A s \in Slots :
               /\ keys[s] # None /\ certs'[s] # certs[s]
               /\ job.op \in {"import-certificate", "generate-certificate"}
               => certs'[s] = keys[s]
         /\ \A f \in Files : files'[f] \notin {None, files[f]} => files'[f] = keys[slot]]_vars
=============================================================================
