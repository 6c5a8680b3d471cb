---------------------------- MODULE PivKeyProofs ----------------------------
(***************************************************************************)
(* For any slots, keys, batches and files, and any sequence of commands.   *)
(* Provisioning (Spec): nothing is replaced without consent, a batch is    *)
(* confirmed as a whole before its first write, and its keys are saved.    *)
(* With commands that use keys in between (UseSpec): the key is used once, *)
(* for one PIN try at most, and what is certified or published is the key  *)
(* of the slot.                                                            *)
(***************************************************************************)
EXTENDS PivKeyUse, FiniteSetTheorems, TLAPS

-----------------------------------------------------------------------------
(* Provisioning. *)

(* The content of s that this command may destroy.                          *)
AtRisk(s) == (job.op \in KeyWriting /\ keys[s] # None) \/ certs[s] # None

Asked(i) == AtRisk(job.slots[i]) => job.slots[i] \in consent

CommandShape ==
    /\ keys \in [Slots -> Content] /\ certs \in [Slots -> Content]
    /\ job.op \in {"none"} \cup KeyWriting \cup CertWriting \cup Unasked
    /\ job.slots \in Seq(Slots)
    /\ job.key \in Content
    /\ at \in Nat \ {0}
    /\ consent \subseteq Slots

(* Which commands pass where, and with how many slots.                      *)
Stage ==
    /\ pc \in {"idle", "prepare", "match", "metadata", "certificate", "ask",
               "authorize", "write", "save"}
    /\ pc = "prepare" => job.op \in KeyWriting /\ at = 1
    /\ pc = "match" => job.op \in CertWriting
    /\ pc = "metadata" => job.op \in KeyWriting
    /\ pc \in {"certificate", "ask"} => job.op \in KeyWriting \cup CertWriting
    /\ pc = "save" => job.op \in KeyWriting
    /\ pc # "idle" /\ job.op \in CertWriting => Len(job.slots) = 1
    /\ pc \notin {"idle", "prepare"} => IsInjective(job.slots) \/ job.op \in Unasked
    /\ pc \notin {"idle", "prepare"} => at \in DOMAIN job.slots

(* What has been inspected so far and what may be written from here on.     *)
Consent ==
    /\ pc \in {"match", "metadata", "certificate", "ask"} =>
          \A i \in DOMAIN job.slots : i < at => Asked(i)
    /\ pc = "certificate" /\ job.op \in KeyWriting /\ keys[slot] # None =>
          "key" \in found
    /\ pc \in {"authorize", "write"} /\ job.op \notin Unasked =>
          \A i \in DOMAIN job.slots : i >= at => Asked(i)
    /\ pc = "save" => \A i \in DOMAIN job.slots : i > at => Asked(i)

ConsentInv == CommandShape /\ Stage /\ Consent

-----------------------------------------------------------------------------
USE DEF Content

(* Where each kind of command starts, and with how many slots.              *)
Suitable(op, slots, k, first) ==
    /\ op \in KeyWriting \cup CertWriting \cup Unasked
    /\ slots \in Seq(Slots) /\ k \in Content
    /\ first \in {"prepare", "match", "metadata", "certificate", "authorize"}
    /\ first \in {"prepare", "metadata"} => op \in KeyWriting
    /\ first \in {"match", "certificate"} => op \in CertWriting
    /\ first = "authorize" => op \in Unasked
    /\ first = "prepare" \/ Len(slots) = 1 \/ (op \in Unasked /\ Len(slots) >= 1)

(* Starting a command: nothing has been inspected and nothing approved.     *)
LEMMA StartKeepsConsent ==
    ASSUME ConsentInv, NEW op, NEW slots, NEW k, NEW first,
           Suitable(op, slots, k, first), Start(op, slots, k, first)
    PROVE  ConsentInv'
<1> op \in KeyWriting \cup CertWriting \cup Unasked /\ slots \in Seq(Slots) /\ k \in Content
  BY DEF Suitable
<1>1. CommandShape'
  BY DEF ConsentInv, CommandShape, Start, card
<1>2. Stage'
  <2>1. first # "prepare" => 1 \in DOMAIN slots
    BY DEF Suitable
  <2>2. Len(slots) = 1 => IsInjective(slots)
    BY DEF IsInjective
  <2>3. op \in CertWriting => first # "prepare" /\ op \notin Unasked
    BY DEF KeyWriting, CertWriting, Unasked, Suitable
  <2> QED
    BY <2>1, <2>2, <2>3 DEF Stage, Start, Suitable
<1>3. Consent'
  <2>1. op \in Unasked => op \notin KeyWriting \cup CertWriting
    BY DEF KeyWriting, CertWriting, Unasked
  <2>2. op \in CertWriting => op \notin KeyWriting
    BY DEF KeyWriting, CertWriting
  <2> QED
    BY <2>1, <2>2 DEF Consent, Start, slot, Suitable
<1> QED BY <1>1, <1>2, <1>3 DEF ConsentInv

(* A command that ends leaves nothing to inspect, whatever it wrote.        *)
LEMMA StopKeepsConsent ==
    ASSUME ConsentInv, NEW outcome, Stop(outcome),
           keys' \in [Slots -> Content], certs' \in [Slots -> Content]
    PROVE  ConsentInv'
BY DEF ConsentInv, CommandShape, Stage, Consent, Stop

LEMMA StartsKeepConsent ==
    ASSUME ConsentInv, Command
    PROVE  ConsentInv'
<1>1. ASSUME NEW s \in Slots, Generate(s)
      PROVE  ConsentInv'
  <2>1. Start("generate", <<s>>, None, "prepare")
    BY <1>1 DEF Generate
  <2>2. Suitable("generate", <<s>>, None, "prepare")
    BY DEF Suitable, KeyWriting, CertWriting, Unasked
  <2> QED BY <2>1, <2>2, StartKeepsConsent
<1>2. ASSUME NEW b \in Batches, GenerateBatch(b)
      PROVE  ConsentInv'
  <2>1. Start("generate-batch", b, None, "prepare")
    BY <1>2 DEF GenerateBatch
  <2>2. Suitable("generate-batch", b, None, "prepare")
    <3>1. b \in Seq(Slots \ {Attestation})
      BY ProvisioningAssumption
    <3>2. b \in Seq(Slots)
      BY <3>1
    <3>3. "generate-batch" \in KeyWriting
      BY DEF KeyWriting
    <3> QED BY <3>2, <3>3 DEF Suitable
  <2> QED BY <2>1, <2>2, StartKeepsConsent
<1>3. ASSUME NEW s \in Slots, NEW k \in Keys, Import(s, k)
      PROVE  ConsentInv'
  <2>1. Start("import-key", <<s>>, k, "metadata")
    BY <1>3 DEF Import
  <2>2. Suitable("import-key", <<s>>, k, "metadata")
    BY DEF Suitable, KeyWriting, CertWriting, Unasked
  <2> QED BY <2>1, <2>2, StartKeepsConsent
<1>4. ASSUME NEW s \in Slots, NEW k \in Keys, ImportCertificate(s, k)
      PROVE  ConsentInv'
  <2>1. Start("import-certificate", <<s>>, k, "match")
    BY <1>4 DEF ImportCertificate
  <2>2. Suitable("import-certificate", <<s>>, k, "match")
    BY DEF Suitable, KeyWriting, CertWriting, Unasked
  <2> QED BY <2>1, <2>2, StartKeepsConsent
<1>5. ASSUME NEW s \in Slots, NEW k \in Content, GenerateCertificate(s, k)
      PROVE  ConsentInv'
  <2>1. Start("generate-certificate", <<s>>, k, "match")
    BY <1>5 DEF GenerateCertificate
  <2>2. Suitable("generate-certificate", <<s>>, k, "match")
    BY DEF Suitable, KeyWriting, CertWriting, Unasked
  <2> QED BY <2>1, <2>2, StartKeepsConsent
<1>6. ASSUME NEW s \in Slots, DeleteCertificate(s)
      PROVE  ConsentInv'
  <2>1. Start("delete-certificate", <<s>>, None, "certificate")
    BY <1>6 DEF DeleteCertificate
  <2>2. Suitable("delete-certificate", <<s>>, None, "certificate")
    BY DEF Suitable, KeyWriting, CertWriting, Unasked
  <2> QED BY <2>1, <2>2, StartKeepsConsent
<1>7. ASSUME NEW s \in Slots, NEW k \in Content, ImportObject(s, k)
      PROVE  ConsentInv'
  <2>1. Start("import-object", <<s>>, k, "certificate")
    BY <1>7 DEF ImportObject
  <2>2. Suitable("import-object", <<s>>, k, "certificate")
    BY DEF Suitable, KeyWriting, CertWriting, Unasked
  <2> QED BY <2>1, <2>2, StartKeepsConsent
<1>8. ASSUME NEW s \in Slots, NEW t \in Slots, Move(s, t)
      PROVE  ConsentInv'
  <2>1. Start("move", <<s, t>>, None, "authorize")
    BY <1>8 DEF Move
  <2>2. Suitable("move", <<s, t>>, None, "authorize")
    BY DEF Suitable, KeyWriting, CertWriting, Unasked
  <2> QED BY <2>1, <2>2, StartKeepsConsent
<1>9. ASSUME NEW s \in Slots, Delete(s)
      PROVE  ConsentInv'
  <2>1. Start("delete-key", <<s>>, None, "authorize")
    BY <1>9 DEF Delete
  <2>2. Suitable("delete-key", <<s>>, None, "authorize")
    BY DEF Suitable, KeyWriting, CertWriting, Unasked
  <2> QED BY <2>1, <2>2, StartKeepsConsent
<1> QED
  BY <1>1, <1>2, <1>3, <1>4, <1>5, <1>6, <1>7, <1>8, <1>9 DEF Command

-----------------------------------------------------------------------------
(* The preflight: an index is passed only when its slot is empty or its     *)
(* content was shown and approved.                                          *)
LEMMA InspectedKeepsConsent ==
    ASSUME ConsentInv, pc \in {"certificate", "ask"}, Inspected, UNCHANGED card,
           consent \subseteq consent', consent' \subseteq Slots,
           AtRisk(slot) => slot \in consent'
    PROVE  ConsentInv'
<1>1. /\ job' = job /\ at \in DOMAIN job.slots /\ at \in Nat
      /\ job.op \in KeyWriting \cup CertWriting /\ job.slots \in Seq(Slots)
      /\ IsInjective(job.slots)
  <2>1. job.op \in KeyWriting \cup CertWriting => job.op \notin Unasked
    BY DEF KeyWriting, CertWriting, Unasked
  <2> QED BY <2>1 DEF ConsentInv, CommandShape, Stage, Inspected, Go
<1>2. \A i \in DOMAIN job.slots : i <= at => Asked(i)'
  <2> SUFFICES ASSUME NEW i \in DOMAIN job.slots, i <= at
               PROVE  Asked(i)'
    OBVIOUS
  <2>1. AtRisk(job.slots[i])' <=> AtRisk(job.slots[i])
    BY <1>1 DEF AtRisk, card
  <2>2. CASE i = at
    BY <1>1, <2>1, <2>2 DEF Asked, slot
  <2>3. CASE i < at
    BY <1>1, <2>1, <2>3 DEF ConsentInv, Consent, Asked
  <2> QED BY <1>1, <2>2, <2>3
<1>3. CASE at < Len(job.slots)
  <2>1. at' = at + 1 /\ pc' = "metadata" /\ at' \in DOMAIN job.slots
    BY <1>1, <1>3 DEF Inspected, Go
  <2>2. job.op \in KeyWriting
    <3>1. Len(job.slots) \in Nat /\ at \in Nat /\ at >= 1
      BY <1>1
    <3>2. job.op \notin CertWriting
      <4>1. pc # "idle"
        OBVIOUS
      <4>2. Len(job.slots) # 1
        <5>1. \A n, a \in Nat : a >= 1 /\ a < n => n # 1
          OBVIOUS
        <5> QED BY <1>3, <3>1, <5>1
      <4> QED BY <4>1, <4>2 DEF ConsentInv, Stage
    <3> QED BY <1>1, <3>2
  <2>3. CommandShape' /\ Stage'
    BY <1>1, <2>1, <2>2 DEF ConsentInv, CommandShape, Stage, card
  <2>4. Consent'
    BY <1>1, <1>2, <2>1 DEF Consent
  <2> QED BY <2>3, <2>4 DEF ConsentInv
<1>4. CASE ~(at < Len(job.slots))
  <2>1. at' = 1 /\ pc' = "authorize" /\ at = Len(job.slots)
    BY <1>1, <1>4 DEF Inspected, Go
  <2>2. CommandShape' /\ Stage'
    BY <1>1, <2>1 DEF ConsentInv, CommandShape, Stage, card
  <2>3. Consent'
    BY <1>1, <1>2, <2>1 DEF Consent
  <2> QED BY <2>2, <2>3 DEF ConsentInv
<1> QED BY <1>3, <1>4

LEMMA PreflightKeepsConsent ==
    ASSUME ConsentInv,
           PrepareOutputs \/ MatchPublicKey \/ ReadMetadata
             \/ ReadCertificate \/ Approve \/ Decline \/ Authorize
    PROVE  ConsentInv'
<1> keys \in [Slots -> Content] /\ certs \in [Slots -> Content]
  BY DEF ConsentInv, CommandShape
<1>1. CASE PrepareOutputs
  <2> PICK paths \in PathMaps :
         IF ValidBatch(job.slots, paths)
         THEN /\ outputs' = Destinations(job.slots, paths)
              /\ Go("metadata") /\ UNCHANGED <<at, found, consent>>
         ELSE Stop("failed") /\ UNCHANGED outputs
    BY <1>1 DEF PrepareOutputs
  <2>1. CASE ValidBatch(job.slots, paths)
    <3>1. /\ pc = "prepare" /\ pc' = "metadata"
          /\ UNCHANGED <<at, found, consent, keys, certs, job>>
      BY <1>1, <2>1 DEF PrepareOutputs, Go, card
    <3>2. IsInjective(job.slots) /\ job.slots # <<>> /\ job.op \in KeyWriting
      BY <2>1, <3>1 DEF ValidBatch, ConsentInv, Stage
    <3>3. at = 1
      BY <3>1 DEF ConsentInv, Stage
    <3>4. at \in DOMAIN job.slots
      BY <3>2, <3>3 DEF ConsentInv, CommandShape
    <3>5. CommandShape' /\ Stage'
      BY <3>1, <3>2, <3>4 DEF ConsentInv, CommandShape, Stage
    <3>6. Consent'
      BY <3>1, <3>3, <3>4 DEF ConsentInv, CommandShape, Consent
    <3> QED BY <3>5, <3>6 DEF ConsentInv
  <2>2. CASE ~ValidBatch(job.slots, paths)
    BY <1>1, <2>2, StopKeepsConsent DEF PrepareOutputs, card
  <2> QED BY <2>1, <2>2
<1>2. CASE MatchPublicKey
  <2>1. CASE Comparable
    <3>1. /\ pc = "match" /\ pc' = "certificate" /\ job' = [job EXCEPT !.key = Certified]
          /\ UNCHANGED <<at, consent, keys, certs>>
      BY <1>2, <2>1 DEF MatchPublicKey, card
    <3>2. job'.op = job.op /\ job'.slots = job.slots /\ job'.key = Certified
      BY <3>1 DEF ConsentInv, CommandShape
    <3>3. at \in DOMAIN job.slots
      BY <3>1 DEF ConsentInv, Stage
    <3>4. Certified \in Content
      BY <3>3 DEF Certified, ReportedKey, slot, ConsentInv, CommandShape
    <3>5. CommandShape' /\ Stage'
      BY <3>1, <3>2, <3>4 DEF ConsentInv, CommandShape, Stage
    <3>6. job.op \in CertWriting /\ job.op \notin KeyWriting
      BY <3>1 DEF ConsentInv, Stage, KeyWriting, CertWriting
    <3>7. Consent'
      BY <3>1, <3>2, <3>6 DEF ConsentInv, Consent, Asked, AtRisk
    <3> QED BY <3>5, <3>7 DEF ConsentInv
  <2>2. CASE ~Comparable
    BY <1>2, <2>2, StopKeepsConsent DEF MatchPublicKey, card
  <2> QED BY <2>1, <2>2
<1>3. CASE ReadMetadata
  <2>1. CASE Supported(slot)
    <3>1. /\ pc = "metadata" /\ pc' = "certificate"
          /\ UNCHANGED <<at, consent, keys, certs, job>>
          /\ keys[slot] # None => "key" \in found'
      BY <1>3, <2>1 DEF ReadMetadata, Go, card
    <3>2. CommandShape' /\ Stage'
      BY <3>1 DEF ConsentInv, CommandShape, Stage
    <3>3. Consent'
      BY <3>1 DEF ConsentInv, Consent, Asked, AtRisk, slot
    <3> QED BY <3>2, <3>3 DEF ConsentInv
  <2>2. CASE ~Supported(slot)
    BY <1>3, <2>2, StopKeepsConsent DEF ReadMetadata, card
  <2> QED BY <2>1, <2>2
<1>4. CASE ReadCertificate
  <2>1. CASE Supported(slot) /\ found = {} /\ certs[slot] = None
    <3>1. pc = "certificate" /\ Inspected /\ UNCHANGED consent /\ UNCHANGED card
      BY <1>4, <2>1 DEF ReadCertificate
    <3>2. ~AtRisk(slot)
      BY <2>1, <3>1 DEF AtRisk, ConsentInv, Consent
    <3>3. consent' \subseteq Slots
      BY <3>1 DEF ConsentInv, CommandShape
    <3> QED BY <3>1, <3>2, <3>3, InspectedKeepsConsent
  <2>2. CASE Supported(slot) /\ (found # {} \/ certs[slot] # None)
    <3>1. /\ pc = "certificate" /\ pc' = "ask"
          /\ UNCHANGED <<at, consent, keys, certs, job>>
      BY <1>4, <2>2 DEF ReadCertificate, Go, card
    <3>2. CommandShape' /\ Stage'
      BY <3>1 DEF ConsentInv, CommandShape, Stage
    <3>3. Consent'
      BY <3>1 DEF ConsentInv, Consent, Asked, AtRisk
    <3> QED BY <3>2, <3>3 DEF ConsentInv
  <2>3. CASE ~Supported(slot)
    BY <1>4, <2>3, StopKeepsConsent DEF ReadCertificate, card
  <2> QED BY <1>4, <2>1, <2>2, <2>3 DEF ReadCertificate
<1>5. CASE Approve
  <2>1. pc = "ask" /\ consent' = consent \cup {slot} /\ Inspected /\ UNCHANGED card
    BY <1>5 DEF Approve
  <2>2. slot \in Slots
    BY <2>1 DEF slot, ConsentInv, CommandShape, Stage
  <2>3. consent' \subseteq Slots
    BY <2>1, <2>2 DEF ConsentInv, CommandShape
  <2> QED BY <2>1, <2>3, InspectedKeepsConsent
<1>6. CASE Decline
  BY <1>6, StopKeepsConsent DEF Decline, card
<1>7. CASE Authorize
  <2>1. pc = "authorize" /\ pc' = "write" /\ UNCHANGED <<at, consent, keys, certs, job>>
    BY <1>7 DEF Authorize, Go, card
  <2>2. CommandShape' /\ Stage'
    BY <2>1 DEF ConsentInv, CommandShape, Stage
  <2>3. Consent'
    BY <2>1 DEF ConsentInv, Consent, Asked, AtRisk
  <2> QED BY <2>2, <2>3 DEF ConsentInv
<1> QED BY <1>1, <1>2, <1>3, <1>4, <1>5, <1>6, <1>7

-----------------------------------------------------------------------------
(* Writing: the slots of a batch are distinct, so a key written to one of   *)
(* them puts no content into those still to come.                           *)
LEMMA WritingKeepsConsent ==
    ASSUME ConsentInv,
           WriteGeneratedKey \/ WriteImportedKey \/ WriteCertificate
             \/ MoveKey \/ DeleteKey \/ SavePublicKey \/ KeepOutput \/ Abort
    PROVE  ConsentInv'
<1> keys \in [Slots -> Content] /\ certs \in [Slots -> Content]
  BY DEF ConsentInv, CommandShape
<1> job.key \in Content /\ job.slots \in Seq(Slots)
  BY DEF ConsentInv, CommandShape
<1>0. pc = "write" => slot \in Slots
  BY DEF slot, ConsentInv, CommandShape, Stage
<1>1. CASE WriteGeneratedKey
  <2>1. PICK k \in Keys : keys' = [keys EXCEPT ![slot] = k]
    BY <1>1 DEF WriteGeneratedKey, Fresh
  <2>2. keys' \in [Slots -> Content] /\ certs' = certs /\ pc = "write"
    BY <1>1, <2>1 DEF WriteGeneratedKey
  <2>3. CASE Answered("save")
    <3>1. pc' = "save" /\ UNCHANGED <<at, consent, job>>
      BY <2>3 DEF Answered, Go
    <3>2. job.op \in KeyWriting /\ job.op \notin Unasked /\ job.op \notin CertWriting
      BY <1>1 DEF WriteGeneratedKey, KeyWriting, CertWriting, Unasked
    <3>3. CommandShape' /\ Stage'
      BY <2>2, <3>1, <3>2 DEF ConsentInv, CommandShape, Stage
    <3>4. ASSUME NEW i \in DOMAIN job.slots, i > at
          PROVE  Asked(i)'
      <4>1. i \in Nat /\ at \in DOMAIN job.slots /\ at \in Nat /\ IsInjective(job.slots)
        BY <2>2, <3>2 DEF ConsentInv, CommandShape, Stage
      <4>2. job.slots[i] # slot
        BY <3>4, <4>1 DEF IsInjective, slot
      <4>3. Asked(i)
        BY <2>2, <3>2, <3>4, <4>1 DEF ConsentInv, Consent
      <4>4. keys'[job.slots[i]] = keys[job.slots[i]]
        BY <2>1, <3>4, <4>2
      <4> QED BY <2>2, <3>1, <4>3, <4>4 DEF Asked, AtRisk
    <3>5. Consent'
      BY <3>1, <3>4 DEF Consent
    <3> QED BY <3>3, <3>5 DEF ConsentInv
  <2>4. CASE Stop("failed")
    BY <2>2, <2>4, StopKeepsConsent
  <2> QED BY <1>1, <2>3, <2>4 DEF WriteGeneratedKey
<1>2. CASE WriteImportedKey
  <2>1. keys' \in [Slots -> Content] /\ certs' = certs
    BY <1>0, <1>2 DEF WriteImportedKey
  <2> QED BY <1>2, <2>1, StopKeepsConsent DEF WriteImportedKey, Ended
<1>3. CASE WriteCertificate
  <2>1. certs' \in [Slots -> Content] /\ keys' = keys
    BY <1>0, <1>3 DEF WriteCertificate
  <2> QED BY <1>3, <2>1, StopKeepsConsent DEF WriteCertificate, Ended
<1>4. CASE MoveKey
  <2>1. keys' \in [Slots -> Content] /\ certs' \in [Slots -> Content]
    <3> DEFINE s == job.slots[1]  t == job.slots[2]
    <3>1. keys' = [keys EXCEPT ![s] = None, ![t] = keys[s]]
      BY <1>4 DEF MoveKey
    <3>2. certs' = certs \/ certs' = [certs EXCEPT ![s] = None, ![t] = certs[s]]
      BY <1>4 DEF MoveKey
    <3>3. s \in Slots => keys[s] \in Content /\ certs[s] \in Content
      OBVIOUS
    <3>4. s \in Slots
      BY <1>0, <1>4 DEF MoveKey, slot, ConsentInv, Stage, CommandShape
    <3> QED BY <3>1, <3>2, <3>3, <3>4
  <2> QED BY <1>4, <2>1, StopKeepsConsent DEF MoveKey, Ended
<1>5. CASE DeleteKey
  <2>1. keys' \in [Slots -> Content] /\ certs' \in [Slots -> Content]
    BY <1>0, <1>5 DEF DeleteKey
  <2> QED BY <1>5, <2>1, StopKeepsConsent DEF DeleteKey, Ended
<1>6. CASE SavePublicKey
  <2>1. pc = "save" /\ UNCHANGED <<keys, certs>> /\ NextKey
    BY <1>6 DEF SavePublicKey, card
  <2>2. CASE at < Len(job.slots)
    <3>1. pc' = "write" /\ at' = at + 1 /\ UNCHANGED <<consent, job>>
      BY <2>1, <2>2 DEF NextKey, Go
    <3>2. at \in DOMAIN job.slots /\ job.op \in KeyWriting
      BY <2>1 DEF ConsentInv, Stage
    <3>3. at' \in DOMAIN job.slots /\ at' \in Nat \ {0}
      BY <2>2, <3>1, <3>2
    <3>4. CommandShape' /\ Stage'
      BY <2>1, <3>1, <3>3 DEF ConsentInv, CommandShape, Stage
    <3>5. \A i \in DOMAIN job.slots : i >= at' => i > at
      BY <3>1, <3>2
    <3>6. Consent'
      BY <2>1, <3>1, <3>5 DEF ConsentInv, Consent, Asked, AtRisk
    <3> QED BY <3>4, <3>6 DEF ConsentInv
  <2>3. CASE ~(at < Len(job.slots))
    BY <2>1, <2>3, StopKeepsConsent DEF NextKey
  <2> QED BY <2>2, <2>3
<1>7. CASE KeepOutput
  BY <1>7, StopKeepsConsent DEF KeepOutput, card
<1>8. CASE Abort
  BY <1>8, StopKeepsConsent DEF Abort, card
<1> QED BY <1>1, <1>2, <1>3, <1>4, <1>5, <1>6, <1>7, <1>8

LEMMA StepKeepsConsent == ConsentInv /\ [Next]_vars => ConsentInv'
<1> SUFFICES ASSUME ConsentInv, [Next]_vars PROVE ConsentInv'
  OBVIOUS
<1>1. CASE UNCHANGED vars
  BY <1>1 DEF vars, ConsentInv, CommandShape, Stage, Consent, Asked, AtRisk, slot
<1>2. CASE Next
  BY <1>2, StartsKeepConsent, PreflightKeepsConsent, WritingKeepsConsent DEF Next
<1> QED BY <1>1, <1>2

LEMMA ConsentInvariance == Spec => []ConsentInv
<1>1. Init => ConsentInv
  BY DEF Init, ConsentInv, CommandShape, Stage, Consent, KeyWriting, CertWriting
<1> QED BY <1>1, StepKeepsConsent, PTL DEF Spec

-----------------------------------------------------------------------------
(* Replacing or removing what a slot holds takes consent given in the same  *)
(* command, for key generation and import, certificate import, generation   *)
(* and deletion, and raw certificate object writes.                         *)
THEOREM NothingReplacedUnasked == Spec => ReplacedWithConsent
<1> DEFINE Replaced(s) == /\ job.op \notin Unasked
                          /\ \/ keys[s] # None /\ keys'[s] # keys[s]
                             \/ certs[s] # None /\ certs'[s] # certs[s]
<1>1. ASSUME ConsentInv, Next, NEW s \in Slots, Replaced(s)
      PROVE  s \in consent
  <2>1. ~(UNCHANGED <<keys, certs>>)
    BY <1>1
  <2>2. CASE WriteGeneratedKey \/ WriteImportedKey \/ WriteCertificate
    <3>1. pc = "write" /\ job.op \notin Unasked
      BY <1>1, <2>2 DEF WriteGeneratedKey, WriteImportedKey, WriteCertificate
    <3>2. at \in DOMAIN job.slots /\ at \in Nat
      BY <1>1, <3>1 DEF ConsentInv, CommandShape, Stage
    <3>3. Asked(at)
      BY <1>1, <3>1, <3>2 DEF ConsentInv, Consent
    <3>4. CASE WriteCertificate
      <4>1. keys' = keys /\ certs' = [certs EXCEPT ![slot] = job.key]
        BY <3>4 DEF WriteCertificate
      <4>2. s = slot /\ certs[s] # None
        BY <1>1, <4>1 DEF ConsentInv, CommandShape
      <4> QED BY <3>3, <4>2 DEF Asked, AtRisk, slot
    <3>5. CASE WriteGeneratedKey \/ WriteImportedKey
      <4>1. certs' = certs /\ job.op \in KeyWriting
        BY <3>5 DEF WriteGeneratedKey, WriteImportedKey, KeyWriting
      <4>2. \E k : keys' = [keys EXCEPT ![slot] = k]
        BY <3>5 DEF WriteGeneratedKey, WriteImportedKey
      <4>3. s = slot /\ keys[s] # None
        BY <1>1, <4>1, <4>2 DEF ConsentInv, CommandShape
      <4> QED BY <3>3, <4>1, <4>3 DEF Asked, AtRisk, slot
    <3> QED BY <2>2, <3>4, <3>5
  <2>3. CASE MoveKey \/ DeleteKey
    BY <1>1, <2>3 DEF MoveKey, DeleteKey, Unasked
  <2> QED
    BY <1>1, <2>1, <2>2, <2>3
    DEF Next, Command, Start, Generate, GenerateBatch, Import, ImportCertificate,
        GenerateCertificate, DeleteCertificate, ImportObject, Move, Delete, Abort,
        PrepareOutputs, MatchPublicKey, ReadMetadata, ReadCertificate, Approve,
        Decline, Authorize, SavePublicKey, KeepOutput, card
<1>2. ConsentInv /\ [Next]_vars => [\A s \in Slots : Replaced(s) => s \in consent]_vars
  <2> SUFFICES ASSUME ConsentInv, Next PROVE \A s \in Slots : Replaced(s) => s \in consent
    OBVIOUS
  <2> QED BY <1>1
<1>3. Spec => [][\A s \in Slots : Replaced(s) => s \in consent]_vars
  BY <1>2, ConsentInvariance, PTL DEF Spec
<1> QED BY <1>3 DEF ReplacedWithConsent

-----------------------------------------------------------------------------
(* A batch is confirmed as a whole.  Until it is authorised it has changed  *)
(* nothing, so that what the inspection saw is what the card held when the  *)
(* command started.                                                         *)
Preflight == {"prepare", "metadata", "certificate", "ask", "authorize"}

Confirmed ==
    \A i \in DOMAIN job.slots :
        before.keys[job.slots[i]] # None \/ before.certs[job.slots[i]] # None
            => job.slots[i] \in consent

BatchInv ==
    job.op = "generate-batch" =>
        /\ before.certs = certs
        /\ pc \in Preflight => before.keys = keys
        /\ pc # "match"
        /\ pc \in {"authorize", "write", "save"} \/ keys # before.keys => Confirmed

LEMMA StepKeepsBatch ==
    ASSUME ConsentInv, ConsentInv', BatchInv, Next
    PROVE  BatchInv'
<1> SUFFICES ASSUME job'.op = "generate-batch" PROVE BatchInv'
  BY DEF BatchInv
<1>1. CASE Command
  <2>1. before' = [keys |-> keys, certs |-> certs] /\ UNCHANGED <<keys, certs>>
    BY <1>1 DEF Command, Generate, GenerateBatch, Import, ImportCertificate,
        GenerateCertificate, DeleteCertificate, ImportObject, Move, Delete, Start, card
  <2>2. pc' = "prepare"
    BY <1>1 DEF Command, Generate, GenerateBatch, Import, ImportCertificate,
        GenerateCertificate, DeleteCertificate, ImportObject, Move, Delete, Start
  <2> QED BY <2>1, <2>2 DEF BatchInv
<1>2. CASE MatchPublicKey
  <2>1. CASE Comparable
    <3>1. pc = "match" /\ job' = [job EXCEPT !.key = Certified]
      BY <1>2, <2>1 DEF MatchPublicKey
    <3>2. job'.op = job.op
      BY <3>1 DEF ConsentInv, CommandShape
    <3> QED BY <3>1, <3>2 DEF BatchInv
  <2>2. CASE ~Comparable
    <3>1. pc = "match" /\ job' = job
      BY <1>2, <2>2 DEF MatchPublicKey, Stop
    <3> QED BY <3>1 DEF BatchInv
  <2> QED BY <2>1, <2>2
<1>3. CASE Abort \/ PrepareOutputs \/ ReadMetadata \/ ReadCertificate \/ Approve
           \/ Decline \/ Authorize
  <2>1. UNCHANGED <<keys, certs, job, before>> /\ consent \subseteq consent'
    BY <1>3 DEF Abort, PrepareOutputs, ReadMetadata, ReadCertificate, Approve, Decline,
        Authorize, Stop, Go, Inspected, card
  <2>2. \/ pc' = "idle"
        \/ pc \in Preflight /\ pc' \in Preflight \ {"authorize"}
        \/ pc \in Preflight /\ pc' = "authorize"
        \/ pc = "authorize" /\ pc' = "write"
    BY <1>3 DEF Abort, PrepareOutputs, ReadMetadata, ReadCertificate, Approve, Decline,
        Authorize, Stop, Go, Inspected, Preflight
  <2>3. Confirmed => Confirmed'
    BY <2>1 DEF Confirmed
  <2>4. CASE pc' = "idle"
    BY <2>1, <2>3, <2>4 DEF BatchInv, Preflight
  <2>5. CASE pc \in Preflight /\ pc' \in Preflight \ {"authorize"}
    BY <2>1, <2>3, <2>5 DEF BatchInv, Preflight
  <2>6. CASE pc \in Preflight /\ pc' = "authorize"
    <3>1. keys = before.keys /\ certs = before.certs
      BY <2>1, <2>6 DEF BatchInv
    <3>2. job'.op \in KeyWriting /\ job'.op \notin Unasked
      BY DEF KeyWriting, Unasked
    <3>3. \A i \in DOMAIN job'.slots : i >= at' => Asked(i)'
      BY <2>6, <3>2 DEF ConsentInv, Consent
    <3>4. at' = 1
      BY <1>3, <2>6 DEF Abort, PrepareOutputs, ReadMetadata, ReadCertificate, Approve,
          Decline, Authorize, Stop, Go, Inspected
    <3>5. \A i \in DOMAIN job.slots : i >= 1
      BY DEF ConsentInv, CommandShape
    <3>6. Confirmed'
      BY <2>1, <3>1, <3>2, <3>3, <3>4, <3>5 DEF Confirmed, Asked, AtRisk
    <3> QED BY <2>1, <2>6, <3>1, <3>6 DEF BatchInv
  <2>7. CASE pc = "authorize" /\ pc' = "write"
    BY <2>1, <2>3, <2>7 DEF BatchInv, Preflight
  <2> QED BY <2>2, <2>4, <2>5, <2>6, <2>7
<1>4. CASE WriteGeneratedKey \/ SavePublicKey \/ KeepOutput
  <2>1. UNCHANGED <<certs, job, before, consent>> /\ pc \in {"write", "save"}
    BY <1>4 DEF WriteGeneratedKey, SavePublicKey, KeepOutput, Answered, Stop, Go,
        NextKey, card
  <2>2. pc' \in {"idle", "write", "save"}
    BY <1>4 DEF WriteGeneratedKey, SavePublicKey, KeepOutput, Answered, Stop, Go, NextKey
  <2>3. Confirmed'
    BY <2>1 DEF BatchInv, Confirmed
  <2> QED BY <2>1, <2>2, <2>3 DEF BatchInv, Preflight
<1>5. CASE WriteImportedKey \/ WriteCertificate \/ MoveKey \/ DeleteKey
  BY <1>5 DEF WriteImportedKey, WriteCertificate, MoveKey, DeleteKey, Ended, Stop,
      CertWriting
<1> QED BY <1>1, <1>2, <1>3, <1>4, <1>5 DEF Next

(* Batch generation confirms every occupied slot before its first write,    *)
(* for every batch and every content of the card.                           *)
THEOREM BatchConfirmedAsAWhole == Spec => []BatchConfirmedFirst
<1>1. Init => BatchInv
  BY DEF Init, BatchInv
<1>2. ConsentInv /\ ConsentInv' /\ BatchInv /\ [Next]_vars => BatchInv'
  <2>1. ASSUME BatchInv, UNCHANGED vars PROVE BatchInv'
    BY <2>1 DEF vars, BatchInv, Confirmed
  <2> QED BY <2>1, StepKeepsBatch
<1>3. ConsentInv /\ BatchInv => BatchConfirmedFirst
  BY DEF ConsentInv, CommandShape, BatchInv, BatchConfirmedFirst, Confirmed, Range
<1> QED BY <1>1, <1>2, <1>3, ConsentInvariance, PTL DEF Spec

-----------------------------------------------------------------------------
(* The keys of a batch are saved one by one: those before the slot at work  *)
(* are in their files, those after it have not been generated.              *)
Unreached(i) == keys[job.slots[i]] = before.keys[job.slots[i]]
Finished(i)  == ~Unreached(i) /\ keys[job.slots[i]] = files[outputs[i]]

Writing ==
    /\ \A i \in DOMAIN job.slots : (i < at => Finished(i)) /\ (i > at => Unreached(i))
    /\ Unreached(at) <=> pc = "write"

OneUnsaved == \E m : \A i \in DOMAIN job.slots : i = m \/ Unreached(i) \/ Saved(i)

SavedInv ==
    /\ files = [f \in Files |-> files[f]]
    /\ pc # "idle" => result = "none"
    /\ job.op = "generate-batch" =>
          /\ pc \notin {"idle", "prepare"} =>
                outputs \in [DOMAIN job.slots -> Files] /\ IsInjective(outputs)
          /\ pc = "authorize" => at = 1
          /\ pc \in {"write", "save"} => Writing
          /\ pc = "idle" => OneUnsaved
          /\ pc = "idle" /\ result = "ok" => \A i \in DOMAIN job.slots : Finished(i)

(* At every step at most the key of the slot at work is not yet saved.      *)
LEMMA SavedSoFar ==
    ASSUME ConsentInv, BatchInv, SavedInv, job.op = "generate-batch"
    PROVE  OneUnsaved
<1>1. CASE pc = "idle"
  BY <1>1 DEF SavedInv
<1>2. CASE pc \in Preflight
  BY <1>2 DEF BatchInv, OneUnsaved, Unreached
<1>3. CASE pc \in {"write", "save"}
  <2>1. \A i \in DOMAIN job.slots : i < at \/ i = at \/ i > at
    BY DEF ConsentInv, CommandShape
  <2>2. \A i \in DOMAIN job.slots : i = at \/ Unreached(i) \/ Saved(i)
    BY <1>3, <2>1 DEF SavedInv, Writing, Finished, Saved
  <2> QED BY <2>2 DEF OneUnsaved
<1>4. pc # "match"
  BY DEF BatchInv
<1> QED BY <1>1, <1>2, <1>3, <1>4 DEF ConsentInv, Stage, Preflight

(* An end that leaves the card alone.                                       *)
LEMMA SavedWhenEnding ==
    ASSUME ConsentInv, BatchInv, SavedInv, pc # "idle", Stop("failed") \/ Stop("declined"),
           UNCHANGED <<keys, files, outputs>>, spares \subseteq spares'
    PROVE  SavedInv'
<1>1. job.op = "generate-batch" => OneUnsaved'
  BY SavedSoFar DEF OneUnsaved, Unreached, Saved, Stop
<1> QED BY <1>1 DEF SavedInv, Stop

LEMMA StepKeepsSaved ==
    ASSUME ConsentInv, ConsentInv', BatchInv, SavedInv, Next
    PROVE  SavedInv'
<1>1. CASE Command
  <2>1. /\ files' = [f \in Files |-> None] /\ result' = "none"
        /\ job'.op = "generate-batch" => pc' = "prepare"
        /\ pc' # "idle" /\ pc' # "write" /\ pc' # "save"
    BY <1>1 DEF Command, Generate, GenerateBatch, Import, ImportCertificate,
        GenerateCertificate, DeleteCertificate, ImportObject, Move, Delete, Start
  <2> QED BY <2>1 DEF SavedInv
<1>2. CASE Abort \/ Decline \/ KeepOutput
  BY <1>2, SavedWhenEnding DEF Abort, Decline, KeepOutput, card, disk
<1>3. CASE PrepareOutputs
  <2>1. CASE Stop("failed") /\ UNCHANGED outputs
    BY <1>3, <2>1, SavedWhenEnding DEF PrepareOutputs, card
  <2>2. CASE ~(Stop("failed") /\ UNCHANGED outputs)
    <3>1. PICK paths \in PathMaps :
            /\ outputs' = Destinations(job.slots, paths)
            /\ IsInjective(Destinations(job.slots, paths))
            /\ pc' = "metadata" /\ UNCHANGED <<job, result, files>>
      BY <1>3, <2>2 DEF PrepareOutputs, ValidBatch, Go
    <3>2. \A i \in DOMAIN job.slots : job.slots[i] \in Slots
      BY DEF ConsentInv, CommandShape
    <3>3. paths \in [Slots -> Files]
      BY ProvisioningAssumption
    <3>4. outputs' \in [DOMAIN job.slots -> Files] /\ IsInjective(outputs')
      BY <3>1, <3>2, <3>3 DEF Destinations
    <3> QED BY <1>3, <3>1, <3>4 DEF SavedInv, PrepareOutputs
  <2> QED BY <2>1, <2>2
<1>4. CASE MatchPublicKey \/ ReadMetadata \/ ReadCertificate \/ Approve \/ Authorize
  <2>1. /\ UNCHANGED <<keys, files, outputs, spares>>
        /\ pc \in {"match", "metadata", "certificate", "ask", "authorize"}
    BY <1>4 DEF MatchPublicKey, ReadMetadata, ReadCertificate, Approve, Authorize, card, disk
  <2>2. CASE Stop("failed")
    BY <2>1, <2>2, SavedWhenEnding
  <2>3. CASE ~Stop("failed") /\ pc # "match"
    <3>1. /\ UNCHANGED <<job, result, before>> /\ pc' # "idle" /\ pc' # "prepare" /\ pc' # "save"
          /\ pc' = "write" => pc = "authorize" /\ UNCHANGED at
          /\ pc' = "authorize" => at' = 1
      BY <1>4, <2>3 DEF MatchPublicKey, ReadMetadata, ReadCertificate, Approve, Authorize,
         Inspected, Go
    <3>2. ASSUME job.op = "generate-batch", pc' = "write" PROVE Writing'
      <4>1. before.keys = keys
        BY <3>1, <3>2 DEF BatchInv, Preflight
      <4>2. at = 1
        BY <3>1, <3>2 DEF SavedInv
      <4> QED BY <2>1, <3>1, <3>2, <4>1, <4>2 DEF Writing, Unreached, ConsentInv, CommandShape
    <3>3. pc # "idle" /\ pc # "prepare" /\ result' = "none"
      BY <2>1, <3>1 DEF SavedInv
    <3>4. files' = [f \in Files |-> files'[f]]
      BY <2>1 DEF SavedInv
    <3>5. ASSUME job.op = "generate-batch"
          PROVE  outputs' \in [DOMAIN job'.slots -> Files] /\ IsInjective(outputs')
      <4>1. outputs \in [DOMAIN job.slots -> Files] /\ IsInjective(outputs)
        BY <3>3, <3>5 DEF SavedInv
      <4> QED BY <2>1, <3>1, <4>1
    <3> QED BY <3>1, <3>2, <3>3, <3>4, <3>5 DEF SavedInv
  <2>4. CASE pc = "match"
    <3>1. job.op # "generate-batch"
      BY <2>4 DEF BatchInv
    <3>2. MatchPublicKey
      BY <1>4, <2>4 DEF ReadMetadata, ReadCertificate, Approve, Authorize
    <3>3. CASE Comparable
      <4>1. job' = [job EXCEPT !.key = Certified] /\ pc' = "certificate" /\ UNCHANGED result
        BY <3>2, <3>3 DEF MatchPublicKey
      <4>2. job'.op # "generate-batch"
        BY <3>1, <4>1 DEF ConsentInv, CommandShape
      <4> QED BY <2>1, <2>4, <4>1, <4>2 DEF SavedInv
    <3>4. CASE ~Comparable
      BY <2>2, <3>2, <3>4 DEF MatchPublicKey
    <3> QED BY <3>3, <3>4
  <2> QED BY <2>2, <2>3, <2>4
<1>5. CASE WriteGeneratedKey
  <2>1. PICK k \in Fresh : keys' = [keys EXCEPT ![slot] = k]
    BY <1>5 DEF WriteGeneratedKey
  <2>2. /\ pc = "write" /\ UNCHANGED <<files, outputs, spares, job, before, at>>
        /\ Stop("failed") \/ (pc' = "save" /\ UNCHANGED result)
    BY <1>5 DEF WriteGeneratedKey, Answered, Stop, Go, disk
  <2>3. ASSUME job.op = "generate-batch"
        PROVE  /\ \A i \in DOMAIN job.slots : (i < at => Finished(i)') /\ (i > at => Unreached(i)')
               /\ ~Unreached(at)'
    <3>1. slot \in Slots /\ k # keys[slot] /\ IsInjective(job.slots) /\ at \in DOMAIN job.slots
      BY <2>2, <2>3 DEF Fresh, ConsentInv, CommandShape, Stage, slot, Unasked
    <3>2. \A i \in DOMAIN job.slots : i # at => keys'[job.slots[i]] = keys[job.slots[i]]
      BY <2>1, <3>1 DEF slot, IsInjective, ConsentInv, CommandShape
    <3>3. keys'[slot] = k
      BY <2>1, <3>1 DEF ConsentInv, CommandShape
    <3>4. Writing /\ Unreached(at)
      BY <2>2, <2>3 DEF SavedInv, Writing
    <3>5. ~Unreached(at)'
      BY <2>2, <3>1, <3>3, <3>4 DEF Unreached, slot
    <3>6. \A i \in DOMAIN job.slots : i < at \/ i > at => i # at
      BY DEF ConsentInv, CommandShape
    <3> QED BY <2>2, <3>2, <3>4, <3>5, <3>6 DEF Writing, Finished, Unreached
  <2>4. ASSUME job.op = "generate-batch", pc' = "idle" PROVE OneUnsaved'
    <3>1. \A i \in DOMAIN job.slots : i < at \/ i = at \/ i > at
      BY DEF ConsentInv, CommandShape
    <3>2. \A i \in DOMAIN job.slots : i = at \/ Unreached(i)' \/ Saved(i)'
      BY <2>2, <2>3, <2>4, <3>1 DEF Finished, Saved
    <3> QED BY <2>2, <3>2 DEF OneUnsaved
  <2>5. ASSUME job.op = "generate-batch", pc' = "save" PROVE Writing'
    BY <2>2, <2>3, <2>5 DEF Writing
  <2>6. pc' = "idle" => result' = "failed"
    BY <2>2 DEF Stop
  <2> QED BY <2>2, <2>4, <2>5, <2>6 DEF SavedInv, Stop
<1>6. CASE SavePublicKey
  <2>1. /\ pc = "save" /\ files' = [files EXCEPT ![outputs[at]] = keys[slot]]
        /\ UNCHANGED <<keys, spares, outputs, job, before>>
        /\ \/ /\ pc' = "write" /\ at' = at + 1 /\ UNCHANGED result
           \/ /\ ~(at < Len(job.slots)) /\ pc' = "idle"
    BY <1>6 DEF SavePublicKey, NextKey, Stop, Go, card
  <2>2. files' = [f \in Files |-> files'[f]]
    BY <2>1 DEF SavedInv
  <2>3. ASSUME job.op = "generate-batch"
        PROVE  /\ \A i \in DOMAIN job.slots : i <= at => Finished(i)'
               /\ \A i \in DOMAIN job.slots : i > at => Unreached(i)'
    <3>1. /\ outputs \in [DOMAIN job.slots -> Files] /\ IsInjective(outputs)
          /\ Writing /\ ~Unreached(at) /\ at \in DOMAIN job.slots
      BY <2>1, <2>3 DEF SavedInv, Writing, ConsentInv, Stage
    <3>2. \A i \in DOMAIN job.slots :
            files'[outputs[i]] = IF i = at THEN keys[slot] ELSE files[outputs[i]]
      BY <2>1, <3>1 DEF SavedInv, IsInjective
    <3>3. \A i \in DOMAIN job.slots : i <= at => i < at \/ i = at
      BY DEF ConsentInv, CommandShape
    <3> QED BY <2>1, <3>1, <3>2, <3>3 DEF Writing, Finished, Unreached, slot
  <2>4. ASSUME job.op = "generate-batch", pc' = "idle"
        PROVE  \A i \in DOMAIN job.slots : Finished(i)'
    <3>1. \A i \in DOMAIN job.slots : i <= at
      BY <2>1, <2>4 DEF ConsentInv, CommandShape
    <3> QED BY <2>3, <2>4, <3>1
  <2>5. ASSUME job.op = "generate-batch", pc' = "write" PROVE Writing'
    <3>1. at' = at + 1 /\ at' \in DOMAIN job.slots
      BY <2>1, <2>5 DEF ConsentInv, Stage
    <3>2. \A i \in DOMAIN job.slots : (i < at' => i <= at) /\ (i > at' => i > at) /\ at' > at
      BY <3>1 DEF ConsentInv, CommandShape
    <3> QED BY <2>1, <2>3, <2>5, <3>1, <3>2 DEF Writing
  <2>6. job.op = "generate-batch" /\ pc' = "idle" => OneUnsaved'
    BY <2>1, <2>4 DEF OneUnsaved, Finished, Saved
  <2> QED BY <2>1, <2>2, <2>4, <2>5, <2>6 DEF SavedInv
<1>7. CASE WriteImportedKey \/ WriteCertificate \/ MoveKey \/ DeleteKey
  <2>1. pc' = "idle" /\ UNCHANGED <<files, job>> /\ job.op # "generate-batch"
    BY <1>7 DEF WriteImportedKey, WriteCertificate, MoveKey, DeleteKey, Ended, Stop, disk,
        CertWriting
  <2> QED BY <2>1 DEF SavedInv
<1> QED BY <1>1, <1>2, <1>3, <1>4, <1>5, <1>6, <1>7 DEF Next

(* Of the keys a batch has generated at most one is on no disk, and a       *)
(* success leaves them all in their files, for every batch.                 *)
THEOREM BatchNeverLosesKeys == Spec => []BatchKeysSaved
<1>1. Init => BatchInv /\ SavedInv
  BY DEF Init, BatchInv, SavedInv
<1>2. ConsentInv /\ ConsentInv' /\ BatchInv /\ SavedInv /\ [Next]_vars => BatchInv' /\ SavedInv'
  <2>1. ASSUME BatchInv, UNCHANGED vars PROVE BatchInv'
    BY <2>1 DEF vars, BatchInv, Confirmed
  <2>2. ASSUME SavedInv, UNCHANGED vars PROVE SavedInv'
    BY <2>2 DEF vars, SavedInv, Writing, OneUnsaved, Finished, Unreached, Saved
  <2> QED BY <2>1, <2>2, StepKeepsBatch, StepKeepsSaved
<1>3. ConsentInv /\ BatchInv /\ SavedInv => BatchKeysSaved
  <2> SUFFICES ASSUME ConsentInv, BatchInv, SavedInv, job.op = "generate-batch"
               PROVE  /\ Cardinality({i \in Generated : ~Saved(i)}) <= 1
                      /\ result = "ok" => \A i \in DOMAIN job.slots :
                                /\ i \in Generated
                                /\ keys[job.slots[i]] = files[outputs[i]]
    BY DEF BatchKeysSaved
  <2>1. PICK m : \A i \in DOMAIN job.slots : i = m \/ Unreached(i) \/ Saved(i)
    BY SavedSoFar DEF OneUnsaved
  <2>2. {i \in Generated : ~Saved(i)} \in SUBSET {m}
    BY <2>1 DEF Generated, Unreached
  <2>3. Cardinality({i \in Generated : ~Saved(i)}) <= Cardinality({m}) /\ Cardinality({m}) = 1
    BY <2>2, FS_Singleton, FS_Subset
  <2>4. result = "ok" => \A i \in DOMAIN job.slots : Finished(i)
    BY DEF SavedInv
  <2> QED BY <2>3, <2>4 DEF Finished, Unreached, Generated
<1> QED BY <1>1, <1>2, <1>3, ConsentInvariance, PTL DEF Spec

-----------------------------------------------------------------------------
(* Use. *)

UseOps     == Plain \cup Signing \cup {"export"}
Certifying == {"import-certificate", "generate-certificate"}
UseSteps   == {"output", "algorithm", "request", "public", "try", "pin", "verify", "deliver"}
WriteSteps == {"prepare", "match", "metadata", "certificate", "ask", "authorize", "write", "save"}

IsFunction(f, S) == f = [x \in S |-> f[x]]

(* Which commands pass where.                                               *)
Passes(op, step) ==
    /\ step \in {"idle"} \cup UseSteps \cup WriteSteps
    /\ step \in UseSteps => op \in UseOps
    /\ step \in WriteSteps => op \notin UseOps
    /\ step = "output" => op \in Prepared
    /\ step \in {"algorithm", "try"} => op \in Plain
    /\ step = "request" => op = "request"
    /\ step = "public" => op \in {"export", "export-verified"}
    /\ step \in {"pin", "verify"} => op # "export"
    /\ step # "idle" /\ op \in Certifying =>
          step \in {"match", "certificate", "ask", "authorize", "write"}

Shape ==
    /\ IsFunction(certs, Slots) /\ IsFunction(files, Files)
    /\ Passes(job.op, pc)
    /\ pc # "idle" /\ job.op \in UseOps \cup Certifying => at = 1 /\ Len(job.slots) = 1
    /\ pc # "idle" /\ job.op = "request" => job.key # None

(* How often the key has been used, and for how many PIN tries.             *)
Counted ==
    /\ uses \in Nat /\ spent \in Nat /\ KeyUsedOnce
    /\ pc \notin {"idle", "deliver"} => uses = 0 /\ spent = 0
    /\ pc = "deliver" => spent = 0 /\ uses = IF job.op = "export" THEN 0 ELSE 1

(* What the command takes for the slot's key is the slot's key.             *)
Compared ==
    firmware = "full" =>
        /\ job.op \in UseOps \ Plain /\ pc \in {"pin", "verify", "deliver"} =>
              job.key = keys[slot]
        /\ job.op \in Certifying /\ pc \in {"certificate", "ask", "authorize", "write"} =>
              keys[slot] \in {None, job.key}

IInv == Shape /\ Counted /\ Compared

-----------------------------------------------------------------------------
(* A command that starts has used nothing.                                  *)
LEMMA StartKeepsIInv ==
    ASSUME IInv, Unused,
           NEW op, NEW slots, NEW k, NEW first, Start(op, slots, k, first),
           first \notin {"idle", "pin", "verify", "deliver"}, Passes(op, first),
           op \in UseOps \cup Certifying => Len(slots) = 1,
           op \in Certifying => first = "match",
           op = "request" => k # None
    PROVE  IInv'
<1>1. Shape'
  BY DEF IInv, Shape, Start, card, IsFunction
<1>2. Counted'
  BY DEF Counted, KeyUsedOnce, Start, Unused
<1>3. Compared'
  BY DEF Compared, Start
<1> QED BY <1>1, <1>2, <1>3 DEF IInv

(* A command that ends is done with the key.                                *)
LEMMA StopKeepsIInv ==
    ASSUME IInv, NEW outcome, Stop(outcome),
           IsFunction(certs', Slots), IsFunction(files', Files),
           uses' \in Nat, spent' \in Nat, uses' + spent' <= 1,
           outcome = "ok" => (uses' = 1 <=> job.op \in Plain \cup Signing)
    PROVE  IInv'
<1>1. Shape' /\ Compared'
  BY DEF IInv, Shape, Passes, Compared, Stop, UseSteps, WriteSteps
<1>2. pc' = "idle" /\ result' = outcome /\ job' = job
  BY DEF Stop
<1>3. KeyUsedOnce'
  BY <1>2 DEF KeyUsedOnce
<1>4. Counted'
  BY <1>2, <1>3 DEF Counted
<1> QED BY <1>1, <1>4 DEF IInv

(* A provisioning command does not use the key.                             *)
LEMMA WritingStops ==
    ASSUME IInv, pc \in WriteSteps, NEW outcome, Stop(outcome), UNCHANGED <<uses, spent>>,
           IsFunction(certs', Slots), IsFunction(files', Files)
    PROVE  IInv'
<1>1. pc \notin {"idle", "deliver"} /\ job.op \notin Plain \cup Signing
  BY DEF IInv, Shape, Passes, WriteSteps, UseOps
<1> QED BY <1>1, StopKeepsIInv DEF IInv, Counted

(* It goes on to another step.                                              *)
LEMMA WritingGoesOn ==
    ASSUME IInv, pc \in WriteSteps, pc' \in WriteSteps, UNCHANGED <<uses, spent, job, firmware>>,
           IsFunction(certs', Slots), IsFunction(files', Files),
           job.op \in Certifying => /\ at' = 1 /\ keys' = keys /\ pc # "match"
                                    /\ pc' \in {"ask", "authorize", "write"}
    PROVE  IInv'
<1>1. Shape'
  BY DEF IInv, Shape, Passes, WriteSteps, UseSteps
<1>2. Counted'
  BY DEF IInv, Counted, KeyUsedOnce, WriteSteps
<1>3. Compared'
  BY DEF IInv, Shape, Passes, Compared, slot, WriteSteps
<1> QED BY <1>1, <1>2, <1>3 DEF IInv

(* Provisioning commands start...                                           *)
LEMMA CommandKeepsIInv ==
    ASSUME IInv, Command, Unused
    PROVE  IInv'
<1> USE DEF Passes, UseOps, Certifying, Plain, Signing, UseSteps, WriteSteps, Prepared
<1>1. ASSUME NEW s \in Slots, Generate(s) \/ DeleteCertificate(s) \/ Delete(s)
      PROVE  IInv'
  BY <1>1, StartKeepsIInv DEF Generate, DeleteCertificate, Delete
<1>2. ASSUME NEW b \in Batches, GenerateBatch(b)
      PROVE  IInv'
  BY <1>2, StartKeepsIInv DEF GenerateBatch
<1>3. ASSUME NEW s \in Slots, NEW t \in Slots, Move(s, t)
      PROVE  IInv'
  BY <1>3, StartKeepsIInv DEF Move
<1>4. ASSUME NEW s \in Slots, NEW k \in Keys, Import(s, k) \/ ImportCertificate(s, k)
      PROVE  IInv'
  BY <1>4, StartKeepsIInv DEF Import, ImportCertificate
<1>5. ASSUME NEW s \in Slots, NEW k \in Content, GenerateCertificate(s, k) \/ ImportObject(s, k)
      PROVE  IInv'
  BY <1>5, StartKeepsIInv DEF GenerateCertificate, ImportObject
<1> QED BY <1>1, <1>2, <1>3, <1>4, <1>5 DEF Command

(* ... and so do those that use a key.                                      *)
LEMMA BeginUseKeepsIInv ==
    ASSUME IInv, BeginUse
    PROVE  IInv'
<1> USE DEF Passes, UseOps, Certifying, Plain, Signing, UseSteps, WriteSteps, Prepared
<1>1. ASSUME NEW s \in Slots, Sign(s) \/ UseSecret(s) \/ Export(s) \/ ExportVerified(s), Unused
      PROVE  IInv'
  BY <1>1, StartKeepsIInv DEF Sign, UseSecret, Export, ExportVerified
<1>2. ASSUME NEW s \in Slots, NEW k \in Keys, Request(s, k), Unused
      PROVE  IInv'
  BY <1>2, StartKeepsIInv, ProvisioningAssumption DEF Request
<1> QED BY <1>1, <1>2 DEF BeginUse

(* The steps of a provisioning command.                                     *)
LEMMA ProvisionKeepsIInv ==
    ASSUME IInv, Provision
    PROVE  IInv'
<1>1. CASE Command
  <2>1. pc = "idle"
    BY <1>1 DEF Command, Generate, GenerateBatch, Import, ImportCertificate,
        GenerateCertificate, DeleteCertificate, ImportObject, Move, Delete, Start
  <2> QED BY <1>1, <2>1, CommandKeepsIInv DEF Provision
<1>2. CASE Abort
  <2>1. pc # "idle" /\ Stop("failed") /\ UNCHANGED <<certs, files, uses, spent>>
    BY <1>2 DEF Abort, Provision, card, disk
  <2> QED BY <2>1, StopKeepsIInv DEF IInv, Shape, Counted, KeyUsedOnce
<1>3. CASE PrepareOutputs \/ ReadMetadata
  <2>1. /\ pc \in {"prepare", "metadata"}
        /\ Stop("failed") \/ (pc' \in WriteSteps /\ UNCHANGED <<job, at>>)
        /\ UNCHANGED <<keys, certs, firmware, files, uses, spent>>
    BY <1>3 DEF PrepareOutputs, ReadMetadata, Provision, card, disk, Go, Stop, WriteSteps
  <2>2. job.op \notin Certifying
    BY <2>1 DEF IInv, Shape, Passes
  <2> QED BY <2>1, <2>2, WritingStops, WritingGoesOn DEF IInv, Shape, WriteSteps
<1>4. CASE MatchPublicKey
  <2>1. pc = "match" /\ UNCHANGED <<keys, certs, firmware, files, uses, spent>>
    BY <1>4 DEF MatchPublicKey, Provision, card, disk
  <2>2. CASE ~Comparable
    BY <1>4, <2>1, <2>2, WritingStops DEF MatchPublicKey, IInv, Shape, WriteSteps
  <2>3. CASE Comparable
    <3>1. /\ job' = [job EXCEPT !.key = Certified] /\ pc' = "certificate"
          /\ UNCHANGED <<at, result>>
      BY <1>4, <2>3 DEF MatchPublicKey
    <3>2. job'.op = job.op /\ job'.slots = job.slots /\ job'.key = Certified
      BY <3>1 DEF IInv, Shape
    <3>3. Shape' /\ Counted'
      BY <2>1, <3>1, <3>2 DEF IInv, Shape, Passes, UseOps, UseSteps, WriteSteps, Signing, Plain,
         Certifying, Counted, KeyUsedOnce
    <3>4. Compared'
      BY <2>1, <2>3, <3>1, <3>2 DEF Comparable, ReportedKey, Compared, slot
    <3> QED BY <3>3, <3>4 DEF IInv
  <2> QED BY <2>2, <2>3
<1>5. CASE ReadCertificate \/ Approve \/ Decline \/ Authorize
  <2>1. /\ pc \in {"certificate", "ask", "authorize"}
        /\ UNCHANGED <<keys, certs, firmware, files, uses, spent>>
        /\ \/ \E outcome : Stop(outcome)
           \/ UNCHANGED job /\ Inspected
           \/ UNCHANGED <<job, at>> /\ pc' \in {"ask", "write"}
    BY <1>5 DEF ReadCertificate, Approve, Decline, Authorize, Provision, card, disk, Go, Inspected
  <2>2. CASE Inspected
    <3>1. /\ pc' \in {"metadata", "authorize"} /\ UNCHANGED job
          /\ (at' = 1 /\ pc' = "authorize") \/ at < Len(job.slots)
      BY <2>2 DEF Inspected, Go
    <3>2. job.op \in Certifying => at = 1 /\ Len(job.slots) = 1
      BY <2>1 DEF IInv, Shape
    <3>3. ASSUME job.op \in Certifying PROVE ~(at < Len(job.slots))
      <4>1. at = 1 /\ Len(job.slots) = 1
        BY <3>2, <3>3
      <4>2. ~(1 < 1)
        OBVIOUS
      <4> QED BY <4>1, <4>2, Zenon
    <3> QED BY <2>1, <3>1, <3>3, WritingGoesOn DEF IInv, Shape, Passes, WriteSteps
  <2>3. CASE UNCHANGED <<job, at>> /\ pc' \in {"ask", "write"}
    BY <2>1, <2>3, WritingGoesOn DEF IInv, Shape, WriteSteps
  <2> QED BY <2>1, <2>2, <2>3, WritingStops DEF IInv, Shape, WriteSteps
<1>6. CASE WriteGeneratedKey \/ SavePublicKey
  <2>1. /\ pc \in {"write", "save"} /\ UNCHANGED <<certs, firmware, uses, spent>>
        /\ IsFunction(files', Files)
        /\ \/ Stop("failed") \/ Stop("ok")
           \/ pc' \in {"write", "save"} /\ UNCHANGED job
    BY <1>6 DEF WriteGeneratedKey, SavePublicKey, Answered, Go, NextKey, Provision, card, disk,
        IInv, Shape, IsFunction
  <2>2. job.op \notin Certifying \/ Stop("failed") \/ Stop("ok")
    BY <1>6, <2>1 DEF WriteGeneratedKey, SavePublicKey, IInv, Shape, Passes, Certifying
  <2> QED BY <2>1, <2>2, WritingStops, WritingGoesOn DEF IInv, Shape, WriteSteps
<1>7. CASE WriteImportedKey \/ WriteCertificate \/ MoveKey \/ DeleteKey \/ KeepOutput
  <2>1. /\ pc \in {"write", "save"} /\ UNCHANGED <<files, uses, spent>>
        /\ Stop("failed") \/ Stop("ok")
    BY <1>7 DEF WriteImportedKey, WriteCertificate, MoveKey, DeleteKey, KeepOutput, Ended,
        Provision, card, disk
  <2>2. IsFunction(certs', Slots)
    BY <1>7 DEF WriteImportedKey, WriteCertificate, MoveKey, DeleteKey, KeepOutput, card,
        IInv, Shape, IsFunction
  <2> QED BY <2>1, <2>2, WritingStops DEF IInv, Shape, WriteSteps
<1> QED BY <1>1, <1>2, <1>3, <1>4, <1>5, <1>6, <1>7 DEF Provision, Next

-----------------------------------------------------------------------------
(* A command that uses a key goes on to another step, with the same slot.   *)
LEMMA UsingGoesOn ==
    ASSUME IInv, pc \in UseSteps, pc' \in UseSteps,
           UNCHANGED <<certs, keys, firmware, files, job, at>>,
           Passes(job.op, pc'),
           \/ pc' # "deliver" /\ uses' = 0 /\ spent' = 0
           \/ pc' = "deliver" /\ job.op # "export" /\ uses' = 1 /\ spent' = 0,
           pc' \in {"pin", "verify", "deliver"} =>
              pc \in {"pin", "verify"} \/ job.op \in Plain
              \/ (firmware = "full" => job.key = keys[slot])
    PROVE  IInv'
<1>1. Shape'
  BY DEF IInv, Shape, UseSteps
<1>2. Counted'
  BY DEF Counted, KeyUsedOnce, UseSteps
<1>3. Compared'
  BY DEF IInv, Compared, slot, Shape, Passes, UseOps, Certifying, Plain, Signing
<1> QED BY <1>1, <1>2, <1>3 DEF IInv

(* The steps of a command that uses a key.                                  *)
LEMMA UseKeepsIInv ==
    ASSUME IInv,
           \/ PrepareOutput \/ slot_algorithm \/ MatchRequest \/ ReadPublicKey
           \/ TryWithoutPin \/ resolve_pin \/ UseWithPin \/ Deliver
    PROVE  IInv'
<1> USE DEF Untouched, Go
<1> UseSteps \cap WriteSteps = {} /\ "idle" \notin UseSteps
  BY DEF UseSteps, WriteSteps
<1>1. CASE PrepareOutput \/ slot_algorithm \/ MatchRequest \/ resolve_pin
  <2>1. /\ pc \in {"output", "algorithm", "request", "pin"}
        /\ UNCHANGED <<certs, keys, firmware, files, uses, spent>>
        /\ \/ Stop("failed")
           \/ UNCHANGED <<job, at>>
    BY <1>1 DEF PrepareOutput, slot_algorithm, MatchRequest, resolve_pin, Stop, card, disk
  <2>2. uses = 0 /\ spent = 0 /\ Passes(job.op, pc) /\ pc \in UseSteps
    BY <2>1 DEF IInv, Counted, Shape, UseSteps
  <2>3. CASE Stop("failed")
    BY <2>1, <2>2, <2>3, StopKeepsIInv DEF IInv, Shape
  <2>4. CASE ~Stop("failed")
    <3>1. /\ pc' \in {"algorithm", "request", "try", "pin", "verify"} /\ Passes(job.op, pc')
      BY <1>1, <2>2, <2>4 DEF PrepareOutput, slot_algorithm, MatchRequest, resolve_pin, Passes,
         Prepared, Plain, UseSteps, WriteSteps, UseOps, Signing, Certifying
    <3>2. /\ pc' \in {"pin", "verify"} =>
             pc = "pin" \/ (firmware = "full" => job.key = keys[slot])
      <4>1. CASE MatchRequest
        <5>1. Readable /\ Comparable /\ job.op = "request" /\ job.key # None
          BY <2>2, <2>4, <4>1 DEF MatchRequest, IInv, Shape, Passes
        <5> QED BY <5>1 DEF Readable, Comparable, Certified, ReportedKey
      <4> QED BY <1>1, <2>4, <4>1 DEF PrepareOutput, slot_algorithm, resolve_pin
    <3> QED BY <2>1, <2>2, <2>4, <3>1, <3>2, UsingGoesOn DEF UseSteps
  <2> QED BY <2>3, <2>4
<1>2. CASE ReadPublicKey
  <2>1. /\ pc = "public" /\ UNCHANGED <<card, files, uses, spent>> /\ uses = 0 /\ spent = 0
    BY <1>2 DEF ReadPublicKey, disk, IInv, Counted
  <2>2. CASE Stop("failed")
    BY <2>1, <2>2, StopKeepsIInv DEF IInv, Shape, card
  <2>3. CASE ~Stop("failed")
    <3>1. /\ job' = [job EXCEPT !.key = ReportedKey(slot)] /\ UNCHANGED at
          /\ pc' = IF job.op = "export" THEN "deliver" ELSE "pin"
      BY <1>2, <2>3 DEF ReadPublicKey
    <3>2. job'.op = job.op /\ job'.slots = job.slots /\ job'.key = ReportedKey(slot)
      BY <3>1
    <3>3. job.op \in {"export", "export-verified"} /\ at = 1 /\ Len(job.slots) = 1
      BY <2>1 DEF IInv, Shape, Passes, UseOps, Signing
    <3>4. Shape'
      BY <2>1, <3>1, <3>2, <3>3 DEF IInv, Shape, Passes, UseOps, Signing, Plain, UseSteps,
         WriteSteps, Certifying, card
    <3>5. Counted'
      BY <2>1, <3>1, <3>2, <3>3 DEF IInv, Counted, KeyUsedOnce
    <3>6. Compared'
      BY <2>1, <3>1, <3>2, <3>3 DEF Compared, ReportedKey, slot, card, Certifying
    <3> QED BY <3>4, <3>5, <3>6 DEF IInv
  <2> QED BY <2>2, <2>3
<1>3. CASE TryWithoutPin \/ UseWithPin
  <2>1. /\ pc \in {"try", "verify"} /\ UNCHANGED <<card, files>> /\ uses = 0 /\ spent = 0
        /\ Passes(job.op, pc) /\ job.op # "export"
    BY <1>3 DEF TryWithoutPin, UseWithPin, disk, IInv, Counted, Shape, Passes, Plain
  <2>2. /\ uses' \in Nat /\ spent' \in Nat /\ uses' + spent' <= 1
    BY <1>3, <2>1 DEF TryWithoutPin, UseWithPin, Used
  <2>3. CASE Stop("failed")
    BY <2>1, <2>2, <2>3, StopKeepsIInv DEF IInv, Shape, card
  <2>4. CASE ~Stop("failed")
    <3>1. /\ UNCHANGED <<job, at>>
          /\ \/ pc' = "deliver" /\ uses' = 1 /\ spent' = 0
             \/ pc = "try" /\ pc' = "pin" /\ uses' = 0 /\ spent' = 0
      BY <1>3, <2>1, <2>4 DEF TryWithoutPin, UseWithPin, Used, Returned, needs_pin
    <3>2. Passes(job.op, pc')
      BY <2>1, <3>1 DEF Passes, UseSteps, WriteSteps, Certifying, UseOps, Plain, Signing
    <3>3. pc = "verify" \/ job.op \in Plain
      BY <2>1 DEF Passes
    <3> QED BY <2>1, <3>1, <3>2, <3>3, UsingGoesOn DEF UseSteps, card
  <2> QED BY <2>3, <2>4
<1>4. CASE Deliver
  <2>1. /\ pc = "deliver" /\ UNCHANGED <<card, uses, spent>>
        /\ Stop("ok") \/ Stop("failed")
        /\ IsFunction(files', Files)
    BY <1>4 DEF Deliver, IInv, Shape, IsFunction
  <2>2. /\ spent = 0 /\ uses = IF job.op = "export" THEN 0 ELSE 1
        /\ job.op \in UseOps
    BY <2>1 DEF IInv, Counted, Shape, Passes, UseSteps
  <2>3. uses = 1 <=> job.op \in Plain \cup Signing
    BY <2>2 DEF UseOps, Plain, Signing
  <2> QED BY <2>1, <2>2, <2>3, StopKeepsIInv DEF IInv, Shape, card
<1> QED BY <1>1, <1>2, <1>3, <1>4

(* The inductive invariant holds of commands in any order.                  *)
LEMMA Invariance == UseSpec => []IInv
<1>1. UseInit => IInv
  BY DEF UseInit, Init, IInv, Shape, Passes, Counted, KeyUsedOnce, Compared, IsFunction,
     UseOps, Plain, Signing, UseSteps, WriteSteps
<1>2. IInv /\ [UseNext]_useVars => IInv'
  <2>1. CASE UNCHANGED useVars
    BY <2>1 DEF useVars, vars, IInv, Shape, Passes, Counted, KeyUsedOnce, Compared, slot
  <2> QED BY <2>1, ProvisionKeepsIInv, BeginUseKeepsIInv, UseKeepsIInv DEF UseNext
<1> QED BY <1>1, <1>2, PTL DEF UseSpec

-----------------------------------------------------------------------------
(* The key is used once, for one PIN try at most (KeyUsedOnce).             *)
THEOREM OneUsePerCommand == UseSpec => []KeyUsedOnce
<1>1. IInv => KeyUsedOnce
  BY DEF IInv, Counted
<1> QED BY <1>1, Invariance, PTL

(* On a card that reports public keys, what is certified or published is    *)
(* the key of the slot (NamedKeysMatch).                                    *)
THEOREM SlotKeysNamed == UseSpec => NamedKeysMatch
<1> DEFINE Named(s) == /\ keys[s] # None /\ certs'[s] # certs[s]
                       /\ job.op \in {"import-certificate", "generate-certificate"}
                       => certs'[s] = keys[s]
           Published(f) == files'[f] \notin {None, files[f]} => files'[f] = keys[slot]
<1>1. ASSUME IInv, UseNext, firmware = "full", NEW s \in Slots PROVE Named(s)
  <2>1. CASE WriteCertificate
    <3>1. certs' = [certs EXCEPT ![slot] = job.key] /\ pc = "write"
      BY <2>1 DEF WriteCertificate
    <3>2. certs'[s] # certs[s] => s = slot /\ certs'[s] = job.key
      BY <3>1 DEF IInv, Shape, IsFunction
    <3> QED BY <1>1, <3>1, <3>2 DEF IInv, Compared, Certifying
  <2>2. CASE MoveKey \/ DeleteKey
    BY <2>2 DEF MoveKey, DeleteKey
  <2>3. CASE UNCHANGED certs
    BY <2>3
  <2> QED BY <1>1, <2>1, <2>2, <2>3 DEF UseNext, Provision, Next, Command, Start, Generate,
        GenerateBatch, Import, ImportCertificate, GenerateCertificate, DeleteCertificate,
        ImportObject, Move, Delete, Abort, PrepareOutputs, MatchPublicKey, ReadMetadata,
        ReadCertificate, Approve, Decline, Authorize, WriteGeneratedKey, WriteImportedKey,
        SavePublicKey, KeepOutput, BeginUse, Sign, UseSecret, Request, Export, ExportVerified,
        PrepareOutput, slot_algorithm, MatchRequest, ReadPublicKey, TryWithoutPin, resolve_pin,
        UseWithPin, Deliver, Untouched, card
<1>2. ASSUME IInv, UseNext, firmware = "full", NEW f \in Files PROVE Published(f)
  <2>1. CASE SavePublicKey
    <3>1. files' = [files EXCEPT ![outputs[at]] = keys[slot]]
      BY <2>1 DEF SavePublicKey
    <3> QED BY <1>2, <3>1 DEF IInv, Shape, IsFunction
  <2>2. CASE Deliver
    <3>1. files' = files \/ \E p : files' = [files EXCEPT ![p] = Product]
      BY <2>2 DEF Deliver
    <3>2. Product = keys[slot]
      BY <1>2, <2>2 DEF Deliver, Product, IInv, Shape, Passes, Compared, UseSteps
    <3> QED BY <1>2, <3>1, <3>2 DEF IInv, Shape, IsFunction
  <2>3. CASE UNCHANGED files
    BY <2>3
  <2>4. CASE Command \/ BeginUse
    BY <2>4 DEF Command, Start, Generate,
        GenerateBatch, Import, ImportCertificate, GenerateCertificate, DeleteCertificate,
        ImportObject, Move, Delete, BeginUse, Sign, UseSecret, Request, Export, ExportVerified
  <2> QED BY <1>2, <2>1, <2>2, <2>3, <2>4 DEF UseNext, Provision, Next, Abort, PrepareOutputs,
        MatchPublicKey, ReadMetadata, ReadCertificate, Approve, Decline, Authorize,
        WriteGeneratedKey, WriteImportedKey, WriteCertificate, MoveKey, DeleteKey, KeepOutput,
        PrepareOutput, slot_algorithm, MatchRequest, ReadPublicKey, TryWithoutPin, resolve_pin,
        UseWithPin, disk
<1>3. IInv /\ [UseNext]_useVars =>
        [firmware = "full" =>
            /\ \A s \in Slots : Named(s)
            /\ \A f \in Files : Published(f)]_vars
  <2> SUFFICES ASSUME IInv, [UseNext]_useVars, firmware = "full", vars' # vars
               PROVE  (\A s \in Slots : Named(s)) /\ (\A f \in Files : Published(f))
    OBVIOUS
  <2>1. UseNext
    BY DEF useVars
  <2> QED BY <1>1, <1>2, <2>1
<1>4. UseSpec => [][firmware = "full" =>
            /\ \A s \in Slots : Named(s)
            /\ \A f \in Files : Published(f)]_vars
  BY <1>3, Invariance, PTL DEF UseSpec
<1> QED BY <1>4 DEF NamedKeysMatch
=============================================================================
