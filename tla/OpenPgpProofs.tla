--------------------------- MODULE OpenPgpProofs ---------------------------
(***************************************************************************)
(* For any slots, algorithms, passwords, retry counts and number of        *)
(* commands: a refusal changes nothing, a wrong password costs one try,    *)
(* the user knows the passwords, and info tells the truth.                 *)
(***************************************************************************)
EXTENDS OpenPgp, SequenceTheorems, TLAPS

-----------------------------------------------------------------------------
(* The invariant. *)

Objects == Fields \cup {"TouchCacheTime", "ReuseSignaturePin"}

CardType ==
    [attributes  : [Slots -> Algorithms \cup {"Rsa2048"}],
     key         : [Slots -> KeyStates],
     fingerprint : SUBSET Slots,
     touch       : [Slots -> TouchPolicyArg],
     certificate : SUBSET Slots,
     objects     : SUBSET Objects,
     password    : [References -> Passwords \cup {None}],
     limit       : [References -> Nat \ {0}]]

ReportType ==
    [about : {"nothing", "card"} \cup Slots, keys : SUBSET Slots, objects : SUBSET Objects]

(* Every operation that a command sends, but to read.                       *)
Operations ==
    {change_password(r, old, new) : r \in References, old, new \in Passwords}
    \cup {unblock(r, password, new) : r \in {"Pw3", "ResetCode"}, password, new \in Passwords}
    \cup {set_reset_code(code, admin) : code \in Passwords \cup {None}, admin \in Passwords}
    \cup {reset_retries(counts, admin) : counts \in RetryCounts, admin \in Passwords}
    \cup {write_data(object, present, admin) :
             object \in Objects, present \in BOOLEAN, admin \in Passwords}
    \cup {set_touch_policy(s, policy, admin) :
             s \in Slots, policy \in TouchPolicyArg, admin \in Passwords}
    \cup {set_algorithm(s, algorithm, admin) :
             s \in Slots, algorithm \in Algorithms, admin \in Passwords}
    \cup {generate_key(s, admin) : s \in Slots, admin \in Passwords}
    \cup {import_key(s, algorithm, admin) :
             s \in Slots, algorithm \in Algorithms, admin \in Passwords}
    \cup {write_certificate(s, present, admin) :
             s \in Slots, present \in BOOLEAN, admin \in Passwords}
    \cup {read_public_key(s) : s \in Slots}
    \cup {read_certificate(s) : s \in Slots}
    \cup {reset_applet}

(* What success of an operation tells the user.                             *)
Announces(o, tells) ==
    /\ o.name = "change_password" => tells = Only(o.auth, o.new)
    /\ o.name = "unblock" => tells = Only("Pw1", o.new)
    /\ o.name = "set_reset_code" => tells = Only("ResetCode", o.new)
    /\ o.name = "reset_retries" => tells = DefaultsTold
    /\ o.name = "reset_applet" => tells = Defaults(None)
    /\ o.name \notin {"change_password", "unblock", "set_reset_code", "reset_retries",
                      "reset_applet"} => tells = NoNews

(* One operation, and nothing has been sent yet.                            *)
OneOperation ==
    \E o \in Operations :
        /\ job.ops = <<o>> /\ Announces(o, job.tells)
        /\ card = before /\ report = NoReport

(* The slot's algorithm first, then the key.                                *)
KeyOperation(o, s, algorithm, admin) ==
    \/ /\ o = generate_key(s, admin)
       /\ openpgp_algorithm_support(algorithm, TRUE)
    \/ o = import_key(s, algorithm, admin)

AlgorithmThenKey ==
    \E s \in Slots, algorithm \in Algorithms, admin \in Passwords : \E o \in Operations :
        /\ KeyOperation(o, s, algorithm, admin)
        /\ job.ops = <<set_algorithm(s, algorithm, admin), o>> /\ job.tells = NoNews
        /\ card = before /\ report = NoReport

(* The algorithm is the slot's, the password is right: the key will not be  *)
(* refused.                                                                 *)
KeyAfterAlgorithm ==
    \E s \in Slots, algorithm \in Algorithms, admin \in Passwords : \E o \in Operations :
        /\ KeyOperation(o, s, algorithm, admin)
        /\ job.ops = <<o>> /\ job.tells = NoNews
        /\ report = NoReport
        /\ card.attributes[s] = algorithm /\ openpgp_algorithm_support(algorithm, FALSE)
        /\ card.password["Pw3"] = admin /\ tries["Pw3"] # 0

(* Reading: what is there has been reported, or is still to be read.        *)
Readable == {"Cardholder", "Login", "Url", "TouchCacheTime"}
ReadOperations == {read_application_data} \cup {read_data(object) : object \in Readable}
Reportable == card.objects \cap (Fields \cup {"TouchCacheTime"})

KeysReported ==
    HasKeyStatus =>
        LET present == {s \in Slots : card.key[s] # "absent"}
        IN  report.keys = IF report.about = "card" THEN present ELSE {report.about} \cap present

StillToRead(x) ==
    \E i \in DOMAIN job.ops : job.ops[i].name = "read_data" /\ x \in Contents(job.ops[i].object)

Reading ==
    /\ job.ops \in Seq(ReadOperations) /\ job.ops # << >>
    /\ \A i \in 2..Len(job.ops) : job.ops[i].name = "read_data"
    /\ card = before
    /\ report.about # "nothing"
    /\ job.ops[1].name = "read_data" => KeysReported
    /\ report.about = "card" =>
          report.objects \subseteq Reportable /\ \A x \in Reportable : x \in report.objects \/ StillToRead(x)

Busy == OneOperation \/ AlgorithmThenKey \/ KeyAfterAlgorithm \/ Reading

IInv ==
    /\ card \in CardType /\ report \in ReportType
    /\ "TouchCacheTime" \in card.objects => HasUif
    /\ told \in [References -> Passwords \cup {None, Unknown}]
    /\ TruePasswords
    /\ spent \in {0, 1}
    /\ result \in {"done", "refused", "declined", "failed", "busy"}
    /\ result \in {"busy", "declined"} => spent = 0
    /\ RefusedMeansUnchanged
    /\ result = "busy" => Busy
    /\ InfoTruthful
-----------------------------------------------------------------------------
(* Operations. *)

Constructors ==
    {"change_password", "unblock", "set_reset_code", "reset_retries", "write_data",
     "set_touch_policy", "set_algorithm", "generate_key", "import_key", "write_certificate",
     "read_public_key", "read_certificate", "reset_applet"}

Typed(o) ==
    /\ o.name \in Constructors
    /\ o.name = "change_password" => o.auth \in References /\ o.new \in Passwords
    /\ o.name = "unblock" => o.new \in Passwords
    /\ o.name = "set_reset_code" => o.new \in Passwords \cup {None}
    /\ o.name = "reset_retries" => o.counts \in RetryCounts
    /\ o.name = "write_data" => o.object \in Objects /\ o.present \in BOOLEAN
    /\ o.name = "set_touch_policy" => o.slot \in Slots /\ o.policy \in TouchPolicyArg
    /\ o.name \in {"set_algorithm", "import_key"} => o.slot \in Slots /\ o.algorithm \in Algorithms
    /\ o.name \in {"generate_key", "write_certificate", "read_public_key", "read_certificate"} =>
          o.slot \in Slots

\* What the operations are made of.
LEMMA OperationsTyped == \A o \in Operations : Typed(o)
  BY DEF Operations, Typed, Constructors, change_password, unblock, set_reset_code, reset_retries,
         write_data, set_touch_policy, set_algorithm, generate_key, import_key,
         write_certificate, read_public_key, read_certificate, reset_applet, Open, OpenSlot

\* Changing a password leaves the others.
LEMMA SetPasswordType ==
    ASSUME card \in CardType, NEW r \in References, NEW new \in Passwords \cup {None}
    PROVE  /\ SetPassword(r, new) \in CardType
           /\ SetPassword(r, new).objects = card.objects
           /\ \A x \in References :
                 SetPassword(r, new).password[x] = IF x = r THEN new ELSE card.password[x]
<1>1. [card.password EXCEPT ![r] = new] \in [References -> Passwords \cup {None}]
  BY DEF CardType
<1> QED
  BY <1>1 DEF SetPassword, CardType

\* So does changing a slot's key.
LEMMA SetKeyType ==
    ASSUME card \in CardType, NEW s \in Slots, NEW state \in KeyStates
    PROVE  /\ SetKey(s, state) \in CardType
           /\ SetKey(s, state).objects = card.objects
           /\ SetKey(s, state).password = card.password
           /\ SetKey(s, state).attributes = card.attributes
           /\ SetKey(s, state).limit = card.limit
<1>1. [card.key EXCEPT ![s] = state] \in [Slots -> KeyStates]
  BY DEF CardType
<1> QED
  BY <1>1 DEF SetKey, CardType

\* The passwords and the factory state.
LEMMA DefaultsType ==
    /\ \A code : DOMAIN Defaults(code) = References
    /\ \A code \in Passwords \cup {None} : Defaults(code) \in [References -> Passwords \cup {None}]
    /\ Defaults(Unknown) \in [References -> Passwords \cup {None, Unknown}]
    /\ \A code : /\ Defaults(code)["Pw1"] = PinDefault
                 /\ Defaults(code)["Pw3"] = AdminDefault
                 /\ Defaults(code)["ResetCode"] = code
  BY OpenPgpAssumption DEF Defaults, References

\* A factory card is a card.
LEMMA FactoryType == Factory \in CardType
<1>1. Defaults(None) \in [References -> Passwords \cup {None}]
  BY DefaultsType
<1>2. [r \in References |-> DefaultTries] \in [References -> Nat \ {0}]
  BY OpenPgpAssumption
<1> QED
  BY <1>1, <1>2 DEF Factory, CardType, KeyStates, TouchPolicyArg

\* What an operation leaves of the card, and of the passwords it is not about.
LEMMA EffectsKeep ==
    ASSUME card \in CardType, NEW o \in Operations, NEW after \in Effects(o)
    PROVE  /\ after \in CardType
           /\ \A r \in References : r \notin Changed(o) => after.password[r] = card.password[r]
           /\ after.objects \subseteq
                 card.objects \cup IF o.name = "write_data" THEN {o.object} ELSE {}
<1>1. Typed(o)
  BY OperationsTyped
<1>2. CASE o.name = "change_password"
  <2>1. after = SetPassword(o.auth, o.new) /\ o.auth \in References /\ o.new \in Passwords
    BY <1>1, <1>2 DEF Effects, Typed
  <2> QED
    BY <1>2, <2>1, SetPasswordType DEF Changed
<1>3. CASE o.name = "unblock"
  <2>1. after = SetPassword("Pw1", o.new) /\ "Pw1" \in References /\ o.new \in Passwords
    BY <1>1, <1>3 DEF Effects, Typed, References
  <2> QED
    BY <1>3, <2>1, SetPasswordType DEF Changed
<1>4. CASE o.name = "set_reset_code"
  <2>1. /\ after = SetPassword("ResetCode", o.new) /\ "ResetCode" \in References
        /\ o.new \in Passwords \cup {None}
    BY <1>1, <1>4 DEF Effects, Typed, References
  <2> QED
    BY <1>4, <2>1, SetPasswordType DEF Changed
<1>5. CASE o.name = "reset_retries"
  <2>1. PICK code \in {None, card.password["ResetCode"]} :
               after = [card EXCEPT !.limit = o.counts, !.password = Defaults(code)]
    BY <1>5 DEF Effects
  <2>2. code \in Passwords \cup {None}
    BY <2>1 DEF CardType, References
  <2>3. o.counts \in [References -> Nat \ {0}]
    BY <1>1, <1>5, OpenPgpAssumption DEF Typed
  <2>4. Defaults(code) \in [References -> Passwords \cup {None}]
    BY <2>2, DefaultsType
  <2> QED
    BY <1>5, <2>1, <2>3, <2>4 DEF CardType, Changed
<1>6. CASE o.name = "write_data"
  <2>1. after = [card EXCEPT !.objects = Put(@, o.object, o.present)] /\ o.object \in Objects
    BY <1>1, <1>6 DEF Effects, Typed
  <2>2. /\ Put(card.objects, o.object, o.present) \subseteq card.objects \cup {o.object}
        /\ card.objects \subseteq Objects
    BY DEF CardType, Put
  <2>3. after \in CardType /\ after.objects = Put(card.objects, o.object, o.present)
        /\ after.password = card.password
    BY <2>1, <2>2 DEF CardType
  <2> QED
    BY <1>6, <2>2, <2>3
<1>7. CASE o.name = "set_touch_policy"
  <2>1. /\ after = [card EXCEPT !.touch = [@ EXCEPT ![o.slot] = o.policy]]
        /\ o.slot \in Slots /\ o.policy \in TouchPolicyArg
    BY <1>1, <1>7 DEF Effects, Typed
  <2>2. [card.touch EXCEPT ![o.slot] = o.policy] \in [Slots -> TouchPolicyArg]
    BY <2>1 DEF CardType
  <2> QED
    BY <2>1, <2>2 DEF CardType
<1>8. CASE o.name = "set_algorithm"
  <2>1. CASE after = card
    BY <2>1
  <2>2. CASE after # card
    <3>1. /\ after = [SetKey(o.slot, "absent") EXCEPT
                        !.attributes = [@ EXCEPT ![o.slot] = o.algorithm]]
          /\ o.slot \in Slots /\ o.algorithm \in Algorithms
      BY <1>1, <1>8, <2>2 DEF Effects, Typed
    <3>2. /\ SetKey(o.slot, "absent") \in CardType
          /\ SetKey(o.slot, "absent").password = card.password
          /\ SetKey(o.slot, "absent").attributes = card.attributes
          /\ SetKey(o.slot, "absent").objects = card.objects
      BY <3>1, SetKeyType DEF KeyStates
    <3>3. [card.attributes EXCEPT ![o.slot] = o.algorithm] \in [Slots -> Algorithms \cup {"Rsa2048"}]
      BY <3>1 DEF CardType
    <3>4. /\ after \in CardType /\ after.password = SetKey(o.slot, "absent").password
          /\ after.objects = SetKey(o.slot, "absent").objects
      <4> HIDE DEF SetKey
      <4> QED
        BY <3>1, <3>2, <3>3 DEF CardType
    <3> QED
      BY <1>8, <3>2, <3>4
  <2> QED
    BY <2>1, <2>2
<1>9. CASE o.name = "generate_key"
  <2>1. after = SetKey(o.slot, "generated") /\ o.slot \in Slots
    BY <1>1, <1>9 DEF Effects, Typed
  <2> QED
    BY <2>1, SetKeyType DEF KeyStates
<1>10. CASE o.name = "import_key"
  <2>1. after = SetKey(o.slot, "imported") /\ o.slot \in Slots
    BY <1>1, <1>10 DEF Effects, Typed
  <2> QED
    BY <2>1, SetKeyType DEF KeyStates
<1>11. CASE o.name = "write_certificate"
  <2>1. after = [card EXCEPT !.certificate = Put(@, o.slot, o.present)] /\ o.slot \in Slots
    BY <1>1, <1>11 DEF Effects, Typed
  <2> QED
    BY <2>1 DEF CardType, Put
<1>12. CASE o.name = "reset_applet"
  <2>1. after = Factory
    BY <1>12 DEF Effects
  <2> QED
    BY <1>12, <2>1, FactoryType DEF Changed, Factory
<1>13. CASE o.name \in {"read_public_key", "read_certificate"}
  <2>1. after = card
    BY <1>13 DEF Effects
  <2> QED
    BY <2>1
<1> QED
  BY <1>1, <1>2, <1>3, <1>4, <1>5, <1>6, <1>7, <1>8, <1>9, <1>10, <1>11, <1>12, <1>13
     DEF Typed, Constructors

\* Success tells the user what the operation made of the passwords.
LEMMA AnnouncedIsTrue ==
    ASSUME card \in CardType, NEW o \in Operations, NEW after \in Effects(o),
           NEW tells, Announces(o, tells),
           told \in [References -> Passwords \cup {None, Unknown}], TruePasswords
    PROVE  /\ Heard(tells) \in [References -> Passwords \cup {None, Unknown}]
           /\ \A r \in References :
                 Heard(tells)[r] = Unknown \/ Heard(tells)[r] = after.password[r]
<1>1. Typed(o)
  BY OperationsTyped
<1>2. \A r \in References : r \notin Changed(o) => after.password[r] = card.password[r]
  BY EffectsKeep
<1>3. ASSUME NEW x \in References, NEW new \in Passwords \cup {None}, tells = Only(x, new),
             after.password[x] = new, \A r \in Changed(o) : r = x
      PROVE  /\ Heard(tells) \in [References -> Passwords \cup {None, Unknown}]
             /\ \A r \in References :
                   Heard(tells)[r] = Unknown \/ Heard(tells)[r] = after.password[r]
  <2>1. Heard(tells) = [r \in References |-> IF r = x THEN new ELSE told[r]]
    BY <1>3 DEF Only, Heard
  <2> QED
    BY <1>2, <1>3, <2>1 DEF TruePasswords
<1>4. CASE o.name = "change_password"
  <2>1. after = SetPassword(o.auth, o.new) /\ o.auth \in References /\ o.new \in Passwords
    BY <1>1, <1>4 DEF Effects, Typed
  <2> QED
    BY <1>3, <1>4, <2>1, SetPasswordType DEF Changed, Announces
<1>5. CASE o.name = "unblock"
  <2>1. after = SetPassword("Pw1", o.new) /\ "Pw1" \in References /\ o.new \in Passwords
    BY <1>1, <1>5 DEF Effects, Typed, References
  <2> QED
    BY <1>3, <1>5, <2>1, SetPasswordType DEF Changed, Announces
<1>6. CASE o.name = "set_reset_code"
  <2>1. /\ after = SetPassword("ResetCode", o.new) /\ "ResetCode" \in References
        /\ o.new \in Passwords \cup {None}
    BY <1>1, <1>6 DEF Effects, Typed, References
  <2> QED
    BY <1>3, <1>6, <2>1, SetPasswordType DEF Changed, Announces
<1>7. CASE o.name \in {"reset_retries", "reset_applet"}
  <2>1. PICK code, shown : /\ after.password = Defaults(code) /\ tells = Defaults(shown)
                          /\ shown \in {Unknown, None} /\ (shown = Unknown \/ shown = code)
    <3>1. CASE o.name = "reset_retries"
      <4>1. PICK code : after = [card EXCEPT !.limit = o.counts, !.password = Defaults(code)]
        BY <3>1 DEF Effects
      <4>2. after.password = Defaults(code)
        BY <4>1 DEF CardType
      <4> QED
        BY <3>1, <4>2 DEF Announces, DefaultsTold
    <3>2. CASE o.name = "reset_applet"
      BY <3>2 DEF Effects, Announces, Factory
    <3> QED
      BY <1>7, <3>1, <3>2
  <2>2. /\ DOMAIN Defaults(shown) = References
        /\ Defaults(shown) \in [References -> Passwords \cup {None, Unknown}]
    BY <2>1, DefaultsType
  <2>3. Heard(tells) = Defaults(shown)
    <3> HIDE DEF Defaults
    <3>1. Defaults(shown) = [r \in References |-> Defaults(shown)[r]]
      BY <2>2
    <3> QED
      BY <2>1, <2>2, <3>1 DEF Heard
  <2>4. \A r \in References : Defaults(shown)[r] = Unknown \/ Defaults(shown)[r] = Defaults(code)[r]
    BY <2>1 DEF Defaults
  <2> QED
    BY <2>1, <2>2, <2>3, <2>4
<1>8. CASE o.name \notin {"change_password", "unblock", "set_reset_code", "reset_retries",
                         "reset_applet"}
  <2>1. tells = << >>
    BY <1>8 DEF Announces, NoNews
  <2>2. Heard(tells) = told
    BY <2>1 DEF Heard
  <2>3. Changed(o) = {}
    BY <1>8 DEF Changed
  <2> QED
    BY <1>2, <2>2, <2>3 DEF TruePasswords
<1> QED
  BY <1>4, <1>5, <1>6, <1>7, <1>8

-----------------------------------------------------------------------------
(* The start of commands. *)

\* The invariant holds at first.
LEMMA InitIInv == Init => IInv
<1> SUFFICES ASSUME Init PROVE IInv
  OBVIOUS
<1>1. card \in CardType /\ card = Factory /\ before = Factory
  BY FactoryType DEF Init
<1>2. /\ told = Defaults(None) /\ card.password = Defaults(None) /\ card.objects = {}
  BY DEF Init, Factory
<1>3. /\ Defaults(None) \in [References -> Passwords \cup {None}]
  BY DefaultsType
<1>4. told \in [References -> Passwords \cup {None, Unknown}] /\ TruePasswords
  <2> HIDE DEF Defaults
  <2> QED
    BY <1>2, <1>3 DEF TruePasswords
<1>5. report \in ReportType /\ report.about = "nothing" /\ spent = 0 /\ result = "done"
  BY DEF Init, NoReport, ReportType
<1> QED
  BY <1>1, <1>2, <1>4, <1>5 DEF IInv, RefusedMeansUnchanged, InfoTruthful

\* A command that ends before its first operation.
LEMMA StopInv ==
    ASSUME IInv, NEW r \in {"refused", "declined"}, Stop(r)
    PROVE  IInv'
<1>1. /\ UNCHANGED <<firmware, card, told>> /\ before' = card /\ spent' = 0
      /\ result' = r /\ report' = NoReport
  BY DEF Stop, Begin, Finish
<1>2. report' \in ReportType /\ report'.about = "nothing"
  BY <1>1 DEF NoReport, ReportType
<1> QED
  BY <1>1, <1>2 DEF IInv, TruePasswords, RefusedMeansUnchanged, InfoTruthful, HasUif

\* A command of one operation, that tells what the operation does.
LEMMA SendOne ==
    ASSUME IInv, NEW o \in Operations, NEW tells, Announces(o, tells), Send(<<o>>, tells)
    PROVE  IInv'
<1>1. /\ UNCHANGED <<firmware, card, told>> /\ before' = card /\ spent' = 0
      /\ result' = "busy" /\ report' = NoReport /\ job' = [ops |-> <<o>>, tells |-> tells]
  BY DEF Send, Begin
<1>2. report' \in ReportType /\ report'.about = "nothing"
  BY <1>1 DEF NoReport, ReportType
<1>3. job'.ops = <<o>> /\ job'.tells = tells
  BY <1>1
<1>4. OneOperation'
  BY <1>1, <1>3 DEF OneOperation
<1> QED
  BY <1>1, <1>2, <1>4 DEF IInv, TruePasswords, RefusedMeansUnchanged, InfoTruthful, HasUif, Busy

\* A command that asks for consent.
LEMMA ConsentOne ==
    ASSUME IInv, NEW o \in Operations, NEW tells, Announces(o, tells), NEW force,
           WithConsent(force, <<o>>, tells)
    PROVE  IInv'
  BY StopInv, SendOne DEF WithConsent

-----------------------------------------------------------------------------
(* The commands. *)

\* The commands about passwords and policies.
LEMMA AccessInv == ASSUME IInv, NEW c \in AccessCommand, Access(c) PROVE IInv'
<1>1. CASE SetRetries(c)
  <2>1. c.counts \in RetryCounts /\ c.admin \in Passwords
    BY <1>1 DEF SetRetries, AccessCommand
  <2>2. reset_retries(c.counts, c.admin) \in Operations
    BY <2>1 DEF Operations
  <2>3. Announces(reset_retries(c.counts, c.admin), DefaultsTold)
    BY DEF Announces, reset_retries
  <2> QED
    BY <1>1, <2>2, <2>3, StopInv, ConsentOne DEF SetRetries
<1>2. CASE ChangePin(c)
  <2>1. c.old \in Passwords /\ c.new \in Passwords
    BY <1>2 DEF ChangePin, AccessCommand
  <2>2. change_password("Pw1", c.old, c.new) \in Operations
    BY <2>1 DEF Operations, References
  <2>3. Announces(change_password("Pw1", c.old, c.new), Only("Pw1", c.new))
    BY DEF Announces, change_password
  <2> QED
    BY <1>2, <2>2, <2>3, StopInv, SendOne DEF ChangePin
<1>3. CASE ChangeAdminPin(c)
  <2>1. c.old \in Passwords /\ c.new \in Passwords
    BY <1>3 DEF ChangeAdminPin, AccessCommand
  <2>2. change_password("Pw3", c.old, c.new) \in Operations
    BY <2>1 DEF Operations, References
  <2>3. Announces(change_password("Pw3", c.old, c.new), Only("Pw3", c.new))
    BY DEF Announces, change_password
  <2> QED
    BY <1>3, <2>2, <2>3, StopInv, SendOne DEF ChangeAdminPin
<1>4. CASE ChangeResetCode(c)
  <2> DEFINE code == IF c.clear THEN None ELSE c.new
  <2>1. c.admin \in Passwords /\ code \in Passwords \cup {None}
    BY <1>4 DEF ChangeResetCode, AccessCommand
  <2>2. set_reset_code(code, c.admin) \in Operations
    BY <2>1 DEF Operations
  <2>3. Announces(set_reset_code(code, c.admin), Only("ResetCode", code))
    BY DEF Announces, set_reset_code
  <2> QED
    BY <1>4, <2>2, <2>3, StopInv, SendOne DEF ChangeResetCode
<1>5. CASE UnblockPin(c)
  <2> DEFINE o == IF c.with = "admin" THEN unblock_with_admin(c.new, c.password)
                  ELSE unblock_with_code(c.password, c.new)
  <2>1. c.password \in Passwords /\ c.new \in Passwords
    BY <1>5 DEF UnblockPin, AccessCommand
  <2>2. o \in Operations
    BY <2>1 DEF Operations, unblock_with_admin, unblock_with_code
  <2>3. Announces(o, Only("Pw1", c.new))
    BY DEF Announces, unblock_with_admin, unblock_with_code, unblock
  <2> QED
    BY <1>5, <2>2, <2>3, StopInv, SendOne DEF UnblockPin
<1>6. CASE SetSignaturePolicy(c)
  <2>1. c.admin \in Passwords /\ c.on \in BOOLEAN
    BY <1>6 DEF SetSignaturePolicy, AccessCommand
  <2>2. set_signature_policy(c.on, c.admin) \in Operations
    BY <2>1 DEF Operations, set_signature_policy, Objects
  <2>3. Announces(set_signature_policy(c.on, c.admin), NoNews)
    BY DEF Announces, set_signature_policy, write_data
  <2> QED
    BY <1>6, <2>2, <2>3, StopInv, SendOne DEF SetSignaturePolicy
<1>7. CASE SetTouchCache(c)
  <2>1. c.admin \in Passwords /\ c.on \in BOOLEAN
    BY <1>7 DEF SetTouchCache, AccessCommand
  <2>2. set_touch_cache_time(c.on, c.admin) \in Operations
    BY <2>1 DEF Operations, set_touch_cache_time, Objects
  <2>3. Announces(set_touch_cache_time(c.on, c.admin), NoNews)
    BY DEF Announces, set_touch_cache_time, write_data
  <2> QED
    BY <1>7, <2>2, <2>3, StopInv, SendOne DEF SetTouchCache
<1> QED
  BY <1>1, <1>2, <1>3, <1>4, <1>5, <1>6, <1>7 DEF Access

\* A cardholder field is written or removed.
LEMMA CardholderInv == ASSUME IInv, NEW c \in CardholderCommand, Cardholder(c) PROVE IInv'
<1>1. c.field \in Objects /\ c.admin \in Passwords
  BY DEF CardholderCommand, Objects
<1>2. write_data(c.field, c.value = "fits", c.admin) \in Operations
  <2>1. \A present \in BOOLEAN : write_data(c.field, present, c.admin) \in Operations
    BY <1>1 DEF Operations
  <2>2. CASE c.value = "fits"
    BY <2>1, <2>2 DEF write_data
  <2>3. CASE c.value # "fits"
    BY <2>1, <2>3 DEF write_data
  <2> QED
    BY <2>2, <2>3
<1>3. Announces(write_data(c.field, c.value = "fits", c.admin), NoNews)
  BY DEF Announces, write_data
<1> QED
  BY <1>2, <1>3, StopInv, SendOne DEF Cardholder

\* The reset tells the factory passwords.
LEMMA ResetInv == ASSUME IInv, NEW force, Reset(force) PROVE IInv'
<1>1. reset_applet \in Operations
  BY DEF Operations
<1>2. Factory.password = Defaults(None)
  BY DEF Factory
<1>3. Announces(reset_applet, Factory.password)
  BY <1>2 DEF Announces, reset_applet, Open
<1> QED
  BY <1>1, <1>3, ConsentOne DEF Reset

\* The commands about certificates.
LEMMA CertificatesInv ==
    ASSUME IInv, NEW c \in CertificatesCommand, Certificates(c) PROVE IInv'
<1>1. ASSUME NEW present \in BOOLEAN, c.slot \in Slots, c.admin \in Passwords
      PROVE  /\ write_certificate(c.slot, present, c.admin) \in Operations
             /\ Announces(write_certificate(c.slot, present, c.admin), NoNews)
  BY <1>1 DEF Operations, Announces, write_certificate
<1>2. CASE ImportCertificate(c)
  <2>1. c.slot \in Slots /\ c.admin \in Passwords
    BY <1>2 DEF ImportCertificate, CertificatesCommand
  <2> QED
    BY <1>1, <1>2, <2>1, StopInv, SendOne DEF ImportCertificate
<1>3. CASE DeleteCertificate(c)
  <2>1. c.slot \in Slots /\ c.admin \in Passwords
    BY <1>3 DEF DeleteCertificate, CertificatesCommand
  <2> QED
    BY <1>1, <1>3, <2>1, StopInv, SendOne DEF DeleteCertificate
<1>4. CASE ExportCertificate(c)
  <2>1. c.slot \in Slots
    BY <1>4 DEF ExportCertificate, CertificatesCommand
  <2>2. read_certificate(c.slot) \in Operations
    BY <2>1 DEF Operations
  <2>3. Announces(read_certificate(c.slot), NoNews)
    BY DEF Announces, read_certificate, OpenSlot
  <2> QED
    BY <1>4, <2>2, <2>3, SendOne DEF ExportCertificate
<1> QED
  BY <1>2, <1>3, <1>4 DEF Certificates

\* The slot's algorithm, and the key after it.
LEMMA SendTwo ==
    ASSUME IInv, NEW s \in Slots, NEW algorithm \in Algorithms, NEW admin \in Passwords,
           NEW o \in Operations, KeyOperation(o, s, algorithm, admin),
           Send(<<set_algorithm(s, algorithm, admin), o>>, NoNews)
    PROVE  IInv'
<1>1. /\ UNCHANGED <<firmware, card, told>> /\ before' = card /\ spent' = 0
      /\ result' = "busy" /\ report' = NoReport
  BY DEF Send, Begin
<1>2. job'.ops = <<set_algorithm(s, algorithm, admin), o>> /\ job'.tells = NoNews
  BY DEF Send
<1>3. report' \in ReportType /\ report'.about = "nothing"
  BY <1>1 DEF NoReport, ReportType
<1>4. KeyOperation(o, s, algorithm, admin)'
  BY <1>1 DEF KeyOperation, openpgp_algorithm_support
<1>5. AlgorithmThenKey'
  BY <1>1, <1>2, <1>4 DEF AlgorithmThenKey
<1> QED
  BY <1>1, <1>3, <1>5 DEF IInv, TruePasswords, RefusedMeansUnchanged, InfoTruthful, HasUif, Busy

\* Sequences of one and two operations.
LEMMA OneAndTwo ==
    \A x, y : << >> \o <<y>> = <<y>> /\ <<x>> \o <<y>> = <<x, y>>
<1> TAKE x, y
<1>1. << >> \o <<y>> = <<y>>
  <2>1. << >> \in Seq({x, y}) /\ <<y>> \in Seq({x, y})
    OBVIOUS
  <2> QED
    BY <2>1, ConcatEmptySeq
<1>2. <<x>> \o <<y>> = <<x, y>>
  <2>1. <<x>> \in Seq({x, y}) /\ <<y>> \in Seq({x, y}) /\ <<x, y>> \in Seq({x, y})
    OBVIOUS
  <2> DEFINE both == <<x>> \o <<y>>
  <2>2. /\ both \in Seq({x, y}) /\ Len(both) = 2
        /\ both[1] = x /\ both[2] = y
    BY <2>1, ConcatProperties
  <2>3. /\ Len(<<x, y>>) = 2 /\ <<x, y>>[1] = x /\ <<x, y>>[2] = y
    OBVIOUS
  <2> HIDE DEF both
  <2>4. both = <<x, y>>
    BY <2>1, <2>2, <2>3, SeqEqual
  <2> QED
    BY <2>4 DEF both
<1> QED
  BY <1>1, <1>2

\* Generation and import of keys.
LEMMA NewKeyInv == ASSUME IInv, NEW c \in KeysCommand, Generate(c) \/ Import(c) PROVE IInv'
<1>1. KeyAlgorithmArg \subseteq Algorithms
  BY DEF KeyAlgorithmArg
<1>2. CASE Generate(c)
  <2>1. /\ c.slot \in Slots /\ c.admin \in Passwords
        /\ c.algorithm \in Algorithms \cup {None}
    BY <1>1, <1>2 DEF Generate, KeysCommand
  <2> DEFINE o == generate_key(c.slot, c.admin)
  <2>2. o \in Operations /\ Announces(o, NoNews)
    <3>1. o \in Operations
      BY <2>1 DEF Operations
    <3>2. Announces(o, NoNews)
      BY DEF Announces, generate_key
    <3> QED
      BY <3>1, <3>2
  <2>3. CASE Stop("refused")
    BY <2>3, StopInv
  <2>4. CASE c.algorithm = None /\ Send(AlgorithmFirst(c) \o <<o>>, NoNews)
    <3>1. AlgorithmFirst(c) \o <<o>> = <<o>>
      BY <2>4, OneAndTwo DEF AlgorithmFirst
    <3> HIDE DEF o
    <3> QED
      BY <2>2, <2>4, <3>1, SendOne
  <2>5. CASE /\ c.algorithm # None /\ validate_generation_algorithm(c.slot, c.algorithm)
             /\ Send(AlgorithmFirst(c) \o <<o>>, NoNews)
    <3>1. AlgorithmFirst(c) \o <<o>> = <<set_algorithm(c.slot, c.algorithm, c.admin), o>>
      BY <2>5, OneAndTwo DEF AlgorithmFirst
    <3>2. KeyOperation(o, c.slot, c.algorithm, c.admin)
      BY <2>5 DEF KeyOperation, validate_generation_algorithm
    <3>3. c.algorithm \in Algorithms
      BY <2>1, <2>5
    <3> HIDE DEF o
    <3> QED
      BY <2>1, <2>2, <2>5, <3>1, <3>2, <3>3, SendTwo
  <2> QED
    BY <1>2, <2>3, <2>4, <2>5 DEF Generate
<1>3. CASE Import(c)
  <2>1. /\ c.slot \in Slots /\ c.admin \in Passwords
        /\ c.algorithm \in Algorithms \cup {None}
    BY <1>1, <1>3 DEF Import, KeysCommand
  <2>2. CASE Stop("refused")
    BY <2>2, StopInv
  <2>3. CASE /\ c.file # None /\ validate_import_algorithm(c.file, c.algorithm, c.slot)
             /\ Send(AlgorithmFirst(c) \o <<import_key(c.slot, c.file, c.admin)>>, NoNews)
    <3> DEFINE o == import_key(c.slot, c.file, c.admin)
    <3>1. c.file \in Algorithms /\ c.algorithm \in {None, c.file}
      BY <1>1, <2>3 DEF validate_import_algorithm
    <3>2. o \in Operations
      BY <2>1, <3>1 DEF Operations
    <3>3. Announces(o, NoNews)
      BY DEF Announces, import_key
    <3>4. CASE c.algorithm = None
      <4>1. AlgorithmFirst(c) \o <<o>> = <<o>>
        BY <3>4, OneAndTwo DEF AlgorithmFirst
      <4>2. Send(<<o>>, NoNews)
        BY <2>3, <4>1
      <4> HIDE DEF o
      <4> QED
        BY <3>2, <3>3, <4>2, SendOne
    <3>5. CASE c.algorithm # None
      <4>1. AlgorithmFirst(c) \o <<o>> = <<set_algorithm(c.slot, c.algorithm, c.admin), o>>
        BY <3>5, OneAndTwo DEF AlgorithmFirst
      <4>2. KeyOperation(o, c.slot, c.algorithm, c.admin) /\ c.algorithm \in Algorithms
        BY <3>1, <3>5 DEF KeyOperation
      <4>3. Send(<<set_algorithm(c.slot, c.algorithm, c.admin), o>>, NoNews)
        BY <2>3, <4>1
      <4> HIDE DEF o
      <4> QED
        BY <2>1, <3>2, <4>2, <4>3, SendTwo
    <3> QED
      BY <3>4, <3>5
  <2> QED
    BY <1>3, <2>2, <2>3 DEF Import
<1> QED
  BY <1>2, <1>3

\* The other commands about keys, but to read.
LEMMA KeyCommandInv ==
    ASSUME IInv, NEW c \in KeysCommand, SetTouch(c) \/ ExportKey(c) PROVE IInv'
<1>1. CASE SetTouch(c)
  <2>1. c.slot \in Slots /\ c.admin \in Passwords /\ c.policy \in TouchPolicyArg
    BY <1>1 DEF SetTouch, KeysCommand
  <2>2. set_touch_policy(c.slot, c.policy, c.admin) \in Operations
    BY <2>1 DEF Operations
  <2>3. Announces(set_touch_policy(c.slot, c.policy, c.admin), NoNews)
    BY DEF Announces, set_touch_policy
  <2> QED
    BY <1>1, <2>2, <2>3, StopInv, ConsentOne DEF SetTouch
<1>2. CASE ExportKey(c)
  <2>1. c.slot \in Slots
    BY <1>2 DEF ExportKey, KeysCommand
  <2>2. read_public_key(c.slot) \in Operations
    BY <2>1 DEF Operations
  <2>3. Announces(read_public_key(c.slot), NoNews)
    BY DEF Announces, read_public_key, OpenSlot
  <2> QED
    BY <1>2, <2>2, <2>3, SendOne DEF ExportKey
<1> QED
  BY <1>1, <1>2

\* What is read first, for the card and for a key.
LEMMA InfoOps ==
    /\ \A a, b, c, d : \A ops :
          ops = <<a, b, c, d>> \o touch_cache_time =>
             ops = IF HasUif THEN <<a, b, c, d, read_data("TouchCacheTime")>> ELSE <<a, b, c, d>>
    /\ \A a : \A ops :
          ops = <<a>> \o touch_cache_time =>
             ops = IF HasUif THEN <<a, read_data("TouchCacheTime")>> ELSE <<a>>
<1>1. CASE HasUif
  BY <1>1 DEF touch_cache_time
<1>2. CASE ~HasUif
  BY <1>2 DEF touch_cache_time
<1> QED
  BY <1>1, <1>2

\* The reading commands have everything still to read.
LEMMA InfoInv == ASSUME IInv, Info \/ \E c \in KeysCommand : KeyInfo(c) PROVE IInv'
<1>1. /\ UNCHANGED <<firmware, card, told>> /\ before' = card /\ spent' = 0
      /\ result' = "busy"
  BY DEF Info, KeyInfo, Begin
<1>2. \A x \in Readable : read_data(x) \in ReadOperations
  BY DEF ReadOperations
<1>3. /\ \A x : read_data(x).name = "read_data" /\ read_data(x).object = x
      /\ read_application_data \in ReadOperations
      /\ read_application_data.name = "read_application_data"
  BY DEF read_data, read_application_data, Open, ReadOperations
<1> HIDE DEF read_data, read_application_data
<1>4. "card" \notin Slots /\ "nothing" \notin Slots
  BY OpenPgpAssumption
<1>5. report' \in ReportType /\ Reading'
  <2>1. CASE Info
    <3> DEFINE four == <<read_application_data, read_data("Cardholder"), read_data("Login"),
                         read_data("Url")>>
               five == <<read_application_data, read_data("Cardholder"), read_data("Login"),
                         read_data("Url"), read_data("TouchCacheTime")>>
    <3>1. job'.ops = IF HasUif THEN five ELSE four
      <4>1. job'.ops = four \o touch_cache_time
        BY <2>1 DEF Info
      <4> QED
        BY <4>1, InfoOps
    <3>2. report' = [about |-> "card", keys |-> {}, objects |-> {}]
      BY <2>1 DEF Info, NoReport
    <3>3. report' \in ReportType /\ report'.about = "card" /\ report'.objects = {}
      BY <3>2 DEF ReportType
    <3>4. /\ job'.ops \in Seq(ReadOperations) /\ job'.ops # << >>
          /\ \A i \in 2..Len(job'.ops) : job'.ops[i].name = "read_data"
          /\ job'.ops[1].name = "read_application_data"
      <4>1. CASE HasUif
        <5>1. job'.ops = five
          BY <3>1, <4>1
        <5> QED
          BY <5>1, <1>2, <1>3 DEF Readable
      <4>2. CASE ~HasUif
        <5>1. job'.ops = four
          BY <3>1, <4>2
        <5> QED
          BY <5>1, <1>2, <1>3 DEF Readable
      <4> QED
        BY <4>1, <4>2
    <3>5. ASSUME NEW x \in Reportable PROVE StillToRead(x)'
      <4>1. ASSUME NEW i \in {2, 3, 4, 5}, NEW object, job'.ops[i] = read_data(object),
                   i \in DOMAIN job'.ops, x \in Contents(object)
            PROVE  StillToRead(x)'
        <5>1. x \in Contents(object)'
          BY <1>1, <4>1 DEF Contents
        <5> QED
          BY <1>3, <4>1, <5>1 DEF StillToRead
      <4>2. /\ job'.ops[2] = read_data("Cardholder") /\ job'.ops[3] = read_data("Login")
            /\ job'.ops[4] = read_data("Url") /\ {2, 3, 4} \subseteq DOMAIN job'.ops
            /\ HasUif => job'.ops[5] = read_data("TouchCacheTime") /\ 5 \in DOMAIN job'.ops
        BY <3>1
      <4>3. /\ x \in card.objects
            /\ x \in {"Name", "Language", "Sex", "Login", "Url", "TouchCacheTime"}
        BY OpenPgpAssumption DEF Reportable
      <4>4. CASE x \in {"Name", "Language", "Sex"}
        <5>1. x \in Contents("Cardholder")
          BY <4>3, <4>4 DEF Contents
        <5> QED
          BY <4>1, <4>2, <5>1
      <4>5. CASE x = "Login"
        <5>1. x \in Contents("Login")
          BY <4>3, <4>5 DEF Contents
        <5> QED
          BY <4>1, <4>2, <5>1
      <4>6. CASE x = "Url"
        <5>1. x \in Contents("Url")
          BY <4>3, <4>6 DEF Contents
        <5> QED
          BY <4>1, <4>2, <5>1
      <4>7. CASE x = "TouchCacheTime"
        <5>1. x \in Contents("TouchCacheTime") /\ HasUif
          BY <4>3, <4>7 DEF Contents, IInv
        <5> QED
          BY <4>1, <4>2, <5>1
      <4> QED
        BY <4>3, <4>4, <4>5, <4>6, <4>7
    <3>6. Reportable' = Reportable
      BY <1>1 DEF Reportable
    <3> QED
      BY <1>1, <3>3, <3>4, <3>5, <3>6 DEF Reading
  <2>2. ASSUME NEW c \in KeysCommand, KeyInfo(c) PROVE report' \in ReportType /\ Reading'
    <3>1. job'.ops = IF HasUif THEN <<read_application_data, read_data("TouchCacheTime")>>
                     ELSE <<read_application_data>>
      <4>1. job'.ops = <<read_application_data>> \o touch_cache_time
        BY <2>2 DEF KeyInfo
      <4> QED
        BY <4>1, InfoOps
    <3>2. c.slot \in Slots
      BY <2>2 DEF KeyInfo, KeysCommand
    <3>3. report' = [about |-> c.slot, keys |-> {}, objects |-> {}]
      BY <2>2 DEF KeyInfo, NoReport
    <3>4. report' \in ReportType /\ report'.about \notin {"card", "nothing"}
      BY <1>4, <3>2, <3>3 DEF ReportType
    <3>5. /\ job'.ops \in Seq(ReadOperations) /\ job'.ops # << >>
          /\ \A i \in 2..Len(job'.ops) : job'.ops[i].name = "read_data"
          /\ job'.ops[1].name = "read_application_data"
      BY <1>2, <1>3, <3>1 DEF Readable
    <3> QED
      BY <1>1, <3>4, <3>5 DEF Reading
  <2> QED
    BY <2>1, <2>2
<1> QED
  BY <1>1, <1>5 DEF IInv, TruePasswords, RefusedMeansUnchanged, InfoTruthful, HasUif, Busy

-----------------------------------------------------------------------------
(* The operations of a command. *)

\* The operation that comes next.
LEMMA NextOperation ==
    ASSUME result = "busy", IInv
    PROVE  \/ /\ Next1 \in Operations /\ ~Reads(Next1) /\ ~Reading
              /\ report = NoReport
           \/ Reading /\ Reads(Next1)
<1>1. Busy
  BY DEF IInv
<1>2. \A o \in Operations : ~Reads(o)
  BY OperationsTyped DEF Typed, Constructors, Reads
<1>3. ASSUME Reading PROVE Reads(Next1)
  <2>1. Next1 \in ReadOperations
    BY <1>3 DEF Reading, Next1
  <2> QED
    BY <2>1 DEF ReadOperations, read_application_data, Open, read_data, Reads
<1>4. ASSUME NEW o \in Operations, job.ops = <<o>> PROVE Next1 = o
  BY <1>4 DEF Next1
<1>5. CASE OneOperation
  <2>1. Next1 \in Operations /\ report = NoReport
    BY <1>4, <1>5 DEF OneOperation
  <2> QED
    BY <1>2, <1>3, <2>1
<1>6. CASE AlgorithmThenKey
  <2>1. PICK s \in Slots, algorithm \in Algorithms, admin \in Passwords, o \in Operations :
             job.ops = <<set_algorithm(s, algorithm, admin), o>> /\ report = NoReport
    BY <1>6 DEF AlgorithmThenKey
  <2>2. set_algorithm(s, algorithm, admin) \in Operations
    BY DEF Operations
  <2>3. Next1 = set_algorithm(s, algorithm, admin)
    BY <2>1 DEF Next1
  <2> QED
    BY <1>2, <1>3, <2>1, <2>2, <2>3
<1>7. CASE KeyAfterAlgorithm
  <2>1. Next1 \in Operations /\ report = NoReport
    BY <1>4, <1>7 DEF KeyAfterAlgorithm
  <2> QED
    BY <1>2, <1>3, <2>1
<1>8. CASE Reading
  BY <1>3, <1>8
<1> QED
  BY <1>1, <1>5, <1>6, <1>7, <1>8 DEF Busy

\* A key's operation is a generation or an import.
LEMMA KeyOperationIs ==
    ASSUME NEW o, NEW s, NEW algorithm, NEW admin, KeyOperation(o, s, algorithm, admin)
    PROVE  /\ o.name \in {"generate_key", "import_key"}
           /\ o.auth = "Pw3" /\ o.password = admin
<1>1. CASE o = generate_key(s, admin)
  BY <1>1 DEF generate_key
<1>2. CASE o = import_key(s, algorithm, admin)
  BY <1>2 DEF import_key
<1> QED
  BY <1>1, <1>2 DEF KeyOperation

\* The key's operation is accepted after its algorithm's.
LEMMA KeyIsAllowed ==
    ASSUME IInv, NEW s \in Slots, NEW algorithm \in Algorithms, NEW admin \in Passwords,
           NEW o, KeyOperation(o, s, algorithm, admin),
           card.attributes[s] = algorithm, openpgp_algorithm_support(algorithm, FALSE),
           card.password["Pw3"] = admin, tries["Pw3"] # 0
    PROVE  Allowed(o)
<1>1. None \notin Passwords
  BY OpenPgpAssumption
<1>2. o.auth = "Pw3" /\ o.password = admin
  BY KeyOperationIs
<1>3. ~Blocked(o) /\ Verifies(o)
  BY <1>1, <1>2 DEF Blocked, Verifies
<1>4. Accepted(o)
  <2>1. CASE o = generate_key(s, admin) /\ openpgp_algorithm_support(algorithm, TRUE)
    <3>1. o.name = "generate_key" /\ o.slot = s
      BY <2>1 DEF generate_key
    <3> QED
      BY <2>1, <3>1 DEF Accepted
  <2>2. CASE o = import_key(s, algorithm, admin)
    <3>1. o.name = "import_key" /\ o.slot = s /\ o.algorithm = algorithm
      BY <2>2 DEF import_key
    <3> QED
      BY <3>1 DEF Accepted
  <2> QED
    BY <2>1, <2>2 DEF KeyOperation
<1> QED
  BY <1>3, <1>4 DEF Allowed

\* A refused operation is the command's first, and changes nothing.
LEMMA OperationRefusedInv == ASSUME IInv, OperationRefused PROVE IInv'
<1>1. /\ result = "busy" /\ result' = "refused" /\ UNCHANGED <<firmware, card, told, before, report>>
      /\ ~Allowed(Next1) /\ spent' \in {spent, spent + 1}
  BY DEF OperationRefused, Refused, Finish, Allowed
<1>2. ~KeyAfterAlgorithm
  <2>1. SUFFICES ASSUME KeyAfterAlgorithm PROVE FALSE
    OBVIOUS
  <2>2. PICK s \in Slots, algorithm \in Algorithms, admin \in Passwords, o \in Operations :
             /\ KeyOperation(o, s, algorithm, admin) /\ job.ops = <<o>>
             /\ card.attributes[s] = algorithm /\ openpgp_algorithm_support(algorithm, FALSE)
             /\ card.password["Pw3"] = admin /\ tries["Pw3"] # 0
    BY <2>1 DEF KeyAfterAlgorithm
  <2>3. Next1 = o
    BY <2>2 DEF Next1
  <2> QED
    BY <1>1, <2>2, <2>3, KeyIsAllowed
<1>3. card = before
  BY <1>1, <1>2 DEF IInv, Busy, OneOperation, AlgorithmThenKey, Reading
<1>4. spent' \in {0, 1}
  BY <1>1 DEF IInv
<1> QED
  BY <1>1, <1>3, <1>4 DEF IInv, TruePasswords, RefusedMeansUnchanged, InfoTruthful, HasUif

\* What an operation that took effect keeps of the card.
LEMMA AfterEffects ==
    ASSUME IInv, NEW o \in Operations, Accepted(o), card' \in Effects(o), UNCHANGED firmware
    PROVE  card' \in CardType /\ ("TouchCacheTime" \in card'.objects => HasUif')
<1>1. PICK after : after = card' /\ after \in Effects(o)
  OBVIOUS
<1>2. /\ after \in CardType
      /\ after.objects \subseteq card.objects \cup IF o.name = "write_data" THEN {o.object} ELSE {}
  BY <1>1, EffectsKeep DEF IInv
<1>3. "TouchCacheTime" \in after.objects => HasUif
  BY <1>2 DEF IInv, Accepted
<1> QED
  BY <1>1, <1>2, <1>3 DEF HasUif

\* An operation takes effect: the command ends, or goes on with the key.
LEMMA OperationDoneInv == ASSUME IInv, OperationDone PROVE IInv'
<1>1. /\ result = "busy" /\ Allowed(Next1) /\ ~Reads(Next1) /\ card' \in Effects(Next1)
      /\ tries' = TriesAfter(Next1, card') /\ UNCHANGED <<firmware, before, spent, report>>
  BY DEF OperationDone
<1>2. Next1 \in Operations /\ ~Reading /\ report = NoReport
  BY <1>1, NextOperation
<1>3. card' \in CardType /\ ("TouchCacheTime" \in card'.objects => HasUif')
  BY <1>1, <1>2, AfterEffects DEF Allowed
<1>4. report'.about = "nothing" /\ report' \in ReportType /\ spent' = 0
  BY <1>1, <1>2 DEF IInv, NoReport
<1>5. ASSUME job.ops = <<Next1>>, Announces(Next1, job.tells) PROVE IInv'
  <2>1. Len(job.ops) = 1
    BY <1>5
  <2>2. told' = Heard(job.tells) /\ result' = "done"
    BY <2>1 DEF OperationDone, Finish
  <2>3. PICK after : after = card' /\ after \in Effects(Next1)
    BY <1>1
  <2>4. /\ Heard(job.tells) \in [References -> Passwords \cup {None, Unknown}]
        /\ \A r \in References :
              Heard(job.tells)[r] = Unknown \/ Heard(job.tells)[r] = after.password[r]
    BY <1>2, <1>5, <2>3, AnnouncedIsTrue DEF IInv
  <2> HIDE DEF Next1
  <2>5. told' \in [References -> Passwords \cup {None, Unknown}] /\ TruePasswords'
    BY <2>2, <2>3, <2>4 DEF TruePasswords
  <2> QED
    BY <1>3, <1>4, <2>2, <2>5 DEF IInv, RefusedMeansUnchanged, InfoTruthful
<1>6. CASE OneOperation
  <2>1. PICK o \in Operations : job.ops = <<o>> /\ Announces(o, job.tells)
    BY <1>6 DEF OneOperation
  <2>2. Next1 = o
    BY <2>1 DEF Next1
  <2> QED
    BY <1>5, <2>1, <2>2
<1>7. CASE KeyAfterAlgorithm
  <2>1. PICK s \in Slots, algorithm \in Algorithms, admin \in Passwords, o \in Operations :
             KeyOperation(o, s, algorithm, admin) /\ job.ops = <<o>> /\ job.tells = NoNews
    BY <1>7 DEF KeyAfterAlgorithm
  <2>2. Next1 = o
    BY <2>1 DEF Next1
  <2>3. Announces(o, job.tells)
    <3>1. o.name \in {"generate_key", "import_key"}
      BY <2>1, KeyOperationIs
    <3> QED
      BY <2>1, <3>1 DEF Announces
  <2> QED
    BY <1>5, <2>1, <2>2, <2>3
<1>8. CASE AlgorithmThenKey
  <2>1. PICK s \in Slots, algorithm \in Algorithms, admin \in Passwords, o \in Operations :
             /\ KeyOperation(o, s, algorithm, admin)
             /\ job.ops = <<set_algorithm(s, algorithm, admin), o>> /\ job.tells = NoNews
    BY <1>8 DEF AlgorithmThenKey
  <2> DEFINE first == set_algorithm(s, algorithm, admin)
  <2>2. Next1 = first /\ Len(job.ops) = 2 /\ Tail(job.ops) = <<o>>
    BY <2>1 DEF Next1
  <2>3. /\ first.name = "set_algorithm" /\ first.auth = "Pw3" /\ first.password = admin
        /\ first.slot = s /\ first.algorithm = algorithm
    BY DEF set_algorithm
  <2>4. first \in Operations
    BY DEF Operations
  <2> HIDE DEF first
  <2>5. UNCHANGED <<told, result>> /\ job' = [job EXCEPT !.ops = Tail(@)]
    BY <2>2 DEF OperationDone
  <2>6. job'.ops = <<o>> /\ job'.tells = NoNews
    BY <2>1, <2>2, <2>5
  <2>7. PICK after : after = card' /\ after \in Effects(first)
    BY <1>1, <2>2
  <2>8. after.attributes[s] = algorithm
    <3>1. CASE card.attributes[s] = algorithm
      BY <2>3, <2>7, <3>1 DEF Effects
    <3>2. CASE card.attributes[s] # algorithm
      <4>1. after = [SetKey(s, "absent") EXCEPT
                       !.attributes = [@ EXCEPT ![s] = algorithm]]
        BY <2>3, <2>7, <3>2 DEF Effects
      <4>2. SetKey(s, "absent") \in CardType
        BY SetKeyType DEF KeyStates, IInv
      <4> HIDE DEF SetKey
      <4> QED
        BY <4>1, <4>2 DEF CardType
    <3> QED
      BY <3>1, <3>2
  <2>9. \A r \in References : after.password[r] = card.password[r]
    <3>1. Changed(first) = {}
      BY <2>3 DEF Changed
    <3> QED
      BY <2>4, <2>7, <3>1, EffectsKeep DEF IInv
  <2>10. tries'["Pw3"] # 0
    <3>1. tries'["Pw3"] = after.limit["Pw3"]
      BY <1>1, <2>2, <2>3, <2>7 DEF TriesAfter, References
    <3> QED
      BY <1>3, <2>7, <3>1 DEF CardType, References
  <2>11. openpgp_algorithm_support(algorithm, FALSE) /\ card.password["Pw3"] = admin
    <3>1. Accepted(first) /\ Verifies(first)
      BY <1>1, <2>2 DEF Allowed
    <3>2. first.auth # None
      BY <2>3, OpenPgpAssumption DEF References
    <3>3. openpgp_algorithm_support(algorithm, FALSE)
      BY <2>3, <3>1 DEF Accepted
    <3> QED
      BY <2>3, <3>1, <3>2, <3>3 DEF Verifies
  <2>12. KeyAfterAlgorithm'
    <3>1. KeyOperation(o, s, algorithm, admin)' /\ openpgp_algorithm_support(algorithm, FALSE)'
      BY <1>1, <2>1, <2>11 DEF KeyOperation, openpgp_algorithm_support
    <3>2. card'.attributes[s] = algorithm /\ card'.password["Pw3"] = admin
      BY <2>7, <2>8, <2>9, <2>11 DEF References
    <3>3. report' = NoReport
      BY <1>1, <1>2
    <3> QED
      BY <2>1, <2>6, <2>10, <3>1, <3>2, <3>3 DEF KeyAfterAlgorithm
  <2>13. TruePasswords'
    BY <2>5, <2>7, <2>9 DEF IInv, TruePasswords
  <2> QED
    BY <1>1, <1>3, <1>4, <2>5, <2>12, <2>13 DEF IInv, RefusedMeansUnchanged, InfoTruthful, Busy
<1> QED
  BY <1>1, <1>2, <1>6, <1>7, <1>8 DEF IInv, Busy

\* What fails leaves unknown the passwords it was to change.
LEMMA OperationFailsInv == ASSUME IInv, OperationFails PROVE IInv'
<1>1. /\ result = "busy" /\ Accepted(Next1) /\ ~Reads(Next1)
      /\ result' = "failed" /\ UNCHANGED <<firmware, before, report>>
      /\ card' = card \/ card' \in Effects(Next1)
      /\ spent' \in {spent, spent + 1}
      /\ told' = Heard([r \in Changed(Next1) |-> Unknown])
  BY DEF OperationFails, Finish
<1>2. Next1 \in Operations /\ report = NoReport
  BY <1>1, NextOperation
<1>3. card' \in CardType /\ ("TouchCacheTime" \in card'.objects => HasUif')
  <2>1. CASE card' = card
    BY <1>1, <2>1 DEF IInv, HasUif
  <2>2. CASE card' \in Effects(Next1)
    BY <1>1, <1>2, <2>2, AfterEffects
  <2> QED
    BY <1>1, <2>1, <2>2
<1>4. \A r \in References : r \notin Changed(Next1) => card'.password[r] = card.password[r]
  <2>1. PICK after : after = card' /\ (after = card \/ after \in Effects(Next1))
    BY <1>1
  <2>2. \A r \in References : r \notin Changed(Next1) => after.password[r] = card.password[r]
    BY <1>2, <2>1, EffectsKeep DEF IInv
  <2> QED
    BY <2>1, <2>2
<1>5. told' = [r \in References |-> IF r \in Changed(Next1) THEN Unknown ELSE told[r]]
  BY <1>1 DEF Heard
<1> HIDE DEF Next1
<1>6. told' \in [References -> Passwords \cup {None, Unknown}]
  BY <1>5 DEF IInv
<1>7. TruePasswords'
  BY <1>4, <1>5 DEF IInv, TruePasswords
<1>8. report'.about = "nothing" /\ report' \in ReportType /\ spent' \in {0, 1}
  BY <1>1, <1>2 DEF IInv, NoReport
<1> QED
  BY <1>1, <1>3, <1>6, <1>7, <1>8 DEF IInv, RefusedMeansUnchanged, InfoTruthful

-----------------------------------------------------------------------------
(* Reading. *)

\* After one object has been read, or found missing, the others remain.
LEMMA ContinueReading ==
    ASSUME IInv, result = "busy", Reading, Continue,
           UNCHANGED <<firmware, card, told, before, spent>>,
           report' \in ReportType, report'.about = report.about, KeysReported',
           report.about = "card" =>
              /\ report'.objects \subseteq Reportable /\ report.objects \subseteq report'.objects
              /\ \A x \in Reportable :
                    job.ops[1].name = "read_data" /\ x \in Contents(job.ops[1].object) =>
                       x \in report'.objects
    PROVE  IInv'
<1> DEFINE ops == job.ops
<1>1. /\ ops \in Seq(ReadOperations) /\ ops # << >> /\ Len(ops) \in Nat /\ Len(ops) > 0
      /\ DOMAIN ops = 1..Len(ops)
  <2>1. ops \in Seq(ReadOperations) /\ ops # << >>
    BY DEF Reading
  <2> QED
    BY <2>1, LenProperties, EmptySeq
<1>2. Reportable' = Reportable
  BY DEF Reportable
<1>3. \A x : Contents(x)' = Contents(x)
  BY DEF Contents
<1>4. /\ card' \in CardType /\ ("TouchCacheTime" \in card'.objects => HasUif')
      /\ told' \in [References -> Passwords \cup {None, Unknown}] /\ TruePasswords'
      /\ spent' = 0
  BY DEF IInv, TruePasswords, HasUif
<1>5. CASE Len(ops) = 1
  <2>1. result' = "done"
    BY <1>5 DEF Continue, Finish
  <2>2. ASSUME report'.about = "card" PROVE report'.objects = Reportable
    <3>1. \A x \in Reportable : StillToRead(x) => x \in report'.objects
      <4>1. DOMAIN job.ops = {1}
        BY <1>1, <1>5
      <4> QED
        BY <2>2, <4>1 DEF StillToRead
    <3> QED
      BY <2>2, <3>1 DEF Reading
  <2>3. InfoTruthful'
    BY <1>2, <2>2 DEF InfoTruthful, KeysReported, Reportable
  <2> QED
    BY <1>4, <2>1, <2>3 DEF IInv, RefusedMeansUnchanged
<1>6. CASE Len(ops) # 1
  <2>1. job' = [job EXCEPT !.ops = Tail(@)] /\ result' = "busy"
    BY <1>6 DEF Continue
  <2> DEFINE rest == Tail(ops)
  <2>2. /\ rest \in Seq(ReadOperations) /\ Len(rest) = Len(ops) - 1
        /\ \A i \in 1..Len(rest) : rest[i] = ops[i + 1]
        /\ DOMAIN rest = 1..Len(rest) /\ rest # << >>
    <3>1. /\ rest \in Seq(ReadOperations) /\ Len(rest) = Len(ops) - 1
          /\ \A i \in 1..Len(rest) : rest[i] = ops[i + 1]
      BY <1>1, HeadTailProperties
    <3> HIDE DEF rest, ops
    <3>2. DOMAIN rest = 1..Len(rest) /\ (rest = << >> => Len(rest) = 0)
      BY <3>1, LenProperties
    <3> QED
      BY <1>1, <1>6, <3>1, <3>2
  <2>3. job'.ops = rest
    BY <2>1
  <2> HIDE DEF rest
  <2>4. \A i \in 1..Len(rest) : rest[i].name = "read_data"
    <3>1. \A i \in 2..Len(ops) : ops[i].name = "read_data"
      BY DEF Reading
    <3> HIDE DEF ops
    <3> QED
      BY <1>1, <2>2, <3>1
  <2>5. ASSUME report.about = "card", NEW x \in Reportable
        PROVE  x \in report'.objects \/ StillToRead(x)'
    <3>1. CASE x \in report.objects
      BY <2>5, <3>1
    <3>2. CASE StillToRead(x)
      <4>1. PICK i \in 1..Len(ops) : ops[i].name = "read_data" /\ x \in Contents(ops[i].object)
        BY <1>1, <3>2 DEF StillToRead
      <4>2. CASE i = 1
        BY <2>5, <4>1, <4>2
      <4>3. CASE i # 1
        <5> HIDE DEF ops
        <5>1. i - 1 \in 1..Len(rest) /\ (i - 1) + 1 = i
          BY <1>1, <2>2, <4>1, <4>3
        <5>2. rest[i - 1] = ops[i]
          BY <2>2, <5>1
        <5>3. PICK j \in DOMAIN job'.ops :
                   job'.ops[j].name = "read_data" /\ x \in Contents(job'.ops[j].object)
          BY <2>2, <2>3, <4>1, <5>1, <5>2
        <5> QED
          BY <1>3, <5>3 DEF StillToRead
      <4> QED
        BY <4>2, <4>3
    <3> QED
      BY <2>5, <3>1, <3>2 DEF Reading
  <2>6. Reading'
    <3>1. card' = before' /\ report'.about # "nothing"
      BY DEF Reading
    <3>2. \A i \in 2..Len(rest) : rest[i].name = "read_data"
      <4> HIDE DEF ops
      <4> QED
        BY <1>1, <2>2, <2>4
    <3> HIDE DEF ops
    <3> QED
      BY <1>2, <2>2, <2>3, <2>5, <3>1, <3>2 DEF Reading
  <2> QED
    BY <1>4, <2>1, <2>6 DEF IInv, RefusedMeansUnchanged, InfoTruthful, Busy
<1> QED
  BY <1>5, <1>6

\* A read that ends the command.
LEMMA EndReading ==
    ASSUME IInv, result = "busy", Reading, NEW r \in {"failed", "refused"}, Finish(r),
           UNCHANGED <<firmware, card, told, before, spent, report>>
    PROVE  IInv'
<1>1. card = before
  BY DEF Reading
<1> QED
  BY <1>1 DEF Finish, IInv, TruePasswords, RefusedMeansUnchanged, InfoTruthful, HasUif

\* The first read tells what keys there are.
LEMMA ReadApplicationDataInv == ASSUME IInv, ReadApplicationData PROVE IInv'
<1>1. /\ result = "busy" /\ Next1.name = "read_application_data"
      /\ UNCHANGED <<firmware, card, told, before, spent>>
  BY DEF ReadApplicationData
<1>2. Reading
  BY <1>1, NextOperation DEF Reads
<1>3. "card" \notin Slots /\ "nothing" \notin Slots
  BY OpenPgpAssumption
<1>4. job.ops[1].name # "read_data"
  BY <1>1 DEF Next1
<1>5. report \in ReportType
  BY DEF IInv
<1>6. CASE Finish("failed") /\ UNCHANGED report
  BY <1>1, <1>2, <1>6, EndReading
<1>7. CASE /\ report.about = "card" /\ Continue
           /\ report' = [report EXCEPT !.keys = {s \in Slots : key_is_present(s)}]
  <2>1. /\ report' \in ReportType /\ report'.about = "card"
        /\ report'.keys = {s \in Slots : key_is_present(s)} /\ report'.objects = report.objects
    BY <1>5, <1>7 DEF ReportType
  <2>2. ASSUME HasKeyStatus PROVE \A s \in Slots : key_is_present(s) <=> card.key[s] # "absent"
    <3>1. \A s \in Slots : card.key[s] # None
      BY OpenPgpAssumption DEF IInv, CardType
    <3> QED
      BY <2>2, <3>1 DEF key_is_present, key_information
  <2>3. KeysReported'
    BY <1>1, <2>1, <2>2 DEF KeysReported, HasKeyStatus
  <2>4. report.objects \subseteq Reportable
    BY <1>2, <1>7 DEF Reading
  <2> QED
    BY <1>1, <1>2, <1>4, <1>7, <2>1, <2>3, <2>4, ContinueReading
<1>8. CASE /\ report.about \in Slots /\ key_information(report.about) = "absent"
           /\ Finish("refused") /\ UNCHANGED report
  BY <1>1, <1>2, <1>8, EndReading
<1>9. CASE /\ report.about \in Slots /\ key_information(report.about) # "absent"
           /\ report' = [report EXCEPT !.keys = {report.about}] /\ Continue
  <2>1. /\ report' \in ReportType /\ report'.about = report.about
        /\ report'.keys = {report.about} /\ report.about # "card"
    BY <1>3, <1>5, <1>9 DEF ReportType
  <2>2. HasKeyStatus => card.key[report.about] # "absent"
    BY <1>9 DEF key_information
  <2>3. KeysReported'
    BY <1>1, <1>9, <2>1, <2>2 DEF KeysReported, HasKeyStatus
  <2> QED
    BY <1>1, <1>2, <1>9, <2>1, <2>3, ContinueReading
<1> QED
  BY <1>6, <1>7, <1>8, <1>9 DEF ReadApplicationData

\* Any other read tells what the object holds.
LEMMA ReadDataInv == ASSUME IInv, ReadData PROVE IInv'
<1>1. /\ result = "busy" /\ Next1.name = "read_data"
      /\ UNCHANGED <<firmware, card, told, before, spent>>
  BY DEF ReadData
<1>2. Reading
  BY <1>1, NextOperation DEF Reads
<1>3. report \in ReportType /\ KeysReported
  BY <1>1, <1>2 DEF IInv, Reading, Next1
<1> DEFINE object == Next1.object
<1>4. object \in Readable
  <2>1. Next1 \in ReadOperations
    BY <1>2 DEF Reading, Next1
  <2>2. \E x \in Readable : Next1 = read_data(x)
    BY <1>1, <2>1 DEF ReadOperations, read_application_data, Open
  <2> QED
    BY <2>2 DEF read_data
<1>5. Contents(object) \subseteq Reportable
  <2>1. Contents(object) \subseteq card.objects /\ card.objects \subseteq Objects
    BY DEF Contents, IInv, CardType
  <2>2. "ReuseSignaturePin" \notin Contents(object)
    BY <1>4 DEF Contents, Readable
  <2> QED
    BY <2>1, <2>2 DEF Reportable, Objects
<1>6. PICK answer \in {"value", "not found", "failed"} :
        /\ answer = "not found" => Contents(object) = {}
        /\ \/ Finish("failed") /\ UNCHANGED report
           \/ answer = "not found" /\ Continue /\ UNCHANGED report
           \/ /\ report' = [report EXCEPT !.objects = @ \cup Contents(object)]
              /\ Continue
  BY DEF ReadData, optional_record
<1>7. CASE Finish("failed") /\ UNCHANGED report
  BY <1>1, <1>2, <1>7, EndReading
<1>8. CASE Contents(object) = {} /\ Continue /\ UNCHANGED report
  <2>1. KeysReported'
    BY <1>1, <1>3, <1>8 DEF KeysReported, HasKeyStatus
  <2>2. report.about = "card" => report.objects \subseteq Reportable
    BY <1>2 DEF Reading
  <2>3. Contents(job.ops[1].object) = {}
    BY <1>8 DEF Next1
  <2> QED
    BY <1>1, <1>2, <1>3, <1>8, <2>1, <2>2, <2>3, ContinueReading
<1>9. CASE report' = [report EXCEPT !.objects = @ \cup Contents(object)] /\ Continue
  <2>1. report.objects \cup Contents(object) \subseteq Objects
    BY <1>3, <1>5 DEF ReportType, Reportable, Objects
  <2>2. /\ report' \in ReportType /\ report'.about = report.about /\ report'.keys = report.keys
        /\ report'.objects = report.objects \cup Contents(object)
    BY <1>3, <1>9, <2>1 DEF ReportType
  <2>3. KeysReported'
    BY <1>1, <1>3, <2>2 DEF KeysReported, HasKeyStatus
  <2>4. report.about = "card" => report'.objects \subseteq Reportable
    BY <1>2, <1>5, <2>2 DEF Reading
  <2>5. Contents(job.ops[1].object) = Contents(object)
    BY DEF Next1
  <2> HIDE DEF object
  <2> QED
    BY <1>1, <1>2, <1>9, <2>2, <2>3, <2>4, <2>5, ContinueReading
<1> QED
  BY <1>6, <1>7, <1>8, <1>9

\* Other software only names keys.
LEMMA OtherSoftwareInv == ASSUME IInv, OtherSoftware PROVE IInv'
<1>1. /\ result # "busy" /\ UNCHANGED <<firmware, told, spent>>
      /\ result' = "done" /\ report' = NoReport /\ before' = card'
  BY DEF OtherSoftware
<1>2. PICK s \in Slots : card' = [card EXCEPT !.fingerprint = @ \cup {s}]
  BY DEF OtherSoftware
<1>3. card' \in CardType /\ card'.objects = card.objects /\ card'.password = card.password
  BY <1>2 DEF IInv, CardType
<1>4. report' \in ReportType /\ report'.about = "nothing"
  BY <1>1 DEF NoReport, ReportType
<1> QED
  BY <1>1, <1>3, <1>4 DEF IInv, TruePasswords, RefusedMeansUnchanged, InfoTruthful, HasUif

-----------------------------------------------------------------------------
(* The theorems. *)

\* Every step keeps the invariant.
LEMMA NextIInv == IInv /\ [Next]_vars => IInv'
<1> SUFFICES ASSUME IInv, [Next]_vars PROVE IInv'
  OBVIOUS
<1>1. CASE Info
  BY <1>1, InfoInv
<1>2. ASSUME NEW force \in BOOLEAN, Reset(force) PROVE IInv'
  BY <1>2, ResetInv
<1>3. ASSUME NEW c \in AccessCommand, Access(c) PROVE IInv'
  BY <1>3, AccessInv
<1>4. ASSUME NEW c \in CardholderCommand, Cardholder(c) PROVE IInv'
  BY <1>4, CardholderInv
<1>5. ASSUME NEW c \in KeysCommand, Keys(c) PROVE IInv'
  BY <1>5, NewKeyInv, KeyCommandInv, InfoInv DEF Keys
<1>6. ASSUME NEW c \in CertificatesCommand, Certificates(c) PROVE IInv'
  BY <1>6, CertificatesInv
<1>7. CASE OperationRefused
  BY <1>7, OperationRefusedInv
<1>8. CASE OperationDone
  BY <1>8, OperationDoneInv
<1>9. CASE OperationFails
  BY <1>9, OperationFailsInv
<1>10. CASE ReadApplicationData
  BY <1>10, ReadApplicationDataInv
<1>11. CASE ReadData
  BY <1>11, ReadDataInv
<1>12. CASE OtherSoftware
  BY <1>12, OtherSoftwareInv
<1>13. CASE UNCHANGED vars
  <2>1. ASSUME UNCHANGED vars, Busy PROVE Busy'
    BY <2>1 DEF vars, Busy, OneOperation, AlgorithmThenKey, KeyAfterAlgorithm, Reading,
                KeyOperation, openpgp_algorithm_support, KeysReported, HasKeyStatus,
                Reportable, StillToRead, Contents
  <2> QED
    BY <1>13, <2>1 DEF vars, IInv, TruePasswords, RefusedMeansUnchanged, InfoTruthful, HasUif,
                       HasKeyStatus
<1> QED
  BY <1>1, <1>2, <1>3, <1>4, <1>5, <1>6, <1>7, <1>8, <1>9, <1>10, <1>11, <1>12, <1>13 DEF Next

\* The invariant holds in every reachable state.
LEMMA Invariance == Spec => []IInv
<1>1. Init => IInv
  BY InitIInv
<1>2. IInv /\ [Next]_vars => IInv'
  BY NextIInv
<1> QED
  BY <1>1, <1>2, PTL DEF Spec

\* Whatever the program, the library or a password refuses, or the user
\* declines, has changed nothing on the card: where generation and import send
\* the slot's new algorithm first, the key that follows can no longer be refused.
THEOREM RefusalChangesNothing == Spec => []RefusedMeansUnchanged
<1>1. IInv => RefusedMeansUnchanged
  BY DEF IInv
<1> QED
  BY <1>1, Invariance, PTL

\* However many operations a command sends with a password, a wrong one costs
\* a single try, and none when the user declines.
THEOREM WrongPasswordCostsOneTry == Spec => []OneTryPerCommand
<1>1. IInv => OneTryPerCommand
  BY DEF IInv, OneTryPerCommand
<1> QED
  BY <1>1, Invariance, PTL

\* What the user was told of the passwords is what the card holds, whatever
\* counters, resets, and lost answers came between.
THEOREM ToldPasswordsAreTrue == Spec => []TruePasswords
<1>1. IInv => TruePasswords
  BY DEF IInv
<1> QED
  BY <1>1, Invariance, PTL

\* When info ends well it has reported every object, and every key where the
\* card tells of keys: an object found missing is not there, and a failed read
\* ends the command.
THEOREM InfoTellsTheTruth == Spec => []InfoTruthful
<1>1. IInv => InfoTruthful
  BY DEF IInv
<1> QED
  BY <1>1, Invariance, PTL
=============================================================================
