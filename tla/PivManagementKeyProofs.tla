----------------------- MODULE PivManagementKeyProofs -----------------------
(* Proofs about PivManagementKey, for every set of keys, PINs, salts and    *)
(* recovery files: the type invariant, that the active management key is    *)
(* never lost, that the metadata follow the card, and who may replace the   *)
(* PIN and block the PUK.                                                   *)
EXTENDS PivManagementKey, TLAPS

LEMMA KeyFacts ==
    /\ \A p \in Pins, s \in Salts : Derived(p, s) \in DerivedKeys
    /\ DerivedKeys \subseteq Keys
    /\ ChosenKeys \subseteq Keys
    /\ DefaultKey \in Keys
BY KeyAssumption DEF Derived, DerivedKeys, Keys

LEMMA Records ==
    /\ NoPivman \in PivmanData
    /\ NoJob \in Jobs
BY DEF NoPivman, PivmanData, NoJob, Jobs

LEMMA UpdatedType == job \in Jobs => Updated \in PivmanData
BY DEF Updated, Jobs, PivmanData

\* The keys a user can type or read off a recovery file.
LEMMA UserKeysType == TypeOK => UserKeys \subseteq Keys
<1> SUFFICES ASSUME TypeOK, NEW k \in UserKeys PROVE k \in Keys
  OBVIOUS
<1>1. CASE k \in known
  BY <1>1, KeyFacts DEF TypeOK, UserTypeOK
<1>2. CASE k \in FileKeys
  <2>1. PICK p \in Paths : recovery[p] # NoFile /\ k = recovery[p].key
    BY <1>2 DEF FileKeys
  <2>2. recovery[p] \in RecoveryFile
    BY <2>1 DEF TypeOK, UserTypeOK
  <2> QED
    BY <2>1, <2>2 DEF RecoveryFile
<1> QED
  BY <1>1, <1>2 DEF UserKeys

-----------------------------------------------------------------------------
(* Type correctness.  It is not inductive by itself: that a command writes a *)
(* key or a PIN at all depends on where it stands.                           *)

JobFits ==
    /\ pc \in KeySteps => job.op = "change_key"
    /\ pc \in KeySteps \ {"save"} => job.path \in Paths
    /\ pc \in PinSteps => job.op = "change_pin"
    /\ pc = "unblock" => job.op = "unblock_pin"
    /\ pc = "resolve" => job.op \in {"change_key", "set_retries"}
    /\ pc = "check" => job.op \in {"set_retries", "unblock_pin"}
    /\ pc \in RetrySteps => job.op = "set_retries"
    /\ job.op = "change_key" => job.newKey \in ChosenKeys
    /\ job.op \in {"change_pin", "unblock_pin"} => job.newPin \in Pins
    /\ pc \in {"repin", "verify", "rotate", "resalt"} /\ has_derived_key(job.pivman)
          => job.newKey \in DerivedKeys
    /\ pc \in {"verify", "rotate", "resalt"} => has_derived_key(job.pivman)

LEMMA InitType == Init => TypeOK
<1> SUFFICES ASSUME Init PROVE TypeOK
  OBVIOUS
<1>1. CardTypeOK
  <2>1. CASE FactoryCard
    BY <2>1, KeyFacts, Records, PinAssumption DEF Init, FactoryCard, CardTypeOK
  <2>2. CASE DerivedCard
    <3>1. PICK s \in Salts : /\ mgmtKey = Derived(pin, s)
                             /\ admin = [NoPivman EXCEPT !.salt = s]
                             /\ printed = NoKey
      BY <2>2 DEF DerivedCard
    <3>2. admin \in PivmanData
      BY <3>1 DEF PivmanData, NoPivman
    <3> QED
      BY <3>1, <3>2, KeyFacts, PinAssumption DEF Init, CardTypeOK
  <2>3. CASE LegacyStoredCard
    <3>1. PICK k \in ChosenKeys : /\ mgmtKey = k
                                  /\ admin = [NoPivman EXCEPT !.stored_key = TRUE]
                                  /\ printed = k
      BY <2>3 DEF LegacyStoredCard
    <3>2. admin \in PivmanData
      BY <3>1 DEF PivmanData, NoPivman
    <3> QED
      BY <3>1, <3>2, KeyFacts, PinAssumption DEF Init, CardTypeOK
  <2> QED
    BY <2>1, <2>2, <2>3 DEF Init
<1>2. HostTypeOK
  BY Records DEF Init, HostTypeOK
<1>3. UserTypeOK
  BY KeyAssumption DEF Init, UserTypeOK
<1>4. HistoryTypeOK
  BY DEF Init, HistoryTypeOK
<1> QED
  BY <1>1, <1>2, <1>3, <1>4 DEF TypeOK

LEMMA HistoryType ==
    ASSUME TypeOK, [Next]_vars
    PROVE  HistoryTypeOK'
<1>1. CASE KeepHistory
  BY <1>1 DEF TypeOK, HistoryTypeOK, KeepHistory, Outdates
<1>2. CASE UNCHANGED vars
  BY <1>2 DEF TypeOK, HistoryTypeOK, vars
<1> QED
  BY <1>1, <1>2 DEF Next

\* Resolving the key goes on with a well-typed job, or ends.
LEMMA ResolveType ==
    ASSUME TypeOK, ResolveManagement, HistoryTypeOK'
    PROVE  TypeOK'
<1> DEFINE P == Pins \cup {NoPin}
<1>1. ASSUME NEW k \in Keys \cup {NoKey}, NEW p \in P, AfterResolve(k, p)
      PROVE  HostTypeOK'
  <2>1. [job EXCEPT !.access = k, !.pin = p] \in Jobs
    BY DEF TypeOK, HostTypeOK, Jobs
  <2> QED
    BY <1>1, <2>1 DEF AfterResolve, StepAfterResolve, Goto, TypeOK, HostTypeOK, Active, KeySteps, RetrySteps
<1>2. ASSUME NEW o \in {"ok", "refused", "failed"}, End(o)
      PROVE  HostTypeOK'
  BY <1>2 DEF End, TypeOK, HostTypeOK
<1>3. UNCHANGED card => CardTypeOK'
  BY DEF card, TypeOK, CardTypeOK
<1>4. PromptedPins \subseteq P
  BY DEF PromptedPins
<1>5. UserTypeOK'
  BY DEF ResolveManagement, TypeOK, UserTypeOK
<1>6. CASE ResolveExplicit
  BY <1>1, <1>3, <1>4, <1>5, <1>6 DEF ResolveExplicit, TypeOK, HostTypeOK, Jobs
<1>7. ASSUME NEW p \in Pins,
             ResolveLegacyStored(p) \/ ResolveCompleting(p) \/ ResolveStored(p)
      PROVE  CardTypeOK' /\ HostTypeOK'
  <2>1. printed \in Keys \cup {NoKey}
    BY DEF TypeOK, CardTypeOK
  <2>2. CASE ResolveLegacyStored(p)
    BY <1>1, <1>2, <1>3, <2>1, <2>2 DEF ResolveLegacyStored, Query
  <2>3. CASE ResolveCompleting(p)
    <3>1. CardTypeOK'
      BY <1>3, <2>3 DEF ResolveCompleting, Exchange, TypeOK, CardTypeOK
    <3>2. HostTypeOK'
      BY <1>1, <1>2, <2>1, <2>3 DEF ResolveCompleting, Exchange
    <3> QED
      BY <3>1, <3>2
  <2>4. CASE ResolveStored(p)
    BY <1>1, <1>2, <1>3, <2>1, <2>4 DEF ResolveStored, Query
  <2> QED
    BY <1>7, <2>2, <2>3, <2>4
<1>8. ASSUME NEW p \in Pins, ResolveDerived(p)
      PROVE  CardTypeOK' /\ HostTypeOK'
  <2>1. Derived(p, admin.salt) \in Keys
    BY <1>8, KeyFacts DEF ResolveDerived, has_derived_key, TypeOK, CardTypeOK, PivmanData
  <2> QED
    BY <2>1, <1>8, <1>1, <1>3 DEF ResolveDerived
<1>9. ASSUME NEW k \in UserKeys, ResolvePrompt(k)
      PROVE  CardTypeOK' /\ HostTypeOK'
  BY <1>9, <1>1, <1>3, <1>4, UserKeysType DEF ResolvePrompt
<1> QED
  BY <1>5, <1>6, <1>7, <1>8, <1>9 DEF ResolveManagement, TypeOK, ResolveExplicit

\* Every way a handler leaves the host's variables keeps their types.
LEMMA HostMoves ==
    ASSUME TypeOK
    PROVE  /\ \A n \in Active, j \in Jobs : Goto(n, j) \/ Start(n, j) => HostTypeOK'
           /\ \A o \in {"ok", "refused", "failed"} : End(o) => HostTypeOK'
           /\ \A n \in Active : Goto(n, job) => HostTypeOK'
BY DEF TypeOK, HostTypeOK, Goto, Start, End

LEMMA StepNames ==
    /\ StepAfterReplace \in Active
    /\ StepAfterStore \in Active
    /\ StepAfterPublish \in Active
    /\ Active \cap {"idle", "ended"} = {}
BY DEF StepAfterReplace, StepAfterStore, StepAfterPublish, Active, KeySteps,
       RetrySteps, PinSteps

LEMMA NextType ==
    ASSUME TypeOK, JobFits, [Next]_vars
    PROVE  TypeOK'
<1>h. HistoryTypeOK'
  BY HistoryType
<1> USE <1>h DEF TypeOK
<1>0. /\ {"resolve", "inspect", "replace", "block", "cleanup", "check", "unblock",
          "reread", "read", "repin", "verify", "rotate", "resalt"} \subseteq Active
      /\ UNCHANGED card => CardTypeOK'
      /\ UNCHANGED <<recovery, known>> => UserTypeOK'
  BY DEF Active, KeySteps, RetrySteps, PinSteps, card, CardTypeOK, UserTypeOK
<1>1. ASSUME NEW k \in ChosenKeys, NEW protect \in BOOLEAN, NEW hidden \in BOOLEAN,
             NEW e \in UserKeys \cup {NoKey}, ChangeManagementKey(k, protect, hidden, e)
      PROVE  TypeOK'
  <2>1. [NoJob EXCEPT !.op = "change_key", !.newKey = k, !.protect = protect,
                      !.explicit = e] \in Jobs
    BY KeyFacts, UserKeysType, Records DEF NoJob, Jobs
  <2> QED
    BY <1>0, <1>1, <2>1, HostMoves DEF ChangeManagementKey, UserTypeOK
<1>2. ASSUME NEW e \in UserKeys \cup {NoKey}, SetRetries(e)
      PROVE  TypeOK'
  <2>1. [NoJob EXCEPT !.op = "set_retries", !.explicit = e] \in Jobs
    BY UserKeysType, Records DEF NoJob, Jobs
  <2> QED
    BY <1>0, <1>2, <2>1, HostMoves DEF SetRetries
<1>3. ASSUME NEW new \in Pins, UnblockPin(new)
      PROVE  TypeOK'
  <2>1. [NoJob EXCEPT !.op = "unblock_pin", !.newPin = new] \in Jobs
    BY Records DEF NoJob, Jobs
  <2> QED
    BY <1>0, <1>3, <2>1, HostMoves DEF UnblockPin
<1>4. ASSUME NEW old \in Pins, NEW new \in Pins, ChangePin(old, new)
      PROVE  TypeOK'
  <2>1. [NoJob EXCEPT !.op = "change_pin", !.pin = old, !.newPin = new] \in Jobs
    BY Records DEF NoJob, Jobs
  <2> QED
    BY <1>0, <1>4, <2>1, HostMoves DEF ChangePin
<1>5. CASE ChangePuk
  BY <1>0, <1>5 DEF ChangePuk, host, HostTypeOK, CardTypeOK
<1>6. CASE ResetApplet
  BY <1>0, <1>6, KeyFacts, PinAssumption, Records
     DEF ResetApplet, host, HostTypeOK, CardTypeOK
<1>7. CASE ResolveManagement
  BY <1>7, ResolveType
<1>8. CASE SaveRecoveryFile
  <2>1. PICK p \in Paths :
          \/ /\ recovery' = [recovery EXCEPT ![p] =
                               [key |-> job.newKey, protect |-> job.protect]]
             /\ Goto("inspect", [job EXCEPT !.path = p])
          \/ End("refused") /\ UNCHANGED recovery
    BY <1>8 DEF SaveRecoveryFile
  <2>2. [job EXCEPT !.path = p] \in Jobs
    BY DEF HostTypeOK, Jobs
  <2>3. HostTypeOK'
    BY <1>0, <2>1, <2>2, HostMoves
  <2>4. UserTypeOK'
    <3>1. CASE UNCHANGED recovery
      BY <1>8, <3>1 DEF SaveRecoveryFile, UserTypeOK
    <3>2. CASE recovery' = [recovery EXCEPT ![p] =
                              [key |-> job.newKey, protect |-> job.protect]]
      <4>0. job.newKey \in Keys
        BY <1>8, KeyFacts DEF SaveRecoveryFile, JobFits, KeySteps
      <4>1. [key |-> job.newKey, protect |-> job.protect] \in RecoveryFile
        BY <4>0 DEF RecoveryFile, HostTypeOK, Jobs
      <4> QED
        BY <1>8, <3>2, <4>1 DEF SaveRecoveryFile, UserTypeOK
    <3> QED
      BY <2>1, <3>1, <3>2
  <2> QED
    BY <1>0, <1>8, <2>3, <2>4 DEF SaveRecoveryFile
<1>9. CASE InspectProtection
  <2>1. ASSUME NEW c \in Keys \cup {NoKey}
        PROVE  [job EXCEPT !.pivman = admin, !.copy = c] \in Jobs
    BY DEF HostTypeOK, CardTypeOK, Jobs
  <2>2. (IF NeedsPrinted THEN printed ELSE NoKey) \in Keys \cup {NoKey}
    BY DEF CardTypeOK
  <2>3. HostTypeOK'
    BY <1>0, <1>9, <2>1, <2>2, HostMoves, StepNames
       DEF InspectProtection, Query, Active, KeySteps
  <2> QED
    BY <1>0, <1>9, <2>3 DEF InspectProtection, Query
<1>10. CASE ReplaceKey
  <2>1. job.newKey \in Keys
    BY <1>10, KeyFacts DEF ReplaceKey, JobFits, KeySteps
  <2>2. HostTypeOK'
    BY <1>10, HostMoves, StepNames DEF ReplaceKey, Exchange
  <2>3. CardTypeOK'
    BY <1>0, <1>10, <2>1 DEF ReplaceKey, Exchange, CardTypeOK
  <2> QED
    BY <1>0, <1>10, <2>2, <2>3 DEF ReplaceKey
<1>11. CASE StoreProtectedKey
  <2>1. job.newKey \in Keys
    BY <1>11, KeyFacts DEF StoreProtectedKey, JobFits, KeySteps
  <2>2. HostTypeOK'
    BY <1>11, HostMoves, StepNames DEF StoreProtectedKey, Exchange
  <2>3. CardTypeOK'
    BY <1>0, <1>11, <2>1 DEF StoreProtectedKey, Exchange, CardTypeOK
  <2> QED
    BY <1>0, <1>11, <2>2, <2>3 DEF StoreProtectedKey
<1>12. CASE UpdateMetadata
  <2>1. Updated \in PivmanData
    BY UpdatedType DEF HostTypeOK
  <2>2. HostTypeOK'
    BY <1>12, HostMoves, StepNames DEF UpdateMetadata, Exchange
  <2>3. CardTypeOK'
    BY <1>0, <1>12, <2>1 DEF UpdateMetadata, Exchange, CardTypeOK
  <2> QED
    BY <1>0, <1>12, <2>2, <2>3 DEF UpdateMetadata
<1>13. CASE ProtectPuk
  <2>1. HostTypeOK'
    BY <1>0, <1>13, HostMoves DEF ProtectPuk, Exchange
  <2>2. CardTypeOK'
    BY <1>0, <1>13 DEF ProtectPuk, Exchange, CardTypeOK
  <2> QED
    BY <1>0, <1>13, <2>1, <2>2 DEF ProtectPuk
<1>14. CASE RemoveRecoveryFile
  <2>1. [recovery EXCEPT ![job.path] = NoFile] \in [Paths -> RecoveryFile \cup {NoFile}]
    BY DEF UserTypeOK
  <2>2. UserTypeOK'
    BY <1>14, <2>1 DEF RemoveRecoveryFile, UserTypeOK
  <2> QED
    BY <1>0, <1>14, <2>2, HostMoves DEF RemoveRecoveryFile
<1>15. CASE EnsurePinResetSafe
  <2>1. HostTypeOK'
    BY <1>0, <1>15, HostMoves DEF EnsurePinResetSafe, Query
  <2> QED
    BY <1>0, <1>15, <2>1 DEF EnsurePinResetSafe, Query
<1>16. CASE ResetRetries
  <2>1. HostTypeOK'
    BY <1>0, <1>16, HostMoves DEF ResetRetries, Exchange
  <2>2. CardTypeOK'
    BY <1>0, <1>16, PinAssumption DEF ResetRetries, Exchange, CardTypeOK
  <2> QED
    BY <1>0, <1>16, <2>1, <2>2 DEF ResetRetries
<1>17. CASE RereadPivman
  <2>1. [job EXCEPT !.pivman = [admin EXCEPT !.puk_blocked = FALSE], !.again = TRUE]
          \in Jobs
    <3>1. [admin EXCEPT !.puk_blocked = FALSE] \in PivmanData
      BY DEF CardTypeOK, PivmanData
    <3> QED
      BY <3>1 DEF HostTypeOK, Jobs
  <2>2. HostTypeOK'
    BY <1>0, <1>17, <2>1, HostMoves DEF RereadPivman
  <2> QED
    BY <1>0, <1>17, <2>2 DEF RereadPivman
<1>18. CASE ClearPukClaim
  <2>1. HostTypeOK'
    BY <1>18, HostMoves DEF ClearPukClaim, Exchange
  <2>2. CardTypeOK'
    BY <1>0, <1>18 DEF ClearPukClaim, Exchange, CardTypeOK, HostTypeOK, Jobs
  <2> QED
    BY <1>0, <1>18, <2>1, <2>2 DEF ClearPukClaim
<1>19. CASE ResetPinWithPuk
  <2>1. HostTypeOK'
    BY <1>19, HostMoves DEF ResetPinWithPuk, Exchange, WrongPuk
  <2>2. job.newPin \in Pins
    BY <1>19 DEF ResetPinWithPuk, JobFits
  <2>3. CardTypeOK'
    BY <1>0, <1>19, <2>2 DEF ResetPinWithPuk, Exchange, WrongPuk, CardTypeOK
  <2> QED
    BY <1>0, <1>19, <2>1, <2>3 DEF ResetPinWithPuk
<1>20. CASE ReadBeforePinChange
  <2>1. CASE Goto("repin", [job EXCEPT !.pivman = admin]) /\ UNCHANGED card
    <3>1. [job EXCEPT !.pivman = admin] \in Jobs
      BY DEF HostTypeOK, CardTypeOK, Jobs
    <3> QED
      BY <1>0, <1>20, <2>1, <3>1, HostMoves DEF ReadBeforePinChange
  <2>2. ASSUME NEW s \in Salts, has_derived_key(admin),
               Query(Derived(job.pin, admin.salt) = mgmtKey,
                     Goto("repin", [job EXCEPT
                            !.pivman = [admin EXCEPT !.salt = s],
                            !.access = Derived(job.pin, admin.salt),
                            !.newKey = Derived(job.newPin, s)]))
        PROVE  TypeOK'
    <3>1. CASE End("refused") /\ UNCHANGED card
      BY <1>0, <1>20, <3>1, HostMoves DEF ReadBeforePinChange
    <3>2. CASE /\ Derived(job.pin, admin.salt) = mgmtKey
               /\ UNCHANGED card
               /\ Goto("repin", [job EXCEPT
                            !.pivman = [admin EXCEPT !.salt = s],
                            !.access = Derived(job.pin, admin.salt),
                            !.newKey = Derived(job.newPin, s)])
      <4>1. [admin EXCEPT !.salt = s] \in PivmanData
        BY DEF CardTypeOK, PivmanData
      <4>2. Derived(job.pin, admin.salt) \in Keys
        BY <3>2 DEF CardTypeOK
      <4>3. Derived(job.newPin, s) \in Keys
        BY <1>20, KeyFacts DEF ReadBeforePinChange, JobFits, PinSteps
      <4>4. [job EXCEPT !.pivman = [admin EXCEPT !.salt = s],
                        !.access = Derived(job.pin, admin.salt),
                        !.newKey = Derived(job.newPin, s)] \in Jobs
        BY <4>1, <4>2, <4>3 DEF HostTypeOK, Jobs
      <4> QED
        BY <1>0, <1>20, <3>2, <4>4, HostMoves DEF ReadBeforePinChange
    <3> QED
      BY <2>2, <3>1, <3>2 DEF Query
  <2> QED
    BY <1>20, <2>1, <2>2 DEF ReadBeforePinChange
<1>21. CASE ChangeCardPin
  <2>1. HostTypeOK'
    BY <1>0, <1>21, HostMoves DEF ChangeCardPin, Exchange
  <2>2. job.newPin \in Pins
    BY <1>21 DEF ChangeCardPin, JobFits, PinSteps
  <2>3. CardTypeOK'
    BY <1>0, <1>21, <2>2 DEF ChangeCardPin, Exchange, CardTypeOK
  <2> QED
    BY <1>0, <1>21, <2>1, <2>3 DEF ChangeCardPin
<1>22. CASE VerifyNewPin
  <2>1. HostTypeOK'
    BY <1>0, <1>22, HostMoves DEF VerifyNewPin, Query
  <2> QED
    BY <1>0, <1>22, <2>1 DEF VerifyNewPin, Query
<1>23. CASE RotateDerivedKey
  <2>1. job.newKey \in Keys
    BY <1>23, KeyFacts DEF RotateDerivedKey, JobFits
  <2>2. HostTypeOK'
    BY <1>0, <1>23, HostMoves DEF RotateDerivedKey, Exchange
  <2>3. CardTypeOK'
    BY <1>0, <1>23, <2>1 DEF RotateDerivedKey, Exchange, CardTypeOK
  <2> QED
    BY <1>0, <1>23, <2>2, <2>3 DEF RotateDerivedKey
<1>24. CASE WriteNewSalt
  <2>1. HostTypeOK'
    BY <1>24, HostMoves DEF WriteNewSalt, Exchange
  <2>2. CardTypeOK'
    BY <1>0, <1>24 DEF WriteNewSalt, Exchange, CardTypeOK, HostTypeOK, Jobs
  <2> QED
    BY <1>0, <1>24, <2>1, <2>2 DEF WriteNewSalt
<1>25. CASE Interrupt
  BY <1>0, <1>25, HostMoves DEF Interrupt
<1>26. CASE Return
  BY <1>0, <1>26, Records DEF Return, HostTypeOK
<1>27. CASE UNCHANGED vars
  BY <1>0, <1>27 DEF vars, host, HostTypeOK
<1> QED
  BY <1>1, <1>2, <1>3, <1>4, <1>5, <1>6, <1>7, <1>8, <1>9, <1>10, <1>11, <1>12,
     <1>13, <1>14, <1>15, <1>16, <1>17, <1>18, <1>19, <1>20, <1>21, <1>22, <1>23,
     <1>24, <1>25, <1>26, <1>27
  DEF Next, Step

\* A job keeps fitting its step.  Every handler either ends, or moves on with
\* a job that differs only in what it has just learnt.
LEMMA NextJobFits ==
    ASSUME TypeOK, JobFits, [Next]_vars
    PROVE  JobFits'
<1> USE DEF JobFits, KeySteps, PinSteps, RetrySteps
<1>0. job \in Jobs
  BY DEF TypeOK, HostTypeOK
<1>1. ASSUME NEW o \in {"ok", "refused", "failed"}, End(o)
      PROVE  JobFits'
  BY <1>1 DEF End
<1>2. ASSUME NEW k \in ChosenKeys, NEW protect \in BOOLEAN, NEW hidden \in BOOLEAN,
             NEW e \in UserKeys \cup {NoKey}, ChangeManagementKey(k, protect, hidden, e)
      PROVE  JobFits'
  BY <1>2 DEF ChangeManagementKey, Start, NoJob
<1>3. ASSUME NEW e \in UserKeys \cup {NoKey}, SetRetries(e)
      PROVE  JobFits'
  BY <1>3 DEF SetRetries, Start, NoJob
<1>4. ASSUME NEW new \in Pins, UnblockPin(new)
      PROVE  JobFits'
  BY <1>4 DEF UnblockPin, Start, NoJob
<1>5. ASSUME NEW old \in Pins, NEW new \in Pins, ChangePin(old, new)
      PROVE  JobFits'
  BY <1>5 DEF ChangePin, Start, NoJob
<1>6. CASE ChangePuk \/ ResetApplet
  BY <1>6 DEF ChangePuk, ResetApplet, host
<1>7. CASE ResolveManagement
  <2>1. ASSUME NEW k, NEW p, AfterResolve(k, p)
        PROVE  JobFits'
    BY <1>0, <1>7, <2>1 DEF ResolveManagement, AfterResolve, StepAfterResolve, Goto, Jobs
  <2> QED
    BY <1>1, <1>7, <2>1
       DEF ResolveManagement, ResolveExplicit, ResolveLegacyStored, ResolveCompleting,
           ResolveStored, ResolveDerived, ResolvePrompt, Query, Exchange
<1>8. CASE SaveRecoveryFile
  BY <1>0, <1>1, <1>8 DEF SaveRecoveryFile, Goto, Jobs
<1>9. CASE InspectProtection
  BY <1>0, <1>1, <1>9 DEF InspectProtection, Query, Goto, Jobs
<1>10. CASE ReplaceKey \/ StoreProtectedKey \/ UpdateMetadata \/ ProtectPuk
  <2>1. ASSUME NEW n \in {"store", "publish", "block", "cleanup"}, Goto(n, job),
               pc \in KeySteps \ {"save"}
        PROVE  JobFits'
    BY <2>1 DEF Goto
  <2>2. {StepAfterReplace, StepAfterStore, StepAfterPublish}
           \subseteq {"store", "publish", "block", "cleanup"}
    BY DEF StepAfterReplace, StepAfterStore, StepAfterPublish
  <2> QED
    BY <1>1, <1>10, <2>1, <2>2
       DEF ReplaceKey, StoreProtectedKey, UpdateMetadata, ProtectPuk, Exchange
<1>11. CASE RemoveRecoveryFile \/ ClearPukClaim \/ ResetPinWithPuk \/ WriteNewSalt
            \/ Interrupt
  BY <1>1, <1>11 DEF RemoveRecoveryFile, ClearPukClaim, ResetPinWithPuk, WrongPuk,
                     WriteNewSalt, Interrupt, Exchange
<1>12. CASE EnsurePinResetSafe
  BY <1>1, <1>12 DEF EnsurePinResetSafe, Query, Goto
<1>13. CASE ResetRetries
  <2>1. ASSUME Goto("reread", job)
        PROVE  JobFits'
    BY <1>13, <2>1 DEF ResetRetries, Goto
  <2> QED
    BY <1>1, <1>13, <2>1 DEF ResetRetries, Exchange
<1>14. CASE RereadPivman
  <2>1. CASE admin.puk_blocked
    <3>1. /\ pc' = "resolve"
          /\ job'.op = job.op
          /\ job'.newKey = job.newKey
          /\ job'.newPin = job.newPin
      BY <1>0, <1>14, <2>1 DEF RereadPivman, Goto, Jobs
    <3>2. job.op = "set_retries"
      BY <1>14 DEF RereadPivman
    <3> QED
      BY <3>1, <3>2
  <2>2. CASE ~admin.puk_blocked
    BY <1>1, <1>14, <2>2 DEF RereadPivman
  <2> QED
    BY <2>1, <2>2
<1>15. CASE ReadBeforePinChange
  <2>1. CASE ~has_derived_key(admin) /\ Goto("repin", [job EXCEPT !.pivman = admin])
    BY <1>0, <1>15, <2>1 DEF ReadBeforePinChange, Goto, Jobs, has_derived_key
  <2>2. ASSUME NEW s \in Salts,
               Goto("repin", [job EXCEPT !.pivman = [admin EXCEPT !.salt = s],
                                         !.access = Derived(job.pin, admin.salt),
                                         !.newKey = Derived(job.newPin, s)])
        PROVE  JobFits'
    <3>1. /\ pc' = "repin"
          /\ job'.op = job.op
          /\ job'.newPin = job.newPin
          /\ job'.newKey = Derived(job.newPin, s)
      BY <1>0, <2>2 DEF Goto, Jobs
    <3>2. job.op = "change_pin" /\ job.newPin \in Pins
      BY <1>15 DEF ReadBeforePinChange
    <3> QED
      BY <3>1, <3>2, KeyFacts
  <2> QED
    BY <1>1, <1>15, <2>1, <2>2 DEF ReadBeforePinChange, Query
<1>16. CASE ChangeCardPin
  BY <1>0, <1>1, <1>16 DEF ChangeCardPin, Exchange, Goto
<1>17. CASE VerifyNewPin
  BY <1>1, <1>17 DEF VerifyNewPin, Query, Goto
<1>18. CASE RotateDerivedKey
  BY <1>1, <1>18 DEF RotateDerivedKey, Exchange, Goto
<1>19. CASE Return
  BY <1>19 DEF Return, NoJob
<1>20. CASE UNCHANGED vars
  BY <1>20 DEF vars, host
<1> QED
  BY <1>2, <1>3, <1>4, <1>5, <1>6, <1>7, <1>8, <1>9, <1>10, <1>11, <1>12, <1>13,
     <1>14, <1>15, <1>16, <1>17, <1>18, <1>19, <1>20
  DEF Next, Step

\* The state of card, host and disk is always one the code's types allow.
THEOREM TypeCorrect == Spec => [](TypeOK /\ JobFits)
<1>1. Init => TypeOK /\ JobFits
  BY InitType DEF Init, JobFits, KeySteps, PinSteps, RetrySteps, NoJob
<1>2. TypeOK /\ JobFits /\ [Next]_vars => (TypeOK /\ JobFits)'
  BY NextType, NextJobFits
<1> QED
  BY <1>1, <1>2, PTL DEF Spec

-----------------------------------------------------------------------------
(* The active key is never lost.  A replaced key must stay in its recovery   *)
(* file until its other home is ready, so the invariant follows the command: *)
(* from the file (FileHeld) through the card (NewKeyActive) to PRINTED       *)
(* (NewKeyStored), or straight to the user (NewKeyKnown).                    *)

Protecting == {"store", "publish", "block", "cleanup"}

FileHeld == pc \in KeySteps \ {"save"} =>
    /\ recovery[job.path] # NoFile
    /\ recovery[job.path].key = job.newKey
    /\ recovery[job.path].protect = job.protect
NewKeyActive == pc \in Protecting => mgmtKey = job.newKey
NewKeyStored == pc \in Protecting \ {"store"} /\ job.protect => printed = job.newKey
NewKeyKnown == job.op = "change_key" /\ ~job.protect => job.newKey \in known

KeyHeld ==
    /\ DefaultKey \in known
    /\ FileHeld
    /\ NewKeyActive
    /\ NewKeyStored
    /\ NewKeyKnown
    /\ ActiveKeyRetained

LEMMA InitHeld == Init => KeyHeld
<1> SUFFICES ASSUME Init PROVE KeyHeld
  OBVIOUS
<1>1. mgmtKey \in DerivedKeys \cup known \cup {printed}
  BY KeyFacts, PinAssumption DEF Init, FactoryCard, DerivedCard, LegacyStoredCard
<1> QED
  BY <1>1 DEF Init, KeyHeld, FileHeld, NewKeyActive, NewKeyStored, NewKeyKnown, NoJob,
              ActiveKeyRetained, UserKeys, KeySteps, Protecting

\* A step that leaves keys, files and the user alone, and either ends or goes
\* on with the same command where the invariant asks for nothing new.
LEMMA HeldWhenKeysStay ==
    ASSUME KeyHeld, UNCHANGED <<mgmtKey, printed, recovery, known>>,
           job'.op = job.op, job'.protect = job.protect, job'.newKey = job.newKey,
           job'.path = job.path,
           pc' \in KeySteps \ {"save"} => pc \in KeySteps \ {"save"},
           pc' \in Protecting => pc \in Protecting,
           pc' \in Protecting \ {"store"} => pc \in Protecting \ {"store"}
    PROVE  KeyHeld'
BY DEF KeyHeld, FileHeld, NewKeyActive, NewKeyStored, NewKeyKnown, ActiveKeyRetained,
       UserKeys, FileKeys

LEMMA HeldWhenStarting ==
    ASSUME KeyHeld, pc' \notin KeySteps, UNCHANGED <<mgmtKey, printed, recovery>>,
           known \subseteq known',
           job'.op = "change_key" /\ ~job'.protect => job'.newKey \in known'
    PROVE  KeyHeld'
BY DEF KeyHeld, FileHeld, NewKeyActive, NewKeyStored, NewKeyKnown, ActiveKeyRetained,
       UserKeys, FileKeys, KeySteps, Protecting

\* A step that ends the command cannot break what it asks of later steps.
LEMMA HeldWhenEnding ==
    ASSUME KeyHeld, NEW o, End(o), ActiveKeyRetained', UNCHANGED known
    PROVE  KeyHeld'
BY DEF KeyHeld, FileHeld, NewKeyActive, NewKeyStored, NewKeyKnown, End, KeySteps,
       Protecting

LEMMA NextHeld ==
    ASSUME TypeOK, JobFits, KeyHeld, [Next]_vars
    PROVE  KeyHeld'
<1> USE DEF KeySteps, Protecting
<1>0. /\ job \in Jobs
      /\ recovery \in [Paths -> RecoveryFile \cup {NoFile}]
  BY DEF TypeOK, HostTypeOK, UserTypeOK
<1>1. ASSUME NEW o, End(o), UNCHANGED <<mgmtKey, printed, recovery, known>>
      PROVE  KeyHeld'
  BY <1>1, HeldWhenEnding DEF KeyHeld, ActiveKeyRetained, UserKeys, FileKeys
<1>2. ASSUME NEW k \in ChosenKeys, NEW protect \in BOOLEAN, NEW hidden \in BOOLEAN,
             NEW e \in UserKeys \cup {NoKey}, ChangeManagementKey(k, protect, hidden, e)
      PROVE  KeyHeld'
  BY <1>2, HeldWhenStarting DEF ChangeManagementKey, Start, NoJob, card
<1>3. ASSUME NEW e, SetRetries(e)
      PROVE  KeyHeld'
  BY <1>3, HeldWhenStarting DEF SetRetries, Start, NoJob, card
<1>4. ASSUME NEW new, UnblockPin(new)
      PROVE  KeyHeld'
  BY <1>4, HeldWhenStarting DEF UnblockPin, Start, NoJob, card
<1>5. ASSUME NEW old, NEW new, ChangePin(old, new)
      PROVE  KeyHeld'
  BY <1>5, HeldWhenStarting DEF ChangePin, Start, NoJob, card
<1>6. CASE ChangePuk
  BY <1>6, HeldWhenKeysStay DEF ChangePuk, host
<1>7. CASE ResetApplet
  BY <1>7 DEF ResetApplet, host, KeyHeld, FileHeld, NewKeyActive, NewKeyStored,
              NewKeyKnown, ActiveKeyRetained, UserKeys, FileKeys
<1>8. CASE ResolveManagement
  <2>1. UNCHANGED <<mgmtKey, printed, recovery, known>>
    BY <1>8 DEF ResolveManagement, ResolveExplicit, ResolveLegacyStored,
                ResolveCompleting, ResolveStored, ResolveDerived, ResolvePrompt,
                Query, Exchange, card
  <2>2. ASSUME NEW k, NEW p, AfterResolve(k, p)
        PROVE  KeyHeld'
    <3>1. pc' \in {"save", "clear", "reset"}
      BY <2>2 DEF AfterResolve, StepAfterResolve, Goto
    <3>2. /\ job'.op = job.op
          /\ job'.protect = job.protect
          /\ job'.newKey = job.newKey
          /\ job'.path = job.path
      BY <1>0, <2>2 DEF AfterResolve, Goto, Jobs
    <3> QED
      BY <2>1, <3>1, <3>2, HeldWhenKeysStay
  <2> QED
    BY <1>1, <1>8, <2>1, <2>2
       DEF ResolveManagement, ResolveExplicit, ResolveLegacyStored, ResolveCompleting,
           ResolveStored, ResolveDerived, ResolvePrompt, Query, Exchange
<1>9. CASE SaveRecoveryFile
  <2>1. CASE UNCHANGED recovery /\ End("refused")
    BY <1>1, <1>9, <2>1 DEF SaveRecoveryFile, card
  <2>2. ASSUME NEW p \in Paths, recovery[p] = NoFile,
               recovery' = [recovery EXCEPT ![p] =
                              [key |-> job.newKey, protect |-> job.protect]],
               Goto("inspect", [job EXCEPT !.path = p])
        PROVE  KeyHeld'
    <3>1. /\ pc' = "inspect"
          /\ job'.op = job.op
          /\ job'.protect = job.protect
          /\ job'.newKey = job.newKey
          /\ job'.path = p
      BY <1>0, <2>2 DEF Goto, Jobs
    <3>2. recovery'[p] = [key |-> job.newKey, protect |-> job.protect]
      BY <1>0, <2>2
    <3>3. job.newKey \in Keys
      BY <1>9, KeyFacts DEF SaveRecoveryFile, JobFits
    <3>4. /\ recovery'[p] # NoFile /\ recovery'[p].key = job.newKey
          /\ recovery'[p].protect = job.protect
      BY <1>0, <3>2, <3>3, FileAssumption DEF Jobs
    <3>5. FileKeys \subseteq FileKeys'
      <4>1. ASSUME NEW q \in Paths, recovery[q] # NoFile
            PROVE  recovery'[q] # NoFile /\ recovery'[q].key = recovery[q].key
        BY <1>0, <2>2, <4>1
      <4> QED
        BY <4>1 DEF FileKeys
    <3>6. UNCHANGED <<mgmtKey, printed, known>>
      BY <1>9 DEF SaveRecoveryFile, card
    <3> QED
      BY <3>1, <3>4, <3>5, <3>6
      DEF KeyHeld, FileHeld, NewKeyActive, NewKeyStored, NewKeyKnown,
          ActiveKeyRetained, UserKeys
  <2> QED
    BY <1>9, <2>1, <2>2 DEF SaveRecoveryFile
<1>10. CASE InspectProtection
  <2>1. CASE End("refused")
    BY <1>1, <1>10, <2>1 DEF InspectProtection, Query, card
  <2>2. CASE Goto("replace", [job EXCEPT !.pivman = admin,
                      !.copy = IF NeedsPrinted THEN printed ELSE NoKey])
    <3>1. /\ pc' = "replace"
          /\ job'.op = job.op
          /\ job'.protect = job.protect
          /\ job'.newKey = job.newKey
          /\ job'.path = job.path
      BY <1>0, <2>2 DEF Goto, Jobs
    <3> QED
      BY <1>10, <3>1, HeldWhenKeysStay DEF InspectProtection, Query, card
  <2> QED
    BY <1>10, <2>1, <2>2 DEF InspectProtection, Query
<1>11. CASE ReplaceKey
  <2>1. CASE UNCHANGED card /\ End("refused")
    BY <1>1, <1>11, <2>1 DEF ReplaceKey, card
  <2>2. CASE /\ mgmtKey' = job.newKey
             /\ UNCHANGED <<pin, pukBlocked, admin, printed>>
             /\ Goto(StepAfterReplace, job) \/ End("failed")
    \* The new key is in the recovery file this command holds.
    <3>1. ActiveKeyRetained'
      <4>1. job.path \in Paths /\ recovery[job.path] # NoFile
              /\ recovery[job.path].key = job.newKey
        BY <1>11 DEF ReplaceKey, JobFits, KeyHeld, FileHeld
      <4>2. job.newKey \in FileKeys'
        BY <1>11, <4>1 DEF ReplaceKey, FileKeys
      <4> QED
        BY <2>2, <4>2 DEF ActiveKeyRetained, UserKeys
    <3>2. CASE End("failed")
      BY <1>11, <3>1, <3>2, HeldWhenEnding DEF ReplaceKey
    <3>3. CASE Goto(StepAfterReplace, job)
      <4>1. /\ pc' \in Protecting
            /\ job.protect => pc' = "store"
        BY <3>3 DEF Goto, StepAfterReplace, StepAfterStore, StepAfterPublish
      <4> QED
        BY <1>11, <2>2, <3>1, <3>3, <4>1
        DEF ReplaceKey, Goto, KeyHeld, FileHeld, NewKeyActive, NewKeyStored, NewKeyKnown
    <3> QED
      BY <2>2, <3>2, <3>3
  <2> QED
    BY <1>11, <2>1, <2>2 DEF ReplaceKey, Exchange
<1>12. CASE StoreProtectedKey
  <2>1. CASE UNCHANGED card /\ End("refused")
    BY <1>1, <1>12, <2>1 DEF StoreProtectedKey, card
  <2>2. CASE /\ printed' = IF job.protect THEN job.newKey ELSE NoKey
             /\ UNCHANGED <<mgmtKey, pin, pukBlocked, admin>>
             /\ Goto(StepAfterStore, job) \/ End("failed")
    \* Either PRINTED now holds the active key, or the user knows it.
    <3>1. mgmtKey = job.newKey
      BY <1>12 DEF StoreProtectedKey, KeyHeld, NewKeyActive
    <3>2. ActiveKeyRetained'
      BY <1>0, <1>12, <2>2, <3>1
      DEF StoreProtectedKey, JobFits, KeyHeld, NewKeyKnown, ActiveKeyRetained, UserKeys,
          Jobs
    <3>3. CASE End("failed")
      BY <1>12, <3>2, <3>3, HeldWhenEnding DEF StoreProtectedKey
    <3>4. CASE Goto(StepAfterStore, job)
      <4>1. pc' \in Protecting
        BY <3>4 DEF Goto, StepAfterStore, StepAfterPublish
      <4> QED
        BY <1>0, <1>12, <2>2, <3>1, <3>2, <3>4, <4>1
        DEF StoreProtectedKey, Goto, KeyHeld, FileHeld, NewKeyActive, NewKeyStored,
            NewKeyKnown, Jobs
    <3> QED
      BY <2>2, <3>3, <3>4
  <2> QED
    BY <1>12, <2>1, <2>2 DEF StoreProtectedKey, Exchange
<1>13. CASE UpdateMetadata \/ ProtectPuk
  <2>1. UNCHANGED <<mgmtKey, printed, recovery, known>>
    BY <1>13 DEF UpdateMetadata, ProtectPuk, Exchange, card
  <2>2. CASE Goto("cleanup", job) \/ Goto(StepAfterPublish, job)
    BY <1>13, <2>1, <2>2, HeldWhenKeysStay
    DEF UpdateMetadata, ProtectPuk, Goto, StepAfterPublish
  <2> QED
    BY <1>1, <1>13, <2>1, <2>2 DEF UpdateMetadata, ProtectPuk, Exchange
<1>14. CASE RemoveRecoveryFile
  \* By now the new key has its other home.
  <2>1. mgmtKey \in known \cup {printed}
    BY <1>0, <1>14
    DEF RemoveRecoveryFile, JobFits, KeyHeld, NewKeyActive, NewKeyStored, NewKeyKnown,
        Jobs
  <2>2. ActiveKeyRetained'
    BY <1>14, <2>1 DEF RemoveRecoveryFile, card, ActiveKeyRetained, UserKeys
  <2> QED
    BY <1>14, <2>2, HeldWhenEnding DEF RemoveRecoveryFile
<1>15. CASE EnsurePinResetSafe \/ VerifyNewPin
  BY <1>1, <1>15, HeldWhenKeysStay DEF EnsurePinResetSafe, VerifyNewPin, Query, Goto, card
<1>16. CASE ResetRetries
  BY <1>1, <1>16, HeldWhenKeysStay DEF ResetRetries, Exchange, Goto, card
<1>17. CASE RereadPivman
  <2>1. job'.op = job.op /\ job'.protect = job.protect /\ job'.newKey = job.newKey
          /\ job'.path = job.path
    BY <1>0, <1>17 DEF RereadPivman, Goto, End, Jobs
  <2>2. pc' \in {"resolve", "ended"}
    BY <1>17 DEF RereadPivman, Goto, End
  <2> QED
    BY <1>17, <2>1, <2>2, HeldWhenKeysStay DEF RereadPivman, card
<1>18. CASE ClearPukClaim \/ WriteNewSalt
  BY <1>1, <1>18 DEF ClearPukClaim, WriteNewSalt, Exchange, card
<1>19. CASE ResetPinWithPuk
  BY <1>1, <1>19 DEF ResetPinWithPuk, WrongPuk, Exchange, card
<1>20. CASE ReadBeforePinChange
  <2>1. job'.op = job.op /\ pc' \in {"repin", "ended"}
    BY <1>0, <1>20 DEF ReadBeforePinChange, Query, Goto, End, Jobs
  <2>2. job.op = "change_pin"
    BY <1>20 DEF ReadBeforePinChange, JobFits, PinSteps
  <2> QED
    BY <1>20, <2>1, <2>2, HeldWhenStarting DEF ReadBeforePinChange, Query, card
<1>21. CASE ChangeCardPin
  BY <1>1, <1>21, HeldWhenKeysStay DEF ChangeCardPin, Exchange, Goto, card
<1>22. CASE RotateDerivedKey
  <2>1. CASE UNCHANGED card /\ End("refused")
    BY <1>1, <1>22, <2>1 DEF RotateDerivedKey, card
  <2>2. CASE mgmtKey' = job.newKey /\ UNCHANGED printed /\ job' = job
               /\ pc' \in {"resalt", "ended"}
    <3>1. job.newKey \in DerivedKeys /\ job.op = "change_pin"
      BY <1>22 DEF RotateDerivedKey, JobFits, PinSteps
    <3> QED
      BY <1>22, <2>2, <3>1
      DEF RotateDerivedKey, KeyHeld, FileHeld, NewKeyActive, NewKeyStored, NewKeyKnown,
          ActiveKeyRetained
  <2> QED
    BY <1>22, <2>1, <2>2 DEF RotateDerivedKey, Exchange, Goto, End
<1>23. CASE Interrupt
  BY <1>1, <1>23 DEF Interrupt, card
<1>24. CASE Return
  BY <1>24, HeldWhenStarting DEF Return, NoJob, card
<1>25. CASE UNCHANGED vars
  BY <1>25, HeldWhenKeysStay DEF vars, card, host
<1> QED
  BY <1>2, <1>3, <1>4, <1>5, <1>6, <1>7, <1>8, <1>9, <1>10, <1>11, <1>12, <1>13,
     <1>14, <1>15, <1>16, <1>17, <1>18, <1>19, <1>20, <1>21, <1>22, <1>23, <1>24, <1>25
  DEF Next, Step

\* Whatever a command is interrupted in, the active management key is derived
\* from a PIN, known to the user, in a recovery file, or in PRINTED.
THEOREM KeyNeverLost == Spec => []ActiveKeyRetained
<1>1. Init => KeyHeld
  BY InitHeld
<1>2. TypeOK /\ JobFits /\ KeyHeld /\ [Next]_vars => KeyHeld'
  BY NextHeld
<1>3. KeyHeld => ActiveKeyRetained
  BY DEF KeyHeld
<1> QED
  BY TypeCorrect, <1>1, <1>2, <1>3, PTL DEF Spec

-----------------------------------------------------------------------------
(* A new key is on disk before it is on the card.                            *)

Idle == pc = "idle" => job = NoJob

LEMMA NextIdle == Idle /\ [Next]_vars => Idle'
<1> SUFFICES ASSUME Idle, [Next]_vars PROVE Idle'
  OBVIOUS
<1> USE DEF Idle
<1>1. ASSUME NEW outcome, End(outcome) PROVE Idle'
  BY <1>1 DEF End
<1>2. ASSUME NEW k, NEW protect, NEW hidden, NEW e,
             ChangeManagementKey(k, protect, hidden, e)
      PROVE Idle'
  BY <1>2 DEF ChangeManagementKey, Start
<1>3. ASSUME NEW e, SetRetries(e) PROVE Idle'
  BY <1>3 DEF SetRetries, Start
<1>4. ASSUME NEW new, UnblockPin(new) PROVE Idle'
  BY <1>4 DEF UnblockPin, Start
<1>5. ASSUME NEW old, NEW new, ChangePin(old, new) PROVE Idle'
  BY <1>5 DEF ChangePin, Start
<1>6. CASE ChangePuk \/ ResetApplet \/ UNCHANGED vars
  BY <1>6 DEF ChangePuk, ResetApplet, vars, host
<1>7. CASE ResolveManagement
  <2>1. ASSUME NEW k, NEW p, AfterResolve(k, p) PROVE Idle'
    BY <2>1 DEF AfterResolve, StepAfterResolve, Goto
  <2> QED
    BY <1>1, <1>7, <2>1
       DEF ResolveManagement, ResolveExplicit, ResolveLegacyStored, ResolveCompleting,
           ResolveStored, ResolveDerived, ResolvePrompt, Query, Exchange
<1>8. CASE SaveRecoveryFile \/ InspectProtection \/ RereadPivman
  BY <1>1, <1>8 DEF SaveRecoveryFile, InspectProtection, RereadPivman, Query, Goto
<1>9. CASE ReplaceKey \/ StoreProtectedKey \/ UpdateMetadata \/ ProtectPuk
  BY <1>1, <1>9
  DEF ReplaceKey, StoreProtectedKey, UpdateMetadata, ProtectPuk, Exchange, Goto,
      StepAfterReplace, StepAfterStore, StepAfterPublish
<1>10. CASE RemoveRecoveryFile
  BY <1>1, <1>10 DEF RemoveRecoveryFile
<1>11. CASE EnsurePinResetSafe \/ VerifyNewPin \/ ReadBeforePinChange
  BY <1>1, <1>11 DEF EnsurePinResetSafe, VerifyNewPin, ReadBeforePinChange, Query, Goto
<1>12. CASE ResetRetries \/ ClearPukClaim \/ ResetPinWithPuk
  BY <1>1, <1>12 DEF ResetRetries, ClearPukClaim, ResetPinWithPuk, WrongPuk, Exchange, Goto
<1>13. CASE ChangeCardPin \/ RotateDerivedKey \/ WriteNewSalt
  BY <1>1, <1>13 DEF ChangeCardPin, RotateDerivedKey, WriteNewSalt, Exchange, Goto
<1>14. CASE Interrupt
  BY <1>1, <1>14 DEF Interrupt
<1>15. CASE Return
  BY <1>15 DEF Return
<1> QED
  BY <1>2, <1>3, <1>4, <1>5, <1>6, <1>7, <1>8, <1>9, <1>10, <1>11, <1>12, <1>13,
     <1>14, <1>15
  DEF Next, Step

\* The steps that change the card at all.
LEMMA CardSteps ==
    ASSUME [Next]_vars, ~UNCHANGED card
    PROVE  \/ ChangePuk \/ ResetApplet
           \/ pc = "resolve" /\ \E p \in Pins : ResolveCompleting(p)
           \/ ReplaceKey \/ StoreProtectedKey \/ UpdateMetadata \/ ProtectPuk
           \/ ResetRetries \/ ClearPukClaim \/ ResetPinWithPuk
           \/ ChangeCardPin \/ RotateDerivedKey \/ WriteNewSalt
<1>1. /\ \A k, protect, hidden, e : ~ChangeManagementKey(k, protect, hidden, e)
      /\ \A e : ~SetRetries(e)
      /\ \A new : ~UnblockPin(new)
      /\ \A old, new : ~ChangePin(old, new)
  BY DEF ChangeManagementKey, SetRetries, UnblockPin, ChangePin
<1>2. ResolveManagement => pc = "resolve" /\ \E p \in Pins : ResolveCompleting(p)
  BY DEF ResolveManagement, ResolveExplicit, ResolveLegacyStored, ResolveStored,
         ResolveDerived, ResolvePrompt, Query
<1>3. ~(SaveRecoveryFile \/ InspectProtection \/ RemoveRecoveryFile
        \/ EnsurePinResetSafe \/ RereadPivman \/ ReadBeforePinChange \/ VerifyNewPin
        \/ Interrupt \/ Return)
  BY DEF SaveRecoveryFile, InspectProtection, RemoveRecoveryFile,
         EnsurePinResetSafe, RereadPivman, ReadBeforePinChange, VerifyNewPin,
         Interrupt, Return, Query
<1>4. ~UNCHANGED vars
  BY DEF vars
<1> QED
  BY <1>1, <1>2, <1>3, <1>4 DEF Next, Step

\* Only two card commands replace the key, and the applet's reset.
LEMMA ReplacingSteps ==
    ASSUME [Next]_vars, mgmtKey' # mgmtKey
    PROVE  ReplaceKey \/ RotateDerivedKey \/ ResetApplet
<1>1. ~UNCHANGED card
  BY DEF card
<1>2. ~(ChangePuk \/ StoreProtectedKey \/ UpdateMetadata \/ ProtectPuk)
  BY <1>1 DEF ChangePuk, StoreProtectedKey, UpdateMetadata, ProtectPuk, Exchange, card
<1>3. ~(ResetRetries \/ ClearPukClaim \/ ResetPinWithPuk \/ ChangeCardPin \/ WriteNewSalt)
  BY <1>1 DEF ResetRetries, ClearPukClaim, ResetPinWithPuk, WrongPuk, ChangeCardPin,
              WriteNewSalt, Exchange, card
<1>4. \A p : ~ResolveCompleting(p)
  BY <1>1 DEF ResolveCompleting, Exchange, card
<1> QED
  BY <1>1, <1>2, <1>3, <1>4, CardSteps

\* change-management-key gives the card no key that is not in a recovery file
\* at that moment, so that whatever is lost from then on, the key is not.
THEOREM NewKeySavedFirst == Spec => SavedBeforeReplaced
<1>1. Init => Idle /\ KeyHeld
  BY InitHeld DEF Init, Idle
<1>2. Idle /\ [Next]_vars => Idle'
  BY NextIdle
<1>3. TypeOK /\ JobFits /\ KeyHeld /\ [Next]_vars => KeyHeld'
  BY NextHeld
<1>4. JobFits /\ KeyHeld /\ Idle /\ [Next]_vars
      => [mgmtKey' # mgmtKey /\ job.op = "change_key" => mgmtKey' \in FileKeys']_vars
  <2> SUFFICES ASSUME JobFits, KeyHeld, Idle, [Next]_vars,
                      mgmtKey' # mgmtKey, job.op = "change_key"
               PROVE  mgmtKey' \in FileKeys'
    OBVIOUS
  <2>1. ~RotateDerivedKey
    BY DEF RotateDerivedKey, JobFits, PinSteps
  <2>2. ~ResetApplet
    BY DEF ResetApplet, Idle, NoJob
  <2>3. ReplaceKey
    BY <2>1, <2>2, ReplacingSteps
  <2>4. job.path \in Paths /\ recovery[job.path] # NoFile
          /\ recovery[job.path].key = job.newKey
    BY <2>3 DEF ReplaceKey, JobFits, KeyHeld, FileHeld, KeySteps
  <2>5. mgmtKey' = job.newKey /\ UNCHANGED recovery
    BY <2>3 DEF ReplaceKey, Exchange, card
  <2> QED
    BY <2>4, <2>5 DEF FileKeys
<1> QED
  BY TypeCorrect, <1>1, <1>2, <1>3, <1>4, PTL DEF Spec, SavedBeforeReplaced

-----------------------------------------------------------------------------
(* ADMIN DATA follows the card.  What a command has read of it stays true    *)
(* until the command writes it, each written value is the one that was      *)
(* worked out (ClaimsFollow), and whenever an update is cut short its file   *)
(* is still there (CleanDiskMeansTrueMetadata).                              *)

\* The commands that replace a PIN have checked that no key depends on it.
Checked == \/ pc \in RetrySteps \cup {"unblock"}
           \/ pc = "resolve" /\ job.op = "set_retries"

ClaimsFollow ==
    /\ has_derived_key(admin) => ~admin.stored_key
    /\ pc \in {"replace", "store", "publish"} => job.pivman = admin
    /\ pc \in {"block", "cleanup"} => admin = Updated
    /\ pc = "block" => job.protect
    /\ pc = "cleanup" /\ job.protect => pukBlocked
    /\ job.op = "change_key" \/ pc = "check" => ~job.again
    /\ pc = "clear" => job.again
    /\ pc \in {"resolve", "clear"} /\ job.again
          => job.pivman = [admin EXCEPT !.puk_blocked = FALSE]
    /\ pc \in {"repin", "verify", "rotate", "resalt"} =>
          /\ job.pivman.stored_key = admin.stored_key
          /\ has_derived_key(job.pivman) => has_derived_key(admin)
    /\ Checked => ~has_derived_key(admin)

LEMMA InitClaims == Init => ClaimsFollow
BY PinAssumption
DEF Init, FactoryCard, DerivedCard, LegacyStoredCard, NoPivman, has_derived_key, ClaimsFollow,
    NoJob, Checked, RetrySteps

\* A step that leaves ADMIN DATA alone and goes nowhere that asks for more.
LEMMA ClaimsWhenLeaving ==
    ASSUME ClaimsFollow, UNCHANGED admin,
           pc' \in {"idle", "ended", "check", "resolve", "read", "save", "inspect"},
           job'.op = "change_key" \/ pc' = "check" => ~job'.again,
           pc' = "resolve" => ~job'.again /\ (job'.op = "set_retries" => ~has_derived_key(admin))
    PROVE  ClaimsFollow'
BY DEF ClaimsFollow, Checked, RetrySteps

\* A step on which the command goes on with the same job.
LEMMA ClaimsWhenGoingOn ==
    ASSUME ClaimsFollow, UNCHANGED <<admin, job>>, pc' \notin {"check", "resolve", "clear", "repin", "cleanup"},
           pc' \in {"store", "publish"} => pc \in {"replace", "store"},
           pc' = "replace" => pc = "replace",
           pc' = "block" => admin = Updated /\ job.protect,
           pc' \in {"verify", "rotate", "resalt"} => pc \in {"repin", "verify", "rotate"},
           pc' \in {"unblock", "reset", "reread"} => ~has_derived_key(admin)
    PROVE  ClaimsFollow'
BY DEF ClaimsFollow, Checked, RetrySteps, Updated

LEMMA UpdatedPlain == job \in Jobs => Updated.salt = NoSalt /\ Updated.stored_key = job.protect
BY DEF Updated

LEMMA NextClaims ==
    ASSUME TypeOK, JobFits, ClaimsFollow, [Next]_vars
    PROVE  ClaimsFollow'
<1>0. job \in Jobs /\ admin \in PivmanData
  BY DEF TypeOK, HostTypeOK, CardTypeOK
<1>1. ASSUME NEW o, End(o), UNCHANGED admin PROVE ClaimsFollow'
  BY <1>1, ClaimsWhenLeaving DEF End, ClaimsFollow
<1>2. ASSUME NEW k \in ChosenKeys, NEW protect \in BOOLEAN, NEW hidden \in BOOLEAN,
             NEW e \in UserKeys \cup {NoKey}, ChangeManagementKey(k, protect, hidden, e)
      PROVE  ClaimsFollow'
  BY <1>2, ClaimsWhenLeaving DEF ChangeManagementKey, Start, NoJob, card
<1>3. ASSUME NEW e, SetRetries(e) PROVE ClaimsFollow'
  BY <1>3, ClaimsWhenLeaving DEF SetRetries, Start, NoJob, card
<1>4. ASSUME NEW new, UnblockPin(new) PROVE ClaimsFollow'
  BY <1>4, ClaimsWhenLeaving DEF UnblockPin, Start, NoJob, card
<1>5. ASSUME NEW old, NEW new, ChangePin(old, new) PROVE ClaimsFollow'
  BY <1>5, ClaimsWhenLeaving DEF ChangePin, Start, NoJob, card
<1>6. CASE ChangePuk
  BY <1>6, ClaimsWhenLeaving DEF ChangePuk, host, ClaimsFollow
<1>7. CASE ResetApplet
  BY <1>7 DEF ResetApplet, host, ClaimsFollow, NoPivman, has_derived_key, Checked, RetrySteps
<1>8. CASE ResolveManagement
  <2>1. pc = "resolve" /\ UNCHANGED admin
    BY <1>8 DEF ResolveManagement, ResolveExplicit, ResolveLegacyStored,
                ResolveCompleting, ResolveStored, ResolveDerived, ResolvePrompt,
                Query, Exchange, card
  <2>2. ASSUME NEW k, NEW p, AfterResolve(k, p) PROVE ClaimsFollow'
    <3>1. job'.op = job.op /\ job'.again = job.again /\ job'.pivman = job.pivman
      BY <1>0, <2>2 DEF AfterResolve, Goto, Jobs
    <3>2. /\ pc' = StepAfterResolve
          /\ job.op \in {"change_key", "set_retries"}
      BY <2>1, <2>2 DEF AfterResolve, Goto, JobFits
    <3> QED
      BY <2>1, <3>1, <3>2 DEF StepAfterResolve, ClaimsFollow, Checked, RetrySteps
  <2> QED
    BY <1>1, <1>8, <2>1, <2>2
       DEF ResolveManagement, ResolveExplicit, ResolveLegacyStored, ResolveCompleting,
           ResolveStored, ResolveDerived, ResolvePrompt, Query, Exchange
<1>9. CASE SaveRecoveryFile
  <2>1. ASSUME NEW p, Goto("inspect", [job EXCEPT !.path = p]) PROVE ClaimsFollow'
    <3>1. job'.op = job.op /\ job'.again = job.again
      BY <1>0, <2>1 DEF Goto, Jobs
    <3> QED
      BY <1>9, <2>1, <3>1, ClaimsWhenLeaving DEF SaveRecoveryFile, card, Goto, ClaimsFollow
  <2> QED
    BY <1>1, <1>9, <2>1 DEF SaveRecoveryFile, card
<1>10. CASE InspectProtection
  <2>1. ASSUME Goto("replace", [job EXCEPT !.pivman = admin,
                      !.copy = IF NeedsPrinted THEN printed ELSE NoKey]), UNCHANGED admin
        PROVE  ClaimsFollow'
    <3>1. job'.op = job.op /\ job'.again = job.again /\ job'.pivman = admin
      BY <1>0, <2>1 DEF Goto, Jobs
    <3> QED
      BY <2>1, <3>1 DEF Goto, ClaimsFollow, Checked, RetrySteps
  <2> QED
    BY <1>1, <1>10, <2>1 DEF InspectProtection, Query, card
<1>11. CASE ReplaceKey \/ StoreProtectedKey
  <2>1. pc \in {"replace", "store"} /\ UNCHANGED admin /\ job.pivman = admin
    BY <1>11 DEF ReplaceKey, StoreProtectedKey, Exchange, card, ClaimsFollow
  <2>2. ASSUME Goto(StepAfterReplace, job) \/ Goto(StepAfterStore, job) PROVE ClaimsFollow'
    <3>1. CASE pc' = "cleanup"
      <4>1. ~job.protect /\ admin = Updated
        BY <2>1, <2>2, <3>1 DEF Goto, StepAfterReplace, StepAfterStore, StepAfterPublish
      <4> QED
        BY <2>1, <2>2, <3>1, <4>1 DEF Goto, ClaimsFollow, Checked, RetrySteps, Updated
    <3>2. CASE pc' # "cleanup"
      <4>1. /\ pc' \in {"store", "publish", "block"} /\ UNCHANGED job
            /\ pc' = "block" => admin = Updated /\ job.protect
        BY <2>1, <2>2, <3>2 DEF Goto, StepAfterReplace, StepAfterStore, StepAfterPublish
      <4> QED
        BY <2>1, <4>1, ClaimsWhenGoingOn
    <3> QED
      BY <3>1, <3>2
  <2> QED
    BY <1>1, <1>11, <2>1, <2>2 DEF ReplaceKey, StoreProtectedKey, Exchange
<1>12. CASE UpdateMetadata
  <2>1. CASE admin' = Updated /\ (Goto(StepAfterPublish, job) \/ End("failed"))
    <3>1. /\ ~has_derived_key(admin')
          /\ pc' \in {"ended", "block", "cleanup"} /\ UNCHANGED job
          /\ pc' = "block" => job.protect
          /\ pc' = "cleanup" => ~job.protect
      BY <1>0, <2>1, UpdatedPlain DEF Goto, End, StepAfterPublish, has_derived_key
    <3>2. Updated' = Updated
      BY <3>1 DEF Updated
    <3> QED
      BY <2>1, <3>1, <3>2 DEF ClaimsFollow, Checked, RetrySteps
  <2> QED
    BY <1>1, <1>12, <2>1 DEF UpdateMetadata, Exchange, card
<1>13. CASE ProtectPuk
  <2>1. CASE pukBlocked' = TRUE /\ UNCHANGED admin /\ Goto("cleanup", job)
    <3>1. admin = Updated
      BY <1>13 DEF ProtectPuk, ClaimsFollow
    <3> QED
      BY <2>1, <3>1 DEF Goto, ClaimsFollow, Checked, RetrySteps, Updated
  <2> QED
    BY <1>1, <1>13, <2>1 DEF ProtectPuk, Exchange, card
<1>14. CASE RemoveRecoveryFile \/ Interrupt
  BY <1>1, <1>14 DEF RemoveRecoveryFile, Interrupt, card
<1>15. CASE EnsurePinResetSafe
  <2>1. CASE ~has_derived_key(admin) /\ UNCHANGED <<admin, job>> /\ pc' = "unblock"
    BY <2>1, ClaimsWhenGoingOn
  <2>2. CASE ~has_derived_key(admin) /\ UNCHANGED <<admin, job>> /\ pc' = "resolve"
    BY <1>15, <2>2 DEF EnsurePinResetSafe, ClaimsFollow, Checked, RetrySteps
  <2>3. CASE End("refused") /\ UNCHANGED admin
    BY <1>1, <2>3
  <2> QED
    BY <1>15, <2>1, <2>2, <2>3 DEF EnsurePinResetSafe, PinResetSafe, Query, Goto, card
<1>16. CASE ResetRetries
  BY <1>1, <1>16, ClaimsWhenGoingOn
  DEF ResetRetries, Exchange, Goto, card, ClaimsFollow, Checked, RetrySteps
<1>17. CASE RereadPivman
  <2>1. CASE Goto("resolve", [job EXCEPT !.pivman = [admin EXCEPT !.puk_blocked = FALSE],
                                         !.again = TRUE])
    <3>1. /\ job'.op = job.op /\ job.op = "set_retries" /\ pc' = "resolve"
          /\ job'.pivman = [admin EXCEPT !.puk_blocked = FALSE]
      BY <1>0, <1>17, <2>1 DEF Goto, Jobs, RereadPivman, JobFits, RetrySteps
    <3> QED
      BY <1>17, <3>1 DEF RereadPivman, card, ClaimsFollow, Checked, RetrySteps
  <2> QED
    BY <1>1, <1>17, <2>1 DEF RereadPivman, card
<1>18. CASE ClearPukClaim
  <2>1. CASE admin' = job.pivman /\ UNCHANGED job /\ pc' = "ended"
    <3>1. /\ job.pivman = [admin EXCEPT !.puk_blocked = FALSE]
          /\ ~has_derived_key(admin)
      BY <1>18 DEF ClearPukClaim, ClaimsFollow, Checked, RetrySteps
    <3>2. ~has_derived_key(admin')
      BY <1>0, <2>1, <3>1 DEF has_derived_key, PivmanData
    <3> QED
      BY <2>1, <3>2 DEF ClaimsFollow, Checked, RetrySteps
  <2> QED
    BY <1>1, <1>18, <2>1 DEF ClearPukClaim, Exchange, End, card
<1>19. CASE ResetPinWithPuk
  BY <1>1, <1>19 DEF ResetPinWithPuk, Exchange, WrongPuk, card
<1>20. CASE ReadBeforePinChange
  <2>1. CASE ~has_derived_key(admin) /\ UNCHANGED card /\ Goto("repin", [job EXCEPT !.pivman = admin])
    <3>1. job'.op = job.op /\ job'.again = job.again /\ job'.pivman = admin
      BY <1>0, <2>1 DEF Goto, Jobs
    <3> QED
      BY <2>1, <3>1 DEF Goto, card, ClaimsFollow, Checked, RetrySteps
  <2>2. ASSUME NEW s \in Salts, has_derived_key(admin), UNCHANGED card,
               Goto("repin", [job EXCEPT
                            !.pivman = [admin EXCEPT !.salt = s],
                            !.access = Derived(job.pin, admin.salt),
                            !.newKey = Derived(job.newPin, s)])
        PROVE  ClaimsFollow'
    <3>1. /\ job'.op = job.op /\ job'.again = job.again
          /\ job'.pivman = [admin EXCEPT !.salt = s]
      BY <1>0, <2>2 DEF Goto, Jobs
    <3>2. job'.pivman.stored_key = admin.stored_key
      BY <1>0, <3>1 DEF PivmanData
    <3> QED
      BY <2>2, <3>1, <3>2 DEF Goto, card, ClaimsFollow, Checked, RetrySteps
  <2> QED
    BY <1>1, <1>20, <2>1, <2>2 DEF ReadBeforePinChange, Query, card
<1>21. CASE ChangeCardPin \/ VerifyNewPin \/ RotateDerivedKey
  BY <1>1, <1>21, ClaimsWhenGoingOn DEF ChangeCardPin, VerifyNewPin, RotateDerivedKey, Exchange,
     Query, Goto, card
<1>22. CASE WriteNewSalt
  <2>1. CASE admin' = job.pivman /\ UNCHANGED job /\ pc' = "ended"
    BY <1>22, <2>1 DEF WriteNewSalt, ClaimsFollow, Checked, RetrySteps
  <2> QED
    BY <1>1, <1>22, <2>1 DEF WriteNewSalt, Exchange, End, card
<1>23. CASE Return
  BY <1>23, ClaimsWhenLeaving DEF Return, NoJob, card
<1>24. CASE UNCHANGED vars
  BY <1>24 DEF vars, card, host, ClaimsFollow, Checked, Updated
<1> QED
  BY <1>2, <1>3, <1>4, <1>5, <1>6, <1>7, <1>8, <1>9, <1>10, <1>11, <1>12, <1>13,
     <1>14, <1>15, <1>16, <1>17, <1>18, <1>19, <1>20, <1>21, <1>22, <1>23, <1>24
  DEF Next, Step

\* What an update has worked out, written and blocked when it is about to clean
\* up is what the card holds.
LEMMA Synced ==
    ASSUME TypeOK, JobFits, KeyHeld, ClaimsFollow
    PROVE  SuccessMeansSynced
<1> SUFFICES ASSUME pc = "cleanup"
             PROVE  /\ mgmtKey = job.newKey
                    /\ admin.stored_key = job.protect
                    /\ ~has_derived_key(admin)
                    /\ job.protect => printed = mgmtKey /\ admin.puk_blocked /\ pukBlocked
  BY DEF SuccessMeansSynced
<1>1. mgmtKey = job.newKey /\ (job.protect => printed = mgmtKey)
  BY DEF KeyHeld, NewKeyActive, NewKeyStored, Protecting
<1>2. admin = Updated /\ (job.protect => pukBlocked)
  BY DEF ClaimsFollow
<1>3. job.protect => Updated.puk_blocked
  BY DEF Updated
<1> QED
  BY <1>1, <1>2, <1>3, UpdatedPlain DEF TypeOK, HostTypeOK, has_derived_key

\* An update that reports success has left card and metadata in step.
THEOREM SuccessLeavesSync == Spec => []SuccessMeansSynced
<1>1. Init => KeyHeld /\ ClaimsFollow
  BY InitHeld, InitClaims
<1>2. TypeOK /\ JobFits /\ KeyHeld /\ ClaimsFollow /\ [Next]_vars
      => KeyHeld' /\ ClaimsFollow'
  BY NextHeld, NextClaims
<1>3. TypeOK /\ JobFits /\ KeyHeld /\ ClaimsFollow => SuccessMeansSynced
  BY Synced
<1> QED
  BY TypeCorrect, <1>1, <1>2, <1>3, PTL DEF Spec

-----------------------------------------------------------------------------
(* With no file left on disk, the metadata are true, but for what a PIN      *)
(* command has begun.  A salt is behind the card only while change-pin is    *)
(* between the PIN and the new salt, which fits both (SaltFollows), and a    *)
(* PUK claim only after set-retries or under a file that asks for protection *)
(* (PukClaimAccounted).                                                      *)

SaltFollows ==
    /\ pc \in {"repin", "verify", "rotate", "resalt"} =>
          /\ job.pivman.puk_blocked = admin.puk_blocked
          /\ has_derived_key(admin) =>
                /\ has_derived_key(job.pivman)
                /\ job.newKey = Derived(job.newPin, job.pivman.salt)
    /\ pc \in {"verify", "rotate", "resalt"} => pin = job.newPin

PukClaimAccounted ==
    admin.puk_blocked /\ ~pukBlocked =>
        \/ "set_retries" \in behind
        \/ \E p \in Paths : recovery[p] # NoFile /\ recovery[p].protect

LEMMA FileKeysEmpty ==
    /\ FileKeys = {} <=> \A p \in Paths : recovery[p] = NoFile
    /\ FileKeys' = {} <=> \A p \in Paths : recovery'[p] = NoFile
BY DEF FileKeys

\* The steps that change ADMIN DATA.
LEMMA AdminSteps ==
    ASSUME [Next]_vars, admin' # admin
    PROVE  UpdateMetadata \/ ClearPukClaim \/ WriteNewSalt \/ ResetApplet
<1>1. ~UNCHANGED card
  BY DEF card
<1>2. ~(ChangePuk \/ ReplaceKey \/ StoreProtectedKey \/ ProtectPuk \/ ResetRetries
        \/ ResetPinWithPuk \/ ChangeCardPin \/ RotateDerivedKey)
  BY <1>1 DEF ChangePuk, ReplaceKey, StoreProtectedKey, ProtectPuk, ResetRetries,
              ResetPinWithPuk, WrongPuk, ChangeCardPin, RotateDerivedKey, Exchange, card
<1>3. \A p : ~ResolveCompleting(p)
  BY <1>1 DEF ResolveCompleting, Exchange, card
<1> QED
  BY <1>1, <1>2, <1>3, CardSteps

\* The steps that change PRINTED.
LEMMA PrintedSteps ==
    ASSUME [Next]_vars, printed' # printed
    PROVE  StoreProtectedKey \/ ResetApplet
<1>1. ~UNCHANGED card
  BY DEF card
<1>2. ~(ChangePuk \/ ReplaceKey \/ UpdateMetadata \/ ProtectPuk \/ ResetRetries
        \/ ResetPinWithPuk \/ ChangeCardPin \/ RotateDerivedKey \/ ClearPukClaim
        \/ WriteNewSalt)
  BY <1>1 DEF ChangePuk, ReplaceKey, UpdateMetadata, ProtectPuk, ResetRetries, ClearPukClaim,
              WriteNewSalt, ResetPinWithPuk, WrongPuk, ChangeCardPin, RotateDerivedKey,
              Exchange, card
<1>3. \A p : ~ResolveCompleting(p)
  BY <1>1 DEF ResolveCompleting, Exchange, card
<1> QED
  BY <1>1, <1>2, <1>3, CardSteps

LEMMA ReplacingPin ==
    ASSUME [Next]_vars, pin' # pin
    PROVE  ResetRetries \/ ResetPinWithPuk \/ ChangeCardPin \/ ResetApplet
<1>1. ~UNCHANGED card
  BY DEF card
<1>2. ~(ChangePuk \/ ReplaceKey \/ StoreProtectedKey \/ UpdateMetadata \/ ProtectPuk
        \/ ClearPukClaim \/ RotateDerivedKey \/ WriteNewSalt)
  BY <1>1 DEF ChangePuk, ReplaceKey, StoreProtectedKey, UpdateMetadata, ProtectPuk,
              ClearPukClaim, RotateDerivedKey, WriteNewSalt, Exchange, card
<1>3. \A p : ~ResolveCompleting(p)
  BY <1>1 DEF ResolveCompleting, Exchange, card
<1> QED
  BY <1>1, <1>2, <1>3, CardSteps

\* Only RESET RETRY COUNTERS and the applet's reset revive a PUK.
LEMMA RevivingSteps ==
    ASSUME [Next]_vars, pukBlocked, ~pukBlocked'
    PROVE  ResetRetries \/ ResetApplet
<1>1. ~UNCHANGED card
  BY DEF card
<1>2. ~(ChangePuk \/ ReplaceKey \/ StoreProtectedKey \/ UpdateMetadata \/ ProtectPuk
        \/ ClearPukClaim \/ RotateDerivedKey \/ WriteNewSalt \/ ResetPinWithPuk
        \/ ChangeCardPin)
  BY <1>1 DEF ChangePuk, ReplaceKey, StoreProtectedKey, UpdateMetadata, ProtectPuk,
              ClearPukClaim, RotateDerivedKey, WriteNewSalt, ResetPinWithPuk, WrongPuk,
              ChangeCardPin, Exchange, card
<1>3. \A p : ~ResolveCompleting(p)
  BY <1>1 DEF ResolveCompleting, Exchange, card
<1> QED
  BY <1>1, <1>2, <1>3, CardSteps

\* The steps on which a command reports success.
LEMMA SuccessSteps ==
    ASSUME Step, pc' = "ended", result' = "ok"
    PROVE  \/ RemoveRecoveryFile \/ ClearPukClaim \/ ResetPinWithPuk
           \/ RereadPivman /\ ~admin.puk_blocked
           \/ ChangeCardPin /\ ~has_derived_key(job.pivman)
           \/ WriteNewSalt
<1>1. /\ \A k, protect, hidden, e : ~ChangeManagementKey(k, protect, hidden, e)
      /\ \A e : ~SetRetries(e)
      /\ \A new : ~UnblockPin(new)
      /\ \A old, new : ~ChangePin(old, new)
  BY DEF ChangeManagementKey, SetRetries, UnblockPin, ChangePin, Start
<1>2. ~(ChangePuk \/ ResetApplet \/ Interrupt \/ Return)
  BY DEF ChangePuk, ResetApplet, host, Interrupt, Return, End
<1>3. ~ResolveManagement
  <2>1. ~\E k, p : AfterResolve(k, p)
    BY DEF AfterResolve, StepAfterResolve, Goto
  <2>2. ~End("failed") /\ ~End("refused")
    BY DEF End
  <2> QED
    BY <2>1, <2>2
    DEF ResolveManagement, ResolveExplicit, ResolveLegacyStored, ResolveCompleting,
        ResolveStored, ResolveDerived, ResolvePrompt, Query, Exchange
<1>4. ~(SaveRecoveryFile \/ InspectProtection \/ EnsurePinResetSafe \/ VerifyNewPin
        \/ ReadBeforePinChange)
  BY DEF SaveRecoveryFile, InspectProtection, EnsurePinResetSafe, VerifyNewPin,
         ReadBeforePinChange, Query, Goto, End
<1>5. ~(ReplaceKey \/ StoreProtectedKey \/ UpdateMetadata \/ ProtectPuk)
  BY DEF ReplaceKey, StoreProtectedKey, UpdateMetadata, ProtectPuk, Exchange, Goto, End,
         StepAfterReplace, StepAfterStore, StepAfterPublish
<1>6. ~(ResetRetries \/ RotateDerivedKey)
  BY DEF ResetRetries, RotateDerivedKey, Exchange, Goto, End
<1>7. RereadPivman => ~admin.puk_blocked
  BY DEF RereadPivman, Goto
<1>8. ChangeCardPin => ~has_derived_key(job.pivman)
  BY DEF ChangeCardPin, Exchange, Goto, End
<1> QED
  BY <1>1, <1>2, <1>3, <1>4, <1>5, <1>6, <1>7, <1>8 DEF Step

\* The steps that lead change-pin on.
LEMMA PinChangeSteps ==
    ASSUME [Next]_vars, pc' \in {"repin", "verify", "rotate", "resalt"}
    PROVE  \/ ReadBeforePinChange \/ ChangeCardPin \/ VerifyNewPin \/ RotateDerivedKey
           \/ UNCHANGED vars
<1>1. /\ \A k, protect, hidden, e : ~ChangeManagementKey(k, protect, hidden, e)
      /\ \A e : ~SetRetries(e)
      /\ \A new : ~UnblockPin(new)
      /\ \A old, new : ~ChangePin(old, new)
  BY DEF ChangeManagementKey, SetRetries, UnblockPin, ChangePin, Start
<1>2. ~(ChangePuk \/ ResetApplet \/ Interrupt \/ Return)
  BY DEF ChangePuk, ResetApplet, host, Interrupt, Return, End
<1>3. ~ResolveManagement
  <2>1. ~\E k, p : AfterResolve(k, p)
    BY DEF AfterResolve, StepAfterResolve, Goto
  <2>2. ~End("failed") /\ ~End("refused")
    BY DEF End
  <2> QED
    BY <2>1, <2>2
    DEF ResolveManagement, ResolveExplicit, ResolveLegacyStored, ResolveCompleting,
        ResolveStored, ResolveDerived, ResolvePrompt, Query, Exchange
<1>4. ~(SaveRecoveryFile \/ InspectProtection \/ RemoveRecoveryFile \/ EnsurePinResetSafe
        \/ RereadPivman)
  BY DEF SaveRecoveryFile, InspectProtection, RemoveRecoveryFile, EnsurePinResetSafe,
         RereadPivman, Query, Goto, End
<1>5. ~(ReplaceKey \/ StoreProtectedKey \/ UpdateMetadata \/ ProtectPuk)
  BY DEF ReplaceKey, StoreProtectedKey, UpdateMetadata, ProtectPuk, Exchange, Goto, End,
         StepAfterReplace, StepAfterStore, StepAfterPublish
<1>6. ~(ResetRetries \/ ClearPukClaim \/ ResetPinWithPuk \/ WriteNewSalt)
  BY DEF ResetRetries, ClearPukClaim, ResetPinWithPuk, WrongPuk, WriteNewSalt, Exchange,
         Goto, End
<1> QED
  BY <1>1, <1>2, <1>3, <1>4, <1>5, <1>6 DEF Next, Step

LEMMA NextSaltFollows ==
    ASSUME TypeOK, JobFits, SaltFollows, [Next]_vars
    PROVE  SaltFollows'
<1>0. job \in Jobs /\ admin \in PivmanData
  BY DEF TypeOK, HostTypeOK, CardTypeOK
<1>1. CASE pc' \notin {"repin", "verify", "rotate", "resalt"}
  BY <1>1 DEF SaltFollows
<1>2. CASE UNCHANGED vars
  BY <1>2 DEF vars, card, host, SaltFollows, has_derived_key
<1>3. CASE (VerifyNewPin \/ RotateDerivedKey) /\ pc' # "ended"
  BY <1>3 DEF VerifyNewPin, RotateDerivedKey, Query, Exchange, Goto, End, card, SaltFollows,
              has_derived_key
<1>4. CASE ChangeCardPin /\ pc' # "ended"
  BY <1>4 DEF ChangeCardPin, Exchange, Goto, End, card, SaltFollows, has_derived_key
<1>5. CASE ReadBeforePinChange /\ pc' # "ended"
  <2>1. CASE ~has_derived_key(admin) /\ UNCHANGED card
             /\ Goto("repin", [job EXCEPT !.pivman = admin])
    <3>1. job'.pivman = admin
      BY <1>0, <2>1 DEF Goto, Jobs
    <3> QED
      BY <2>1, <3>1 DEF Goto, card, SaltFollows, has_derived_key
  <2>2. ASSUME NEW s \in Salts, UNCHANGED card,
               Goto("repin", [job EXCEPT
                            !.pivman = [admin EXCEPT !.salt = s],
                            !.access = Derived(job.pin, admin.salt),
                            !.newKey = Derived(job.newPin, s)])
        PROVE  SaltFollows'
    <3>1. /\ job'.newPin = job.newPin /\ job'.newKey = Derived(job.newPin, s)
          /\ job'.pivman = [admin EXCEPT !.salt = s]
      BY <1>0, <2>2 DEF Goto, Jobs
    <3>2. job'.pivman.puk_blocked = admin.puk_blocked /\ job'.pivman.salt = s
      BY <1>0, <3>1 DEF PivmanData
    <3>3. has_derived_key(job'.pivman)
      BY <3>2, PinAssumption DEF has_derived_key
    <3> QED
      BY <2>2, <3>1, <3>2, <3>3 DEF Goto, card, SaltFollows, has_derived_key
  <2> QED
    BY <1>5, <2>1, <2>2 DEF ReadBeforePinChange, Query, End
<1> QED
  BY <1>1, <1>2, <1>3, <1>4, <1>5, PinChangeSteps

\* Recovery files disappear only at the end of a successful update, and what
\* the user knows is never forgotten.
LEMMA FilesStay ==
    ASSUME TypeOK, [Next]_vars
    PROVE  /\ known \subseteq known'
           /\ ~RemoveRecoveryFile =>
                 \A p \in Paths : recovery[p] # NoFile => recovery'[p] = recovery[p]
<1>1. CASE \E k \in ChosenKeys, protect, hidden \in BOOLEAN, e \in UserKeys \cup {NoKey} :
             ChangeManagementKey(k, protect, hidden, e)
  BY <1>1 DEF ChangeManagementKey
<1>2. CASE SaveRecoveryFile
  <2>1. UNCHANGED known
    BY <1>2 DEF SaveRecoveryFile
  <2>2. \A p \in Paths : recovery[p] # NoFile => recovery'[p] = recovery[p]
    BY <1>2 DEF SaveRecoveryFile, TypeOK, UserTypeOK
  <2> QED
    BY <2>1, <2>2
<1>3. CASE RemoveRecoveryFile
  BY <1>3 DEF RemoveRecoveryFile
<1>4. CASE UNCHANGED <<recovery, known>>
  BY <1>4
<1>5. \/ UNCHANGED <<recovery, known>> \/ SaveRecoveryFile \/ RemoveRecoveryFile
      \/ \E k \in ChosenKeys, protect, hidden \in BOOLEAN, e \in UserKeys \cup {NoKey} :
             ChangeManagementKey(k, protect, hidden, e)
  BY DEF Next, Step, vars, SetRetries, UnblockPin, ChangePin, ChangePuk, ResetApplet,
     ResolveManagement,
     InspectProtection, ReplaceKey, StoreProtectedKey, UpdateMetadata, ProtectPuk,
     EnsurePinResetSafe, ResetRetries, RereadPivman, ClearPukClaim, ResetPinWithPuk,
     ReadBeforePinChange, ChangeCardPin, VerifyNewPin, RotateDerivedKey, WriteNewSalt,
     Interrupt, Return
<1> QED
  BY <1>1, <1>2, <1>3, <1>4, <1>5

\* A PUK that is claimed blocked and is not has either been revived by a
\* set-retries that has not cleared the claim, or is to be blocked by an update
\* whose file is on disk.
LEMMA NextPukClaim ==
    ASSUME TypeOK, JobFits, KeyHeld, ClaimsFollow, SaltFollows, PukClaimAccounted, [Next]_vars
    PROVE  PukClaimAccounted'
<1> SUFFICES ASSUME admin'.puk_blocked, ~pukBlocked', "set_retries" \notin behind'
             PROVE  \E p \in Paths : recovery'[p] # NoFile /\ recovery'[p].protect
  BY DEF PukClaimAccounted
<1>0. job \in Jobs /\ admin \in PivmanData /\ recovery \in [Paths -> RecoveryFile \cup {NoFile}]
  BY DEF TypeOK, HostTypeOK, CardTypeOK, UserTypeOK
<1>1. CASE UNCHANGED vars
  BY <1>1 DEF vars, card, PukClaimAccounted
<1>2. CASE Step /\ KeepHistory
  <2>1. CASE "set_retries" \in behind
    <3>1. job.op = "set_retries" /\ pc' = "ended" /\ result' = "ok"
      BY <1>2, <2>1 DEF KeepHistory, CaughtUp
    <3>2. ClearPukClaim \/ (RereadPivman /\ ~admin.puk_blocked)
      BY <1>2, <3>1, SuccessSteps
      DEF JobFits, RemoveRecoveryFile, ResetPinWithPuk, ChangeCardPin, WriteNewSalt,
          KeySteps, PinSteps
    <3>3. CASE ClearPukClaim
      <4>1. admin' = [admin EXCEPT !.puk_blocked = FALSE]
        BY <3>1, <3>3 DEF ClearPukClaim, ClaimsFollow, Exchange, End
      <4> QED
        BY <1>0, <4>1 DEF PivmanData
    <3>4. CASE RereadPivman /\ ~admin.puk_blocked
      BY <3>4 DEF RereadPivman, card
    <3> QED
      BY <3>2, <3>3, <3>4
  <2>2. CASE "set_retries" \notin behind /\ admin.puk_blocked /\ ~pukBlocked
    <3>1. PICK p \in Paths : recovery[p] # NoFile /\ recovery[p].protect
      BY <2>2 DEF PukClaimAccounted
    <3>2. CASE ~RemoveRecoveryFile
      BY <3>1, <3>2, FilesStay
    \* The file removed here is that of an update without protection.
    <3>3. CASE RemoveRecoveryFile
      <4>1. pc = "cleanup" /\ UNCHANGED card
        BY <3>3 DEF RemoveRecoveryFile
      <4>2. ~job.protect
        BY <2>2, <4>1 DEF ClaimsFollow
      <4>3. recovery[job.path].protect = job.protect
        BY <4>1 DEF KeyHeld, FileHeld, KeySteps
      <4>4. recovery'[p] = recovery[p]
        BY <1>0, <3>1, <3>3, <4>2, <4>3 DEF RemoveRecoveryFile
      <4> QED
        BY <3>1, <4>4
    <3> QED
      BY <3>2, <3>3
  <2>3. CASE pukBlocked
    <3>1. ~ResetApplet
      BY DEF ResetApplet, NoPivman
    <3>2. ResetRetries
      BY <2>3, <3>1, RevivingSteps
    <3>3. Outdates /\ job.op = "set_retries"
      BY <2>3, <3>2 DEF ResetRetries, JobFits, RetrySteps, Outdates
    <3>4. ~CaughtUp("set_retries")
      BY <3>2 DEF CaughtUp, ResetRetries, Exchange, Goto, End
    <3>5. "set_retries" \in behind \cup (IF Outdates THEN {job.op} ELSE {})
      BY <3>3
    <3> QED
      BY <1>2, <3>4, <3>5 DEF KeepHistory
  <2>4. CASE ~admin.puk_blocked
    <3>1. UpdateMetadata \/ ClearPukClaim \/ WriteNewSalt
      <4>1. admin' # admin
        BY <2>4
      <4>2. ~ResetApplet
        BY DEF ResetApplet, NoPivman
      <4> QED
        BY <4>1, <4>2, AdminSteps
    <3>2. ~ClearPukClaim
      <4>1. ASSUME ClearPukClaim PROVE admin'.puk_blocked = FALSE
        <5>1. job.pivman = [admin EXCEPT !.puk_blocked = FALSE]
          BY <4>1 DEF ClearPukClaim, ClaimsFollow
        <5>2. job.pivman.puk_blocked = FALSE
          BY <1>0, <5>1 DEF PivmanData
        <5> QED
          BY <2>4, <4>1, <5>2 DEF ClearPukClaim, Exchange, card
      <4> QED
        BY <4>1
    <3>3. ~WriteNewSalt
      BY <2>4 DEF WriteNewSalt, SaltFollows, Exchange, card
    <3>4. UpdateMetadata
      BY <3>1, <3>2, <3>3
    <3>5. admin' = Updated /\ job.pivman = admin /\ UNCHANGED recovery /\ pc = "publish"
      BY <2>4, <3>4 DEF UpdateMetadata, Exchange, card, ClaimsFollow
    <3>6. job.protect
      BY <1>0, <2>4, <3>5 DEF Updated, Jobs
    <3> QED
      BY <3>5, <3>6 DEF KeyHeld, FileHeld, JobFits, KeySteps
  <2> QED
    BY <2>1, <2>2, <2>3, <2>4
<1> QED
  BY <1>1, <1>2 DEF Next

\* Once change-pin has begun, the salt is either accounted for or right again.
LEMMA BehindStays ==
    ASSUME JobFits, SaltFollows, [Next]_vars, "change_pin" \in behind,
           has_derived_key(admin), UNCHANGED admin
    PROVE  "change_pin" \in behind' \/ mgmtKey' = Derived(pin', admin'.salt)
<1>1. CASE UNCHANGED vars
  BY <1>1 DEF vars
<1>2. CASE Step /\ KeepHistory /\ CaughtUp("change_pin")
  <2>1. job.op = "change_pin" /\ pc' = "ended" /\ result' = "ok"
    BY <1>2 DEF CaughtUp
  <2>2. ~ChangeCardPin \/ has_derived_key(job.pivman)
    BY DEF ChangeCardPin, SaltFollows
  <2>3. WriteNewSalt
    BY <1>2, <2>1, <2>2, SuccessSteps
    DEF JobFits, RemoveRecoveryFile, ClearPukClaim, ResetPinWithPuk, RereadPivman, KeySteps,
        RetrySteps
  <2>4. /\ job.newKey = mgmtKey /\ admin' = job.pivman /\ UNCHANGED <<mgmtKey, pin>>
        /\ pc = "resalt"
    BY <2>1, <2>3 DEF WriteNewSalt, Exchange, End
  <2> QED
    BY <2>4 DEF SaltFollows
<1>3. CASE Step /\ KeepHistory /\ ~CaughtUp("change_pin")
  BY <1>3 DEF KeepHistory
<1> QED
  BY <1>1, <1>2, <1>3 DEF Next

LEMMA NextTrueMetadata ==
    ASSUME TypeOK, JobFits, KeyHeld, ClaimsFollow, SaltFollows, PukClaimAccounted',
           CleanDiskMeansTrueMetadata, [Next]_vars
    PROVE  CleanDiskMeansTrueMetadata'
<1> SUFFICES ASSUME FileKeys' = {}
             PROVE  IF admin'.stored_key THEN printed' = mgmtKey'
                    ELSE IF has_derived_key(admin')
                    THEN mgmtKey' = Derived(pin', admin'.salt) \/ "change_pin" \in behind'
                    ELSE mgmtKey' \in known'
  BY FileKeysEmpty DEF CleanDiskMeansTrueMetadata, PukClaimAccounted, has_derived_key
<1>0. known \subseteq known' /\ job \in Jobs /\ admin \in PivmanData
  BY FilesStay DEF TypeOK, HostTypeOK, CardTypeOK
<1>1. CASE RemoveRecoveryFile
  <2>1. pc = "cleanup" /\ UNCHANGED <<mgmtKey, admin, printed, known>> /\ job.op = "change_key"
    BY <1>1 DEF RemoveRecoveryFile, card, JobFits, KeySteps
  <2>2. /\ IF admin.stored_key THEN printed = mgmtKey ELSE mgmtKey \in known
        /\ ~has_derived_key(admin)
    BY <1>0, <2>1, Synced DEF SuccessMeansSynced, KeyHeld, NewKeyKnown, Jobs
  <2> QED
    BY <2>1, <2>2
<1>2. ~(ReplaceKey \/ StoreProtectedKey \/ UpdateMetadata)
  <2>1. ASSUME ReplaceKey \/ StoreProtectedKey \/ UpdateMetadata PROVE FALSE
    <3>1. pc \in KeySteps \ {"save"} /\ UNCHANGED recovery
      BY <2>1 DEF ReplaceKey, StoreProtectedKey, UpdateMetadata, KeySteps
    <3>2. job.path \in Paths /\ recovery'[job.path] # NoFile
      BY <3>1 DEF JobFits, KeyHeld, FileHeld
    <3> QED
      BY <3>2, FileKeysEmpty
  <2> QED
    BY <2>1
<1>3. CASE ~RemoveRecoveryFile
  <2>0. /\ IF admin.stored_key THEN printed = mgmtKey
           ELSE IF has_derived_key(admin)
           THEN mgmtKey = Derived(pin, admin.salt) \/ "change_pin" \in behind
           ELSE mgmtKey \in known
        /\ has_derived_key(admin) => ~admin.stored_key
    <3>1. FileKeys = {}
      BY <1>3, FilesStay, FileKeysEmpty
    <3> QED
      BY <3>1 DEF CleanDiskMeansTrueMetadata, ClaimsFollow
  <2>1. CASE UNCHANGED <<mgmtKey, admin, printed, pin>>
    BY <1>0, <2>0, <2>1, BehindStays
  <2>2. CASE ResetApplet
    BY <1>0, <2>2 DEF ResetApplet, KeyHeld, NoPivman, has_derived_key
  <2>3. CASE admin' # admin /\ ~ResetApplet
    <3>1. ClearPukClaim \/ WriteNewSalt
      BY <1>2, <2>3, AdminSteps
    <3>2. admin' = job.pivman /\ UNCHANGED <<mgmtKey, pin, printed>>
      BY <2>3, <3>1 DEF ClearPukClaim, WriteNewSalt, Exchange, card
    <3>3. CASE ClearPukClaim
      <4>1. ~has_derived_key(admin) /\ job.pivman = [admin EXCEPT !.puk_blocked = FALSE]
        BY <3>3 DEF ClearPukClaim, ClaimsFollow, Checked, RetrySteps
      <4>2. admin'.stored_key = admin.stored_key /\ ~has_derived_key(admin')
        BY <1>0, <3>2, <4>1 DEF PivmanData, has_derived_key
      <4> QED
        BY <1>0, <2>0, <3>2, <4>1, <4>2
    \* The salt is the one that the PIN and the key were made for.
    <3>4. CASE WriteNewSalt
      <4>1. /\ job.newKey = mgmtKey /\ pc = "resalt"
            /\ has_derived_key(job.pivman) /\ has_derived_key(admin)
        BY <2>3, <3>4 DEF WriteNewSalt, Exchange, card, JobFits, ClaimsFollow
      <4>2. /\ mgmtKey' = Derived(pin', admin'.salt)
            /\ ~admin'.stored_key /\ has_derived_key(admin')
        BY <2>0, <3>2, <4>1 DEF SaltFollows, ClaimsFollow
      <4> QED
        BY <4>2
    <3> QED
      BY <3>1, <3>3, <3>4
  <2>4. CASE UNCHANGED <<admin, mgmtKey, printed>> /\ pin' # pin /\ ~ResetApplet
    <3>1. CASE ~has_derived_key(admin)
      BY <1>0, <2>0, <2>4, <3>1
    <3>2. CASE has_derived_key(admin)
      <4>1. ~ResetRetries /\ ~ResetPinWithPuk
        BY <3>2 DEF ResetRetries, ResetPinWithPuk, ClaimsFollow, Checked, RetrySteps
      <4>2. ChangeCardPin
        BY <2>4, <4>1, ReplacingPin
      <4>3. Outdates /\ job.op = "change_pin"
        BY <2>4, <3>2, <4>2 DEF ChangeCardPin, JobFits, PinSteps, Outdates
      <4>4. ~CaughtUp("change_pin")
        BY <2>4, <3>2, <4>2
        DEF CaughtUp, ChangeCardPin, Exchange, Goto, End, SaltFollows
      <4>5. KeepHistory
        BY <2>4 DEF Next, vars, card
      <4> QED
        BY <2>0, <2>4, <3>2, <4>3, <4>4, <4>5 DEF KeepHistory
    <3> QED
      BY <3>1, <3>2
  <2>5. CASE mgmtKey' # mgmtKey /\ ~ResetApplet
    <3>1. RotateDerivedKey
      BY <1>2, <2>5, ReplacingSteps
    <3>2. /\ has_derived_key(admin) /\ UNCHANGED <<admin, pin>> /\ job.op = "change_pin"
          /\ ~(pc' = "ended" /\ result' = "ok")
      BY <2>5, <3>1
      DEF RotateDerivedKey, Exchange, card, JobFits, PinSteps, ClaimsFollow, Goto, End
    <3>3. KeepHistory
      BY <2>5 DEF Next, vars, card
    <3> QED
      BY <2>0, <2>5, <3>2, <3>3 DEF KeepHistory, Outdates, CaughtUp
  <2>6. printed' # printed => ResetApplet
    BY <1>2, PrintedSteps
  <2> QED
    BY <2>1, <2>2, <2>3, <2>4, <2>5, <2>6
<1> QED
  BY <1>1, <1>3

\* While no recovery file remains on disk, a stored-key claim is backed by the
\* active key in PRINTED, a salt and the card's PIN give the active key, a card
\* with neither runs on a key the user has seen, and a PUK claimed blocked is,
\* wherever updates were cut short before, except where a change-pin or a
\* set-retries was: those two leave no file to finish from.
THEOREM NoFileMeansTruth == Spec => []CleanDiskMeansTrueMetadata
<1>1. Init => /\ KeyHeld /\ ClaimsFollow /\ SaltFollows /\ PukClaimAccounted
              /\ CleanDiskMeansTrueMetadata
  <2>1. ASSUME Init PROVE CleanDiskMeansTrueMetadata /\ SaltFollows /\ PukClaimAccounted
    <3>0. pc = "idle"
      BY <2>1 DEF Init
    <3>1. CASE FactoryCard
      BY <2>1, <3>0, <3>1
      DEF Init, FactoryCard, NoPivman, CleanDiskMeansTrueMetadata, has_derived_key, SaltFollows,
          PukClaimAccounted
    <3>2. CASE DerivedCard
      <4>1. PICK s \in Salts : /\ mgmtKey = Derived(pin, s)
                               /\ admin = [NoPivman EXCEPT !.salt = s]
        BY <3>2 DEF DerivedCard
      <4>2. admin.salt = s /\ ~admin.stored_key /\ ~admin.puk_blocked
        BY <4>1 DEF NoPivman
      <4> QED
        BY <3>0, <4>1, <4>2, PinAssumption
        DEF CleanDiskMeansTrueMetadata, has_derived_key, SaltFollows, PukClaimAccounted
    <3>3. CASE LegacyStoredCard
      BY <3>0, <3>3 DEF LegacyStoredCard, NoPivman, CleanDiskMeansTrueMetadata, SaltFollows,
                        PukClaimAccounted
    <3> QED
      BY <2>1, <3>1, <3>2, <3>3 DEF Init
  <2> QED
    BY <2>1, InitHeld, InitClaims
<1>2. /\ TypeOK /\ JobFits /\ KeyHeld /\ ClaimsFollow /\ SaltFollows /\ PukClaimAccounted
      /\ CleanDiskMeansTrueMetadata /\ [Next]_vars
      => KeyHeld' /\ ClaimsFollow' /\ SaltFollows' /\ PukClaimAccounted'
         /\ CleanDiskMeansTrueMetadata'
  BY NextHeld, NextClaims, NextSaltFollows, NextPukClaim, NextTrueMetadata
<1> QED
  BY TypeCorrect, <1>1, <1>2, PTL DEF Spec

-----------------------------------------------------------------------------
(* The PIN and the PUK.                                                      *)

\* Only change-pin separates a PIN from the key derived from it.
THEOREM DerivedKeyKeepsPin == Spec => PinResetKeepsDerivedKey
<1>1. Init => ClaimsFollow
  BY InitClaims
<1>2. TypeOK /\ JobFits /\ ClaimsFollow /\ [Next]_vars => ClaimsFollow'
  BY NextClaims
<1>3. JobFits /\ ClaimsFollow /\ [Next]_vars
      => [pin' # pin /\ has_derived_key(admin) /\ mgmtKey = Derived(pin, admin.salt)
             => job.op = "change_pin" \/ mgmtKey' = DefaultKey]_vars
  <2> SUFFICES ASSUME JobFits, ClaimsFollow, [Next]_vars, pin' # pin, has_derived_key(admin)
               PROVE  job.op = "change_pin" \/ mgmtKey' = DefaultKey
    OBVIOUS
  <2>1. ~ResetRetries /\ ~ResetPinWithPuk
    BY DEF ResetRetries, ResetPinWithPuk, ClaimsFollow, Checked, RetrySteps
  <2>2. ChangeCardPin => job.op = "change_pin"
    BY DEF ChangeCardPin, JobFits, PinSteps
  <2>3. ResetApplet => mgmtKey' = DefaultKey
    BY DEF ResetApplet
  <2> QED
    BY <2>1, <2>2, <2>3, ReplacingPin
<1> QED
  BY TypeCorrect, <1>1, <1>2, <1>3, PTL DEF Spec, PinResetKeepsDerivedKey

LEMMA BlockingSteps ==
    ASSUME [Next]_vars, pukBlocked' # pukBlocked, pukBlocked', pc \notin {"unblock", "idle"}
    PROVE  (\E p \in Pins : ResolveCompleting(p)) \/ ProtectPuk
<1>1. ~UNCHANGED card
  BY DEF card
<1>2. ~(ReplaceKey \/ StoreProtectedKey \/ UpdateMetadata \/ ClearPukClaim
        \/ RotateDerivedKey \/ WriteNewSalt \/ ResetRetries \/ ChangeCardPin)
  BY <1>1 DEF ReplaceKey, StoreProtectedKey, UpdateMetadata, ClearPukClaim,
              RotateDerivedKey, WriteNewSalt, ResetRetries, ChangeCardPin, Exchange, card
<1>3. ~(ChangePuk \/ ResetApplet \/ ResetPinWithPuk)
  BY DEF ChangePuk, ResetApplet, ResetPinWithPuk
<1> QED
  BY <1>1, <1>2, <1>3, CardSteps

\* The program blocks the PUK only on an explicit --protect, and only for a
\* stored key that is the card's; every other blocking is a wrong PUK.
THEOREM PukBlockedForAKey == Spec => PukBlockedOnlyToProtect
<1>1. Init => ClaimsFollow
  BY InitClaims
<1>2. TypeOK /\ JobFits /\ ClaimsFollow /\ [Next]_vars => ClaimsFollow'
  BY NextClaims
<1>3. TypeOK /\ ClaimsFollow /\ [Next]_vars
      => [pukBlocked' /\ ~pukBlocked /\ pc \notin {"unblock", "idle"} =>
             job.protect /\ admin.stored_key /\ printed = mgmtKey]_vars
  <2> SUFFICES ASSUME ClaimsFollow, [Next]_vars, pukBlocked', ~pukBlocked,
                      pc \notin {"unblock", "idle"}
               PROVE  job.protect /\ admin.stored_key /\ printed = mgmtKey
    OBVIOUS
  <2>1. CASE ProtectPuk
    BY <2>1 DEF ProtectPuk, Exchange, PinManaged, ClaimsFollow, card
  <2>2. ASSUME NEW p \in Pins, ResolveCompleting(p)
        PROVE  job.protect /\ admin.stored_key /\ printed = mgmtKey
    BY <2>2 DEF ResolveCompleting, CompleteProtection, Exchange, PinManaged, card
  <2> QED
    BY <2>1, <2>2, BlockingSteps
<1> QED
  BY TypeCorrect, <1>1, <1>2, <1>3, PTL DEF Spec, PukBlockedOnlyToProtect
=============================================================================
