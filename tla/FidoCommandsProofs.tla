------------------------- MODULE FidoCommandsProofs -------------------------
(***************************************************************************)
(* For any number of credentials and other applications: a list is never   *)
(* torn, and a credential changes only as the user was shown.              *)
(*                                                                         *)
(* The argument is that whoever can change a credential holds the          *)
(* authenticator's only valid token.  While that is still ckman's, the     *)
(* rows read so far are what the authenticator holds (Snapshot); once it   *)
(* is not, no request of ckman's command is accepted any more.             *)
(***************************************************************************)
EXTENDS FidoCommands, TLAPS

Changing == {"delete", "update-user"}

Stages ==
    /\ pc \in {"idle", "info", "new-pin", "token", "enumerate", "read", "confirm", "send"}
    /\ pc = "new-pin" => job.op \in NewPinOps
    /\ pc \in {"enumerate", "read"} => job.op \in CredentialOps
    /\ pc = "confirm" => job.op \in Changing \cup {"write-blobs"}
    /\ pc = "send" => job.op # "list"
    /\ pc = "confirm" /\ job.op = "write-blobs" => unread = {} /\ rows = NoRows
    /\ pc \in {"idle", "info", "new-pin", "token", "enumerate"} =>
          unread = {} /\ rows = NoRows

Snapshot ==
    token = "ckman" /\ pc \in {"read", "confirm", "send"} /\ job.op \in CredentialOps =>
        /\ unread \subseteq Made
        /\ DOMAIN rows = Made \ unread
        /\ \A c \in DOMAIN rows : rows[c] = users[c]

Chosen ==
    pc \in {"confirm", "send"} /\ job.op \in Changing =>
        /\ unread = {}
        /\ DOMAIN rows \cap job.query = {target}

Mappings ==
    /\ users = [c \in Made |-> users[c]]
    /\ rows = [c \in DOMAIN rows |-> rows[c]]

IInv == Stages /\ Snapshot /\ Chosen

-----------------------------------------------------------------------------
(* Other applications: what they change they change without ckman's token.  *)
LEMMA OthersKeepIInv ==
    ASSUME IInv,
           \/ OtherToken \/ OtherConfig \/ OtherReset
           \/ \E c \in Creds : OtherCredential(c)
           \/ \E p \in Pins : OtherPin(p)
    PROVE  IInv'
<1>1. UNCHANGED command
  BY DEF OtherToken, OtherConfig, OtherReset, OtherCredential, OtherPin
<1>2. token' # "ckman" \/ UNCHANGED <<users, token>>
  BY DEF OtherToken, OtherConfig, OtherReset, OtherCredential, OtherPin, Cleared
<1>3. Stages' /\ Chosen'
  BY <1>1 DEF IInv, Stages, Chosen, command
<1>4. Snapshot'
  BY <1>1, <1>2 DEF IInv, Snapshot, Made, command
<1> QED BY <1>3, <1>4 DEF IInv

(* The end of a command forgets everything it had read.                     *)
LEMMA EndKeepsIInv ==
    ASSUME End
    PROVE  IInv'
BY DEF End, IInv, Stages, Snapshot, Chosen

(* The steps before the enumeration.                                        *)
LEMMA PreparationKeepsIInv ==
    ASSUME IInv,
           \/ \E j \in Commands : Start(j)
           \/ GetInfo \/ EnterNewPin \/ ConfirmWrite \/ \E p \in Pins : GetToken(p)
    PROVE  IInv'
<1>1. CASE \E j \in Commands : Start(j)
  <2>1. PICK j \in Commands : Start(j)
    BY <1>1
  <2>2. /\ pc = "idle" /\ pc' \in {"send", "info"}
        /\ UNCHANGED <<users, token, unread, rows, target>>
        /\ job' = j /\ (pc' = "send" => j.op \in {"reset", "touch-test"})
    BY <2>1 DEF Start, authenticator
  <2> QED BY <2>2 DEF IInv, Stages, Snapshot, Chosen, CredentialOps, Changing
<1>2. CASE GetInfo
  <2>1. CASE End
    BY <2>1, EndKeepsIInv
  <2>2. CASE ~End
    <3>1. /\ pc = "info" /\ pc' \in {"new-pin", "token", "send", "confirm"}
          /\ pc' = "new-pin" => job.op \in NewPinOps
          /\ pc' = "send" => job.op = "read-blobs"
          /\ pc' = "confirm" => job.op = "write-blobs"
          /\ UNCHANGED <<users, token, job, unread, rows, target>>
      BY <1>2, <2>2 DEF GetInfo, Go, authenticator
    <3> QED BY <3>1 DEF IInv, Stages, Snapshot, Chosen, CredentialOps, Changing
  <2> QED BY <2>1, <2>2
<1>3. CASE EnterNewPin
  <2>1. CASE End
    BY <2>1, EndKeepsIInv
  <2>2. CASE ~End
    <3>1. /\ pc = "new-pin" /\ pc' = "send"
          /\ UNCHANGED <<users, token, job, unread, rows, target>>
      BY <1>3, <2>2 DEF EnterNewPin, Go, authenticator
    <3> QED BY <3>1 DEF IInv, Stages, Snapshot, Chosen, NewPinOps, CredentialOps, Changing
  <2> QED BY <2>1, <2>2
<1>4. CASE \E p \in Pins : GetToken(p)
  <2>1. CASE End
    BY <2>1, EndKeepsIInv
  <2>2. CASE ~End
    <3>1. /\ pc = "token"
          /\ pc' = IF job.op \in CredentialOps THEN "enumerate" ELSE "send"
          /\ UNCHANGED <<users, job, unread, rows, target>>
      BY <1>4, <2>2 DEF GetToken, Go
    <3> QED BY <3>1 DEF IInv, Stages, Snapshot, Chosen, CredentialOps, Changing
  <2> QED BY <2>1, <2>2
<1>5. CASE ConfirmWrite
  <2>1. CASE End
    BY <2>1, EndKeepsIInv
  <2>2. CASE ~End
    <3>1. /\ pc = "confirm" /\ job.op = "write-blobs" /\ pc' \in {"token", "send"}
          /\ UNCHANGED <<users, token, job, unread, rows, target>>
      BY <1>5, <2>2 DEF ConfirmWrite, Go, authenticator
    <3> QED BY <3>1 DEF IInv, Stages, Snapshot, Chosen, CredentialOps, Changing
  <2> QED BY <2>1, <2>2
<1> QED BY <1>1, <1>2, <1>3, <1>4, <1>5

(* Reading: each request is accepted only while the token is ckman's.       *)
LEMMA ReadingKeepsIInv ==
    ASSUME IInv,
           \/ EnumerateRps \/ \E c \in Creds : EnumerateCredentials(c)
           \/ EndOfList \/ Select \/ Confirm
    PROVE  IInv'
<1>1. CASE EnumerateRps
  <2>1. /\ pc = "enumerate" /\ pc' = "read" /\ unread' = Made
        /\ UNCHANGED <<users, token, job, rows, target>>
    BY <1>1 DEF EnumerateRps, Reading, Authorized, Go
  <2>2. rows = NoRows /\ DOMAIN NoRows = {}
    BY <2>1 DEF IInv, Stages, NoRows
  <2>3. Stages' /\ Chosen'
    BY <2>1 DEF IInv, Stages, Chosen
  <2>4. Snapshot'
    BY <2>1, <2>2 DEF Snapshot, Made
  <2> QED BY <2>3, <2>4 DEF IInv
<1>2. CASE \E c \in Creds : EnumerateCredentials(c)
  <2>1. PICK c \in Creds : EnumerateCredentials(c)
    BY <1>2
  <2>2. /\ pc = "read" /\ pc' = "read" /\ c \in unread /\ c \in Made
        /\ unread' = unread \ {c} /\ token = "ckman"
        /\ rows' = [d \in DOMAIN rows \cup {c} |-> IF d = c THEN users[c] ELSE rows[d]]
        /\ UNCHANGED <<users, token, job, target>>
    BY <2>1 DEF EnumerateCredentials, Reading, Authorized, Go
  <2>3. job.op \in CredentialOps
    BY <2>2 DEF IInv, Stages
  <2>4. /\ unread \subseteq Made /\ DOMAIN rows = Made \ unread
        /\ \A d \in DOMAIN rows : rows[d] = users[d]
    BY <2>2, <2>3 DEF IInv, Snapshot
  <2>5. Stages' /\ Chosen'
    BY <2>2, <2>3 DEF Stages, Chosen
  <2>6. Snapshot'
    BY <2>2, <2>4 DEF Snapshot, Made
  <2> QED BY <2>5, <2>6 DEF IInv
<1>3. CASE EndOfList
  BY <1>3, EndKeepsIInv DEF EndOfList
<1>4. CASE Select
  <2> DEFINE hits == DOMAIN rows \cap job.query
  <2>1. CASE Selected(hits) /\ ~End
    <3>1. /\ pc = "read" /\ unread = {} /\ job.op \in Changing
          /\ target' \in hits /\ pc' \in {"send", "confirm"}
          /\ UNCHANGED <<users, token, job, unread, rows>>
      BY <1>4, <2>1 DEF Select, Go, authenticator, Changing
    <3>2. hits = {target'}
      BY <2>1, <3>1 DEF Selected
    <3>3. Stages' /\ Chosen'
      BY <3>1, <3>2 DEF IInv, Stages, Chosen, Changing
    <3>4. Snapshot'
      BY <3>1 DEF IInv, Snapshot, Made
    <3> QED BY <3>3, <3>4 DEF IInv
  <2>2. CASE End
    BY <2>2, EndKeepsIInv
  <2> QED BY <1>4, <2>1, <2>2 DEF Select
<1>5. CASE Confirm
  <2>1. CASE ~End
    <3>1. /\ pc = "confirm" /\ pc' = "send"
          /\ UNCHANGED <<users, token, job, unread, rows, target>>
      BY <1>5, <2>1 DEF Confirm, Go, authenticator
    <3> QED BY <3>1 DEF IInv, Stages, Snapshot, Chosen, Changing, Made
  <2> QED BY <2>1, EndKeepsIInv
<1> QED BY <1>1, <1>2, <1>3, <1>4, <1>5

(* Every request that changes something, and every failure, ends the        *)
(* command.                                                                 *)
LEMMA WriteEnds ==
    ASSUME \/ Abort \/ DeleteCredential \/ UpdateUserInformation \/ ToggleAlwaysUv
           \/ EnableLongTouchForReset \/ SetMinPinLength \/ SetPin
           \/ WriteBlobs \/ ReadBlobs \/ TouchTest \/ Reset
    PROVE  End
BY DEF Abort, DeleteCredential, UpdateUserInformation, ToggleAlwaysUv,
    EnableLongTouchForReset, SetMinPinLength, SetPin, WriteBlobs, ReadBlobs, TouchTest, Reset

LEMMA StepKeepsIInv ==
    ASSUME IInv, [Next]_vars
    PROVE  IInv'
<1>1. CASE UNCHANGED vars
  BY <1>1 DEF vars, authenticator, command, IInv, Stages, Snapshot, Chosen, Made
<1>2. CASE Next
  BY <1>2, OthersKeepIInv, PreparationKeepsIInv, ReadingKeepsIInv, WriteEnds, EndKeepsIInv
    DEF Next
<1> QED BY <1>1, <1>2

LEMMA MappingsKept ==
    ASSUME Mappings, [Next]_vars
    PROVE  Mappings'
<1>1. CASE UNCHANGED <<users, rows>>
  BY <1>1 DEF Mappings, Made
<1>2. CASE UNCHANGED users /\ (End \/ EnumerateRps \/ \E c \in Creds : EnumerateCredentials(c))
  BY <1>2 DEF Mappings, Made, End, NoRows, EnumerateRps, EnumerateCredentials
<1>3. CASE \/ DeleteCredential \/ UpdateUserInformation \/ Reset
           \/ OtherReset \/ \E c \in Creds : OtherCredential(c)
  <2>1. users' = [c \in Made' |-> users'[c]]
    BY <1>3 DEF Mappings, Made, DeleteCredential, UpdateUserInformation, Reset, Cleared,
        OtherReset, OtherCredential, NoRows
  <2>2. rows' = rows \/ rows' = NoRows
    BY <1>3 DEF DeleteCredential, UpdateUserInformation, Reset, OtherReset, OtherCredential,
        End, command
  <2>3. rows' = [c \in DOMAIN rows' |-> rows'[c]]
    BY <2>2 DEF Mappings, NoRows
  <2> QED BY <2>1, <2>3 DEF Mappings, Made
<1> QED
  BY <1>1, <1>2, <1>3 DEF Next, vars, authenticator, command, Start, Abort, GetInfo,
    EnterNewPin, ConfirmWrite, GetToken, EnumerateRps, EnumerateCredentials, Reading,
    EndOfList, Select, Confirm, ToggleAlwaysUv, EnableLongTouchForReset, SetMinPinLength,
    SetPin, WriteBlobs, ReadBlobs, TouchTest, OtherToken, OtherConfig, OtherPin

LEMMA Invariance == Spec => [](IInv /\ Mappings)
<1>1. Init => IInv /\ Mappings
  BY DEF Init, IInv, Stages, Snapshot, Chosen, Mappings, Made, NoRows
<1>2. IInv /\ Mappings /\ [Next]_vars => (IInv /\ Mappings)'
  BY StepKeepsIInv, MappingsKept
<1> QED BY <1>1, <1>2, PTL DEF Spec

-----------------------------------------------------------------------------
(* Which step completes an enumeration, and which changes a credential for  *)
(* ckman.                                                                   *)
LEMMA Completing ==
    ASSUME Completes, Next
    PROVE  EnumerateRps \/ \E c \in Creds : EnumerateCredentials(c)
<1>1. pc' = "read" /\ (pc' # pc \/ unread' # unread)
  BY DEF Completes
<1> QED BY <1>1 DEF Next, Start, Abort, End, GetInfo, EnterNewPin, ConfirmWrite, GetToken,
    EndOfList, Select, Confirm, Go, DeleteCredential, UpdateUserInformation, ToggleAlwaysUv,
    EnableLongTouchForReset, SetMinPinLength, SetPin, WriteBlobs, ReadBlobs, TouchTest, Reset,
    OtherToken, OtherCredential, OtherConfig, OtherPin, OtherReset, command

LEMMA ChangingSteps ==
    ASSUME Changes, Next
    PROVE  DeleteCredential \/ UpdateUserInformation
<1>1. /\ pc = "send" /\ pc' # pc /\ users' # users
      /\ job.op \in {"delete", "update-user"}
  BY DEF Changes
<1> QED BY <1>1 DEF Next, Start, Abort, GetInfo, EnterNewPin, ConfirmWrite, GetToken,
    EnumerateRps, EnumerateCredentials, EndOfList, Select, Confirm, ToggleAlwaysUv,
    EnableLongTouchForReset, SetMinPinLength, SetPin, WriteBlobs, ReadBlobs, TouchTest, Reset,
    OtherToken, OtherCredential, OtherConfig, OtherPin, OtherReset, command,
    authenticator, NewPinOps

(* For any number of credentials: when an enumeration completes, its rows   *)
(* are the authenticator's credentials (ListIsSnapshot).                    *)
THEOREM ListNeverTorn == Spec => ListIsSnapshot
<1>1. ASSUME IInv, IInv', Mappings', Next, Completes
      PROVE  rows' = users'
  <2>1. /\ token' = "ckman" /\ pc' = "read" /\ unread' = {}
        /\ job' = job /\ pc \in {"enumerate", "read"}
    BY <1>1, Completing
      DEF Completes, EnumerateRps, EnumerateCredentials, Reading, Authorized, Go
  <2>2. job'.op \in CredentialOps
    BY <1>1, <2>1 DEF IInv, Stages
  <2>3. /\ DOMAIN rows' = DOMAIN users'
        /\ \A c \in DOMAIN rows' : rows'[c] = users'[c]
    BY <1>1, <2>1, <2>2 DEF IInv, Snapshot, Made
  <2> QED BY <1>1, <2>3 DEF IInv, Mappings, Made
<1>2. /\ IInv /\ Mappings /\ (IInv /\ Mappings)' /\ [Next]_vars
      => [Completes => rows' = users']_vars
  BY <1>1
<1> QED BY <1>2, Invariance, PTL DEF Spec, ListIsSnapshot

(* For any number of credentials: ckman deletes or renames only the one     *)
(* credential the query matches, and only while its user is what the        *)
(* confirmation showed (ChangedAsShown).                                    *)
THEOREM ChangesAreAsShown == Spec => ChangedAsShown
<1>1. ASSUME IInv, Next, Changes
      PROVE  /\ Made \cap job.query = {target}
             /\ users[target] = rows[target]
  <2>1. /\ token = "ckman" /\ pc = "send" /\ job.op \in Changing /\ target \in Made
    BY <1>1, ChangingSteps
      DEF Changes, Changing, DeleteCredential, UpdateUserInformation, Authorized
  <2>2. /\ unread = {} /\ DOMAIN rows = Made \ unread
        /\ \A c \in DOMAIN rows : rows[c] = users[c]
        /\ DOMAIN rows \cap job.query = {target}
    BY <1>1, <2>1 DEF IInv, Snapshot, Chosen, Changing, CredentialOps
  <2> QED BY <2>1, <2>2
<1>2. IInv /\ Mappings /\ [Next]_vars
      => [Changes => /\ Made \cap job.query = {target}
                     /\ users[target] = rows[target]]_vars
  BY <1>1
<1> QED BY <1>2, Invariance, PTL DEF Spec, ChangedAsShown

(* For any number of credentials and users: a field not given to            *)
(* update-user keeps its current value (OtherFieldsKept).                   *)
THEOREM UnnamedFieldsSurvive == Spec => OtherFieldsKept
<1>1. ASSUME IInv, Mappings, Next, Changes, job.op = "update-user"
      PROVE  /\ job.name = None => users'[target].name = users[target].name
             /\ job.display = None => users'[target].display = users[target].display
  <2>1. /\ token = "ckman" /\ pc = "send" /\ target \in Made
        /\ users' = [users EXCEPT ![target] = Renamed(rows[target], job.name, job.display)]
    BY <1>1, ChangingSteps
      DEF Changes, DeleteCredential, UpdateUserInformation, Authorized
  <2>2. rows[target] = users[target]
    BY <1>1, <2>1 DEF IInv, Snapshot, Chosen, Changing, CredentialOps
  <2>3. users'[target] = Renamed(users[target], job.name, job.display)
    BY <1>1, <2>1, <2>2 DEF IInv, Mappings, Made
  <2> QED BY <2>3 DEF Renamed
<1>2. IInv /\ Mappings /\ [Next]_vars
      => [Changes /\ job.op = "update-user" =>
            /\ job.name = None => users'[target].name = users[target].name
            /\ job.display = None => users'[target].display = users[target].display]_vars
  BY <1>1
<1> QED BY <1>2, Invariance, PTL DEF Spec, OtherFieldsKept

=============================================================================
