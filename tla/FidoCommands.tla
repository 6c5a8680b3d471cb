---------------------------- MODULE FidoCommands ----------------------------
(***************************************************************************)
(* ckman's FIDO commands (commands/fido.rs): the PIN, the persistent       *)
(* configuration, the discoverable credentials and the large-blob array of *)
(* one authenticator.                                                      *)
(*                                                                         *)
(* A command reads getInfo, prompts, and then issues several CTAP requests *)
(* in a row.  Unlike a PC/SC card the HID interface is shared: a browser   *)
(* may talk to the authenticator between any two of them.  What it can do  *)
(* is bounded by the authenticator, which keeps one PIN/UV token: handing  *)
(* one to the browser invalidates ckman's, and so do a new PIN and a       *)
(* reset.  A credential command asks for one token and uses it for the     *)
(* enumeration and for the change (fido.rs:990).                           *)
(***************************************************************************)
EXTENDS Naturals

CONSTANTS
    Creds,      \* credential IDs, never handed out twice
    Texts,      \* values of a user name and of a display name
    Pins, PinLength,
    Minimums,   \* values of the minimum PIN length
    Arrays,     \* large-blob arrays with a right length and trailer
    Empty,      \* the empty text, which stands for an absent field too
    None

ASSUME FidoAssumption ==
    /\ Empty \notin Texts /\ None \notin Pins
    /\ PinLength \in [Pins -> Nat]
    /\ Minimums \subseteq Nat /\ 4 \in Minimums

VARIABLES
    users,     \* authenticator: the user of each credential
    unmade,    \* authenticator: credential IDs not handed out yet
    pin,       \* authenticator: its PIN
    minimum,   \* authenticator: its minimum PIN length
    alwaysUv,  \* authenticator: "always require user verification"
    longTouch, \* authenticator: a reset takes a long touch
    blobs,     \* authenticator: the large-blob array, None as it came
    token,     \* authenticator: who holds the valid PIN/UV token
    job,       \* the command being run
    pc,        \* what it does next
    info,      \* what getInfo told it
    unread,    \* credentials it still has to read
    rows,      \* the users it has read
    target     \* the credential it has selected

settings == <<minimum, alwaysUv, longTouch>>
authenticator == <<users, unmade, pin, settings, blobs, token>>
command == <<job, pc, info, unread, rows, target>>
vars == <<authenticator, command>>

Fields == Texts \cup {Empty}
User   == [name : Fields, display : Fields]
Made   == DOMAIN users

CredentialOps == {"list", "delete", "update-user"}
ConfigOps     == {"toggle-always-uv", "enable-long-touch", "set-min-length", "force-change"}
BlobOps       == {"read-blobs", "write-blobs"}
TokenOps      == CredentialOps \cup ConfigOps \cup {"verify-pin"}
NewPinOps     == {"set-pin", "change-pin"}
Ops           == TokenOps \cup NewPinOps \cup BlobOps \cup {"reset", "touch-test"}

NoJob  == [op |-> "none"]
NoInfo == [clientPin |-> FALSE, minimum |-> 4]
NoRows == [c \in {} |-> None]

Init ==
    /\ users = NoRows /\ unmade = Creds
    /\ pin \in Pins \cup {None}
    /\ minimum = 4 /\ alwaysUv = FALSE /\ longTouch = FALSE /\ blobs = None
    /\ token = "none"
    /\ job = NoJob /\ pc = "idle" /\ info = NoInfo
    /\ unread = {} /\ rows = NoRows /\ target = None

-----------------------------------------------------------------------------
(* Running a command. *)

(* reset and enable-long-touch ask for consent before they have read        *)
(* anything; who declines has run no command.                               *)
Start(j) ==
    /\ pc = "idle"
    /\ job' = j
    /\ pc' = IF j.op \in {"reset", "touch-test"} THEN "send" ELSE "info"
    /\ UNCHANGED <<authenticator, info, unread, rows, target>>

(* The process ends; nothing is remembered.                                 *)
End ==
    /\ job' = NoJob /\ pc' = "idle" /\ info' = NoInfo
    /\ unread' = {} /\ rows' = NoRows /\ target' = None

Go(label) == pc' = label /\ UNCHANGED job

(* A transport failure, a refusal, a timeout or the death of the process.   *)
Abort ==
    /\ pc # "idle"
    /\ End
    /\ UNCHANGED authenticator

(* Whether the command makes sense with or without a PIN on the device.     *)
Sensible(clientPin) ==
    /\ job.op = "set-pin" => ~clientPin
    /\ job.op \in {"change-pin", "verify-pin", "set-min-length", "force-change"} => clientPin

ValidNewPin(new, least) == PinLength[new] >= least

(* An absent option counts as no PIN, an absent minimum as 4.  A command    *)
(* the device does not support stops here, which Abort covers.              *)
GetInfo ==
    /\ pc = "info"
    /\ \/ /\ Sensible(pin # None)
          /\ info' = [clientPin |-> pin # None, minimum |-> minimum]
          /\ \/ job.op \in NewPinOps /\ Go("new-pin")
             \/ job.op \in TokenOps /\ Go("token")
             \/ job.op = "read-blobs" /\ Go("send")
             \/ job.op = "write-blobs" /\ Go("confirm")
          /\ UNCHANGED <<unread, rows, target>>
       \/ /\ ~Sensible(pin # None)
          /\ End
    /\ UNCHANGED authenticator

EnterNewPin ==
    /\ pc = "new-pin"
    /\ IF ValidNewPin(job.new, info.minimum)
       THEN Go("send") /\ UNCHANGED <<info, unread, rows, target>>
       ELSE End
    /\ UNCHANGED authenticator

(* The array is written with a token if the device had a PIN when getInfo   *)
(* was read, without one otherwise.                                         *)
ConfirmWrite ==
    /\ pc = "confirm" /\ job.op = "write-blobs"
    /\ \/ /\ Go(IF info.clientPin THEN "token" ELSE "send")
          /\ UNCHANGED <<info, unread, rows, target>>
       \/ End
    /\ UNCHANGED authenticator

(* The user is prompted for the PIN, and the token is asked for with the    *)
(* permissions of the command.  verify-pin wants nothing else.              *)
GetToken(entered) ==
    /\ pc = "token"
    /\ IF pin # None /\ entered = pin
       THEN /\ token' = "ckman"
            /\ IF job.op = "verify-pin"
               THEN End
               ELSE /\ Go(IF job.op \in CredentialOps THEN "enumerate" ELSE "send")
                    /\ UNCHANGED <<info, unread, rows, target>>
       ELSE End /\ UNCHANGED token
    /\ UNCHANGED <<users, unmade, pin, settings, blobs>>

-----------------------------------------------------------------------------
(* Reading the credentials and selecting one. *)

(* Mutant: a token is obtained for each request.                            *)
AuthorizedFreshly == pin # None /\ token' = "ckman"

(* Every request carries the one token obtained at the start; getNext, which *)
(* carries none, continues an enumeration that any other request discards.  *)
Authorized == token = "ckman" /\ UNCHANGED token

Reading == /\ Authorized
           /\ UNCHANGED <<users, unmade, pin, settings, blobs>>

EnumerateRps ==
    /\ pc = "enumerate"
    /\ Reading
    /\ unread' = Made
    /\ Go("read") /\ UNCHANGED <<info, rows, target>>

EnumerateCredentials(c) ==
    /\ pc = "read"
    /\ c \in unread /\ c \in Made
    /\ Reading
    /\ unread' = unread \ {c}
    /\ rows' = [d \in DOMAIN rows \cup {c} |-> IF d = c THEN users[c] ELSE rows[d]]
    /\ Go("read") /\ UNCHANGED <<info, target>>

(* Mutant: of several matches one is taken.                                 *)
SelectedAny(hits) == hits # {}

(* The query is a prefix; it must match one row.                            *)
Selected(hits) == \E c \in hits : hits = {c}

EndOfList ==
    /\ pc = "read" /\ unread = {} /\ job.op = "list"
    /\ End
    /\ UNCHANGED authenticator

Select ==
    LET hits == DOMAIN rows \cap job.query IN
    /\ pc = "read" /\ unread = {} /\ job.op \in {"delete", "update-user"}
    /\ \/ /\ Selected(hits)
          /\ target' \in hits
          /\ \E force \in BOOLEAN : Go(IF force THEN "send" ELSE "confirm")
          /\ UNCHANGED <<info, unread, rows>>
       \/ /\ ~Selected(hits)
          /\ End
    /\ UNCHANGED authenticator

Confirm ==
    /\ pc = "confirm" /\ job.op # "write-blobs"
    /\ \/ Go("send") /\ UNCHANGED <<info, unread, rows, target>>
       \/ End
    /\ UNCHANGED authenticator

-----------------------------------------------------------------------------
(* The request that changes something.  Whether its answer arrives makes no *)
(* difference to anything but the message printed.                          *)

DeleteCredential ==
    /\ pc = "send" /\ job.op = "delete"
    /\ Authorized
    /\ target \in Made
    /\ users' = [c \in Made \ {target} |-> users[c]]
    /\ End
    /\ UNCHANGED <<unmade, pin, settings, blobs>>

(* Mutant: a field that was not given is left out, which clears it.         *)
RenamedGivenOnly(row, name, display) ==
    [name |-> IF name = None THEN Empty ELSE name,
     display |-> IF display = None THEN Empty ELSE display]

(* The whole user entity is replaced; fields not given keep the value read. *)
Renamed(row, name, display) ==
    [name |-> IF name = None THEN row.name ELSE name,
     display |-> IF display = None THEN row.display ELSE display]

UpdateUserInformation ==
    /\ pc = "send" /\ job.op = "update-user"
    /\ Authorized
    /\ target \in Made
    /\ users' = [users EXCEPT ![target] = Renamed(rows[target], job.name, job.display)]
    /\ End
    /\ UNCHANGED <<unmade, pin, settings, blobs>>

ToggleAlwaysUv ==
    /\ pc = "send" /\ job.op = "toggle-always-uv"
    /\ Authorized
    /\ alwaysUv' = ~alwaysUv
    /\ End
    /\ UNCHANGED <<users, unmade, pin, minimum, longTouch, blobs>>

(* Persistent: only a reset clears it.                                      *)
EnableLongTouchForReset ==
    /\ pc = "send" /\ job.op = "enable-long-touch"
    /\ Authorized
    /\ longTouch' = TRUE
    /\ End
    /\ UNCHANGED <<users, unmade, pin, minimum, alwaysUv, blobs>>

(* force-change sends the minimum it has read, with the flag.  The          *)
(* authenticator never lowers its minimum.                                  *)
NewMinimum == IF job.op = "force-change" THEN info.minimum ELSE job.length

SetMinPinLength ==
    /\ pc = "send" /\ job.op \in {"set-min-length", "force-change"}
    /\ Authorized
    /\ NewMinimum >= minimum
    /\ minimum' = NewMinimum
    /\ End
    /\ UNCHANGED <<users, unmade, pin, alwaysUv, longTouch, blobs>>

(* No token is involved: the request is refused unless the device has no    *)
(* PIN, or the current one is right.  A new PIN ends every token.           *)
SetPin ==
    /\ pc = "send" /\ job.op \in NewPinOps
    /\ IF job.op = "set-pin" THEN pin = None ELSE pin = job.old
    /\ PinLength[job.new] >= minimum
    /\ pin' = job.new /\ token' = "none"
    /\ End
    /\ UNCHANGED <<users, unmade, settings, blobs>>

(* The array is replaced as a whole; without a token the device accepts it  *)
(* only while it has no PIN.                                                *)
WriteBlobs ==
    /\ pc = "send" /\ job.op = "write-blobs"
    /\ IF info.clientPin THEN Authorized ELSE pin = None /\ UNCHANGED token
    /\ blobs' = job.array
    /\ End
    /\ UNCHANGED <<users, unmade, pin, settings>>

(* Requests that change nothing.                                            *)
ReadBlobs ==
    /\ pc = "send" /\ job.op = "read-blobs"
    /\ End
    /\ UNCHANGED authenticator

TouchTest ==
    /\ pc = "send" /\ job.op = "touch-test"
    /\ End
    /\ UNCHANGED authenticator

Cleared ==
    /\ users' = NoRows /\ pin' = None
    /\ minimum' = 4 /\ alwaysUv' = FALSE /\ longTouch' = FALSE
    /\ blobs' = None /\ token' = "none"
    /\ UNCHANGED unmade

Reset ==
    /\ pc = "send" /\ job.op = "reset"
    /\ Cleared
    /\ End

-----------------------------------------------------------------------------
(* Another application on the same authenticator.                           *)

OtherToken ==
    /\ pin # None
    /\ token' \in {"other", "none"}     \* or the token in use expires
    /\ UNCHANGED <<users, unmade, pin, settings, blobs, command>>

OtherCredential(c) ==
    /\ token = "other"
    /\ \/ /\ c \in unmade
          /\ unmade' = unmade \ {c}
          /\ \E u \in User : users' = [d \in Made \cup {c} |-> IF d = c THEN u ELSE users[d]]
       \/ /\ c \in Made
          /\ users' = [d \in Made \ {c} |-> users[d]]
          /\ UNCHANGED unmade
       \/ /\ c \in Made
          /\ \E u \in User : users' = [users EXCEPT ![c] = u]
          /\ UNCHANGED unmade
    /\ UNCHANGED <<pin, settings, blobs, token, command>>

OtherConfig ==
    /\ token = "other"
    /\ \/ alwaysUv' = ~alwaysUv /\ UNCHANGED <<minimum, longTouch, blobs>>
       \/ longTouch' = TRUE /\ UNCHANGED <<minimum, alwaysUv, blobs>>
       \/ /\ minimum' \in {n \in Minimums : n >= minimum}
          /\ UNCHANGED <<alwaysUv, longTouch, blobs>>
       \/ blobs' \in Arrays /\ UNCHANGED settings
    /\ UNCHANGED <<users, unmade, pin, token, command>>

OtherPin(new) ==
    /\ PinLength[new] >= minimum
    /\ pin' = new /\ token' = "none"
    /\ UNCHANGED <<users, unmade, settings, blobs, command>>

OtherReset == Cleared /\ UNCHANGED command

-----------------------------------------------------------------------------
Commands ==
    [op : {"list", "toggle-always-uv", "enable-long-touch", "force-change", "verify-pin",
           "read-blobs", "touch-test", "reset"}]
    \cup [op : {"write-blobs"}, array : Arrays]
    \cup [op : {"delete"}, query : SUBSET Creds]
    \cup {j \in [op : {"update-user"}, query : SUBSET Creds,
                 name : Fields \cup {None}, display : Fields \cup {None}] :
             <<j.name, j.display>> # <<None, None>>}
    \cup [op : {"set-min-length"}, length : Minimums]
    \cup [op : {"set-pin"}, new : Pins]
    \cup [op : {"change-pin"}, old : Pins, new : Pins]

Next ==
    \/ \E j \in Commands : Start(j)
    \/ Abort \/ GetInfo \/ EnterNewPin \/ ConfirmWrite \/ \E p \in Pins : GetToken(p)
    \/ EnumerateRps \/ \E c \in Creds : EnumerateCredentials(c)
    \/ EndOfList \/ Select \/ Confirm
    \/ DeleteCredential \/ UpdateUserInformation \/ ToggleAlwaysUv
    \/ EnableLongTouchForReset \/ SetMinPinLength \/ SetPin
    \/ WriteBlobs \/ ReadBlobs \/ TouchTest \/ Reset
    \/ OtherToken \/ \E c \in Creds : OtherCredential(c)
    \/ OtherConfig \/ \E p \in Pins : OtherPin(p)
    \/ OtherReset

Spec == Init /\ [][Next]_vars

-----------------------------------------------------------------------------
(* Properties. *)

Completes == /\ pc' = "read" /\ unread' = {}
             /\ pc = "enumerate" \/ unread # {}

(* The list is not torn: when the last credential has been read, the rows   *)
(* are what the authenticator holds at that moment, although each was read  *)
(* by a request of its own and other applications may act in between.       *)
ListIsSnapshot == [][Completes => rows' = users']_vars

Changes == /\ pc = "send" /\ pc' = "idle"
           /\ job.op \in {"delete", "update-user"} /\ users' # users

(* A credential is deleted or renamed only if, at that moment, the query    *)
(* matches no other credential and its user is the one that the             *)
(* confirmation showed.                                                     *)
ChangedAsShown ==
    [][Changes => /\ Made \cap job.query = {target}
                  /\ users[target] = rows[target]]_vars

(* update-user: "fields not given keep their current values"                *)
(* (commands/fido.rs:175), whoever else has renamed the credential before.  *)
OtherFieldsKept ==
    [][Changes /\ job.op = "update-user" =>
          /\ job.name = None => users'[target].name = users[target].name
          /\ job.display = None => users'[target].display = users[target].display]_vars
=============================================================================
