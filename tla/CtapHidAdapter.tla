--------------------------- MODULE CtapHidAdapter ---------------------------
(***************************************************************************)
(* FIDO operations over CTAPHID (ckman-core/src/fido.rs, CtapHidAdapter):  *)
(* the ISO 7816 envelope canokey-ctap speaks, unwrapped.  A CTAP message   *)
(* arrives as a chain of APDUs and leaves as one CBOR request, which        *)
(* CtapHidTransfer carries to the authenticator.  SELECT is answered        *)
(* locally.                                                                *)
(*                                                                         *)
(* The chain buffer outlives an operation: what one operation leaves in it *)
(* must never become part of the next one's message.                       *)
(***************************************************************************)
EXTENDS CtapHidTransfer

CONSTANTS
    Operations,         \* FIDO operations, each driven once
    MessageLens,        \* lengths their CTAP messages may have
    APDU_DATA,          \* most data bytes one APDU carries
    NoOperation         \* no operation is being driven

Message(o, n) == [i \in 1..n |-> <<o, i>>]

ASSUME AdapterAssumption ==
    /\ APDU_DATA \in Nat \ {0}
    /\ MessageLens \subseteq Nat \ {0}
    /\ NoOperation \notin Operations
    /\ \A o \in Operations, n \in MessageLens : Message(o, n) \in Payloads

VARIABLES
    pending,    \* the adapter's chain buffer
    op,         \* the operation being driven
    len, done,  \* the length of its message, and how much the driver has passed on
    dirty,      \* an operation was dropped between two APDUs of a chain
    spent       \* operations that have ended

driver == <<op, len, done, dirty, spent>>
adapterVars == <<pending, driver, transferVars>>

AdapterInit ==
    /\ pending = << >>
    /\ op = NoOperation /\ len = 0 /\ done = 0
    /\ dirty = FALSE
    /\ spent = {}
    /\ TransferInit

-----------------------------------------------------------------------------
(* The driver. *)

EndOperation ==
    /\ op' = NoOperation /\ len' = 0 /\ done' = 0
    /\ spent' = spent \cup {op}

\* Mutant: SELECT is answered without touching the chain.
SelectKeepingChain == pending' = pending

\* exchange(SELECT) discards an incomplete chain and never reaches the wire.
Select == pending' = << >>

\* An operation may rely on the selection of the one before, but not after an
\* operation was dropped.
BeginOperation(o, n, selecting) ==
    /\ op = NoOperation
    /\ o \notin spent
    /\ dirty => selecting
    /\ op' = o /\ len' = n /\ done' = 0
    /\ dirty' = FALSE
    /\ IF selecting THEN Select ELSE UNCHANGED pending
    /\ UNCHANGED <<spent, transferVars>>

Requesting == done = len

\* The caller drops the operation instead of driving it to its end.
Drop ==
    /\ op # NoOperation /\ ~Requesting
    /\ dirty' = TRUE
    /\ EndOperation
    /\ UNCHANGED <<pending, transferVars>>

-----------------------------------------------------------------------------
(* exchange: any failure clears the chain. *)

FailExchange ==
    /\ pending' = << >>
    /\ UNCHANGED dirty
    /\ EndOperation

\* An APDU the adapter does not accept: too short, not a CTAP message, or Lc
\* and length at odds; or a request that fails or is out of time, with any
\* part of its reports written.
Reject ==
    /\ op # NoOperation
    /\ FailExchange
    /\ UNCHANGED transferVars

TooLong(data) == Len(data) > MAX_MESSAGE_LEN - Len(pending)

NextData(n) == SubSeq(Message(op, len), done + 1, done + n)

\* A fragment with the chaining bit is only buffered; the last one takes the
\* chain out of the buffer and sends it as one request.
Fragment(n) ==
    LET data == NextData(n) IN
    /\ op # NoOperation /\ ~Requesting
    /\ n <= len - done
    /\ \/ /\ TooLong(data)
          /\ FailExchange
          /\ UNCHANGED transferVars
       \/ /\ ~TooLong(data)
          /\ done' = done + n
          /\ IF done + n < len
             THEN pending' = pending \o data /\ UNCHANGED transferVars
             ELSE pending' = << >> /\ NewRequest(pending \o data)
          /\ UNCHANGED <<op, len, dirty, spent>>

\* The reports of the request, and the response.
WriteRequest == op # NoOperation /\ Requesting /\ Feed /\ UNCHANGED <<pending, driver>>

Respond ==
    /\ op # NoOperation /\ Requesting
    /\ outcome = "message"
    /\ EndOperation
    /\ UNCHANGED <<pending, dirty, transferVars>>

AdapterNext ==
    \/ \E o \in Operations, n \in MessageLens, selecting \in BOOLEAN : BeginOperation(o, n, selecting)
    \/ \E n \in 1..APDU_DATA : Fragment(n)
    \/ WriteRequest \/ Respond
    \/ Reject \/ Drop

AdapterSpec == AdapterInit /\ [][AdapterNext]_adapterVars

-----------------------------------------------------------------------------
\* What the authenticator puts together from the reports of a request is the
\* message of the operation in progress, to the byte: nothing of an operation
\* that failed or was dropped between two APDUs, and nothing of a request
\* that was given up between two reports.
RequestsWhole ==
    op # NoOperation /\ Requesting /\ outcome = "message" => received = Message(op, len)
=============================================================================
