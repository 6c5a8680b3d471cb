--------------------------- MODULE CtapHidTransfer ---------------------------
(***************************************************************************)
(* CTAPHID requests, one after another, on one channel: frame_message on    *)
(* the sender's side, a MessageDecoder fed report by report on the          *)
(* receiver's (ckman-transport/src/ctaphid.rs).  A request may be given up  *)
(* between two reports, and leaves the decoder with part of a message.      *)
(***************************************************************************)
EXTENDS CtapHidFraming

CONSTANTS
    Bytes,      \* what a payload is made of
    Payloads    \* the messages to send

ASSUME PayloadAssumption == Payloads \subseteq Seq(Bytes)

VARIABLES
    payload,    \* the message being sent
    fed,        \* reports the decoder has been given
    active,     \* the decoder's partial message
    outcome,    \* what the last push, or frame_message, returned; "idle" before
    received    \* the payload the decoder returned

transferVars == <<payload, fed, active, outcome, received>>

TransferInit ==
    /\ payload = << >>
    /\ fed = 0
    /\ active = NoPartial
    /\ outcome = "idle"
    /\ received = << >>

\* A new request, whatever became of the one before.
NewRequest(p) ==
    /\ payload' = p
    /\ fed' = 0
    /\ outcome' = "none"
    /\ received' = << >>
    /\ UNCHANGED active

Refuse ==
    /\ fed = 0
    /\ outcome = "none"
    /\ TooLarge(payload)
    /\ outcome' = "too_large"
    /\ UNCHANGED <<payload, fed, active, received>>

Feed ==
    LET pushed == push(active, Report(0, "cbor", payload, fed + 1))
    IN  /\ ~TooLarge(payload)
        /\ outcome \in {"none", "more"}
        /\ fed < ReportCount(Len(payload))
        /\ fed' = fed + 1
        /\ active' = pushed.active
        /\ outcome' = pushed.out
        /\ received' = pushed.body
        /\ UNCHANGED payload

TransferNext ==
    \/ \E p \in Payloads : NewRequest(p)
    \/ Refuse
    \/ Feed

TransferSpec == TransferInit /\ [][TransferNext]_transferVars

-----------------------------------------------------------------------------
\* A message that is not refused for its length arrives: the decoder rejects
\* none of its reports, returns the payload without padding, and returns it
\* exactly with the last report.
RoundTrip ==
    /\ outcome \notin {"malformed", "invalid_seq"}
    /\ outcome = "message" => received = payload
    /\ outcome = "message" <=> fed = ReportCount(Len(payload))
=============================================================================
