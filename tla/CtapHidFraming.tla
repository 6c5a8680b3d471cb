--------------------------- MODULE CtapHidFraming ---------------------------
(***************************************************************************)
(* CTAPHID message framing (ckman-transport/src/ctaphid.rs): frame_message *)
(* splits a payload into one initialization report and continuation        *)
(* reports, MessageDecoder::push puts a message together again.            *)
(*                                                                         *)
(* A payload is a sequence of opaque bytes.  A report carries a full slice *)
(* of it, zero-padded (Pad) at the end.  The behaviour below is one        *)
(* message sent through frame_message into a fresh decoder, report by      *)
(* report, as `request` does in each direction.                            *)
(***************************************************************************)
EXTENDS Naturals, Sequences

CONSTANTS
    INIT_PAYLOAD,   \* payload bytes of an initialization report (57)
    CONT_PAYLOAD,   \* payload bytes of a continuation report (59)
    MAX_SEQ,        \* largest continuation sequence number (127)
    Pad,            \* the zero that fills a short report
    Commands        \* the command bytes the decoder knows

ASSUME FramingAssumption ==
    /\ INIT_PAYLOAD \in Nat \ {0}
    /\ CONT_PAYLOAD \in Nat \ {0}
    /\ MAX_SEQ \in Nat
    /\ {"init", "cbor", "error", "keepalive"} \subseteq Commands

MAX_MESSAGE_LEN == INIT_PAYLOAD + (MAX_SEQ + 1) * CONT_PAYLOAD

Least(a, b) == IF a <= b THEN a ELSE b

-----------------------------------------------------------------------------
(* frame_message. *)

\* The bytes of payload after the first "from", padded to size.
Slice(payload, from, size) ==
    [i \in 1..size |-> IF from + i <= Len(payload) THEN payload[from + i] ELSE Pad]

\* Mutant: the bytes of the initialization report are sent again.
OffsetFromStart(seq) == seq * CONT_PAYLOAD

\* Where the payload of continuation report number seq starts.
Offset(seq) == INIT_PAYLOAD + seq * CONT_PAYLOAD

InitReport(cid, cmd, payload) ==
    [cid |-> cid, init |-> TRUE, tag |-> cmd, len |-> Len(payload),
     data |-> Slice(payload, 0, INIT_PAYLOAD)]

\* A sequence number above MAX_SEQ has the bit that marks an initialization
\* report.
ContReport(cid, payload, seq) ==
    [cid |-> cid, init |-> seq > MAX_SEQ, tag |-> seq, len |-> 0,
     data |-> Slice(payload, Offset(seq), CONT_PAYLOAD)]

TooLarge(payload) == Len(payload) > MAX_MESSAGE_LEN

ContCount(n) ==
    IF n <= INIT_PAYLOAD THEN 0 ELSE (n - INIT_PAYLOAD - 1) \div CONT_PAYLOAD + 1

ReportCount(n) == ContCount(n) + 1
Report(cid, cmd, payload, k) ==
    IF k = 1 THEN InitReport(cid, cmd, payload) ELSE ContReport(cid, payload, k - 2)

frame_message(cid, cmd, payload) ==
    [k \in 1..ReportCount(Len(payload)) |-> Report(cid, cmd, payload, k)]

-----------------------------------------------------------------------------
(* MessageDecoder::push: the partial message left behind, and the outcome. *)

NoPartial == [cmd |-> "none", expected |-> 0, buf |-> << >>, next_seq |-> 0]

Pushed(active, out, cmd, body) ==
    [active |-> active, out |-> out, cmd |-> cmd, body |-> body]
Rejected(out) == Pushed(NoPartial, out, "none", << >>)

Progress(partial) ==
    IF Len(partial.buf) = partial.expected
    THEN Pushed(NoPartial, "message", partial.cmd, partial.buf)
    ELSE Pushed(partial, "more", "none", << >>)

\* An initialization report drops any partial message.
PushInit(report) ==
    IF report.tag \notin Commands \/ report.len > MAX_MESSAGE_LEN
    THEN Rejected("malformed")
    ELSE Progress([cmd |-> report.tag, expected |-> report.len, next_seq |-> 0,
                   buf |-> SubSeq(report.data, 1, Least(report.len, INIT_PAYLOAD))])

PushCont(active, report) ==
    IF active = NoPartial THEN Rejected("malformed")
    ELSE IF report.tag # active.next_seq THEN Rejected("invalid_seq")
    ELSE LET remaining == active.expected - Len(active.buf) IN
         Progress([cmd |-> active.cmd, expected |-> active.expected,
                   buf |-> active.buf
                             \o SubSeq(report.data, 1, Least(remaining, CONT_PAYLOAD)),
                   next_seq |-> active.next_seq + 1])

push(active, report) ==
    IF report.init THEN PushInit(report) ELSE PushCont(active, report)

=============================================================================
