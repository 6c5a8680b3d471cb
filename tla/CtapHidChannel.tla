--------------------------- MODULE CtapHidChannel ---------------------------
(***************************************************************************)
(* Several applications using one authenticator over CTAPHID               *)
(* (ckman-transport/src/ctaphid.rs, CtapHidChannel).                       *)
(*                                                                         *)
(* The HID interface is not exclusive: every open handle receives every    *)
(* report the authenticator sends, and reports of different applications   *)
(* reach it interleaved.  An application allocates a channel with a        *)
(* broadcast INIT, then sends requests on it, one at a time.  A failed     *)
(* call ends the command, and with it the use of the channel               *)
(* (FidoLink::run); the answer may still come, perhaps while the next      *)
(* command of the same user is running.  A handle's report queue is        *)
(* finite, so reports can be lost.                                         *)
(***************************************************************************)
EXTENDS CtapHidFraming, FiniteSets

CONSTANTS
    Apps,           \* application processes, ckman or not
    Requests,       \* CBOR requests, each sent once
    RequestLen,     \* bytes of a request
    ResponseLens,   \* possible numbers of bytes of a response
    BROADCAST_CID, NoCid, None, Failed,
    MaxCid,         \* bound: channels the authenticator hands out
    MaxLost,        \* bound: reports lost
    MaxQueue        \* bound: reports queued when a keepalive is sent

Cids == 1..MaxCid

VARIABLES
    pc,        \* "closed", "allocating", "open", "sending" or "requesting"
    cid,       \* the channel an application holds
    nonce,     \* of its last broadcast INIT
    req,       \* the request it is sending or waiting on
    toWrite,   \* reports of that request still to be written
    decoder,   \* its MessageDecoder
    inbox,     \* reports its handle has received and it has not read
    returned,  \* the body `request` returned, per request, or Failed
    assembly,  \* authenticator: the message it is assembling, and on which channel
    working,   \* authenticator: the command in progress
    response,  \* authenticator: its response to each request
    nextCid,   \* authenticator: the next channel to hand out
    lost       \* reports lost so far

app == <<pc, cid, nonce, req, toWrite, decoder, returned>>
authenticator == <<assembly, working, response, nextCid>>
vars == <<app, inbox, authenticator, lost>>

Ask(r) == [i \in 1..RequestLen |-> <<"ask", r, i>>]
Reply(r, n) == [i \in 1..n |-> <<"reply", r, i>>]
Bodies == {Reply(r, n) : r \in Requests, n \in ResponseLens}

\* No message is refused for its length, and an INIT response (17 bytes) fits
\* one report (57).
ASSUME ChannelAssumption ==
    /\ RequestLen \in 1..MAX_MESSAGE_LEN
    /\ ResponseLens \subseteq 0..MAX_MESSAGE_LEN
    /\ INIT_PAYLOAD >= 2
    /\ MaxCid \in Nat
    /\ NoCid \notin Cids /\ BROADCAST_CID \notin Cids /\ NoCid # BROADCAST_CID
    /\ None \notin Requests
    /\ None # Failed /\ None \notin Bodies /\ Failed \notin Bodies

NoAssembly == [cid |-> NoCid, active |-> NoPartial]
NoWork == [cid |-> NoCid, body |-> << >>]

Init ==
    /\ pc = [a \in Apps |-> "closed"]
    /\ cid = [a \in Apps |-> NoCid]
    /\ nonce = [a \in Apps |-> 0]
    /\ req = [a \in Apps |-> None]
    /\ toWrite = [a \in Apps |-> << >>]
    /\ decoder = [a \in Apps |-> NoPartial]
    /\ inbox = [a \in Apps |-> << >>]
    /\ returned = [r \in Requests |-> None]
    /\ assembly = NoAssembly
    /\ working = NoWork
    /\ response = [r \in Requests |-> None]
    /\ nextCid = 1
    /\ lost = 0

-----------------------------------------------------------------------------
(* The authenticator, as the framing layer relies on it: it reassembles one *)
(* message at a time, executes one command at a time, and reports a         *)
(* conflicting channel as busy.                                             *)

Send(reports) ==
    inbox' = [b \in Apps |-> IF pc[b] = "closed" THEN << >> ELSE inbox[b] \o reports]

DeviceError(c) == Send(frame_message(c, "error", << "code" >>))
Silent == UNCHANGED inbox

\* A complete message starts a command, unless one is running.
Begin(c, body) ==
    /\ assembly' = NoAssembly
    /\ IF working = NoWork
       THEN working' = [cid |-> c, body |-> body] /\ Silent
       ELSE UNCHANGED working /\ DeviceError(c)

DeviceReceive(report) ==
    LET pushed == push(assembly.active, report) IN
    /\ UNCHANGED <<response, nextCid>>
    /\ \/ /\ assembly.cid \notin {NoCid, report.cid}
          /\ UNCHANGED <<assembly, working>>
          /\ IF report.init THEN DeviceError(report.cid) ELSE Silent
       \/ /\ assembly.cid \in {NoCid, report.cid}
          /\ \/ /\ pushed.out = "message"
                /\ Begin(report.cid, pushed.body)
             \/ /\ pushed.out = "more"
                /\ assembly' = [cid |-> report.cid, active |-> pushed.active]
                /\ UNCHANGED working /\ Silent
             \/ /\ pushed.out \in {"malformed", "invalid_seq"}
                /\ assembly' = NoAssembly
                /\ UNCHANGED working /\ DeviceError(report.cid)

RequestOf(body) == CHOOSE r \in Requests : body = Ask(r)

DeviceAnswer ==
    /\ working # NoWork
    /\ \E n \in ResponseLens :
        LET r == RequestOf(working.body) IN
        /\ response' = [response EXCEPT ![r] = Reply(r, n)]
        /\ Send(frame_message(working.cid, "cbor", Reply(r, n)))
    /\ working' = NoWork
    /\ UNCHANGED <<app, assembly, nextCid, lost>>

DeviceFail ==
    /\ working # NoWork
    /\ DeviceError(working.cid)
    /\ working' = NoWork
    /\ UNCHANGED <<app, assembly, response, nextCid, lost>>

DeviceKeepalive ==
    /\ working # NoWork
    /\ \A a \in Apps : Len(inbox[a]) < MaxQueue
    /\ Send(frame_message(working.cid, "keepalive", << "status" >>))
    /\ UNCHANGED <<app, authenticator, lost>>

Lose(a) ==
    /\ lost < MaxLost
    /\ \E i \in 1..Len(inbox[a]) :
          inbox' = [inbox EXCEPT ![a] = SubSeq(@, 1, i - 1) \o SubSeq(@, i + 1, Len(@))]
    /\ lost' = lost + 1
    /\ UNCHANGED <<app, authenticator>>

-----------------------------------------------------------------------------
(* Ending a session: the channel and the handle's queue are dropped. *)

Fail(a) ==
    /\ pc' = [pc EXCEPT ![a] = "closed"]
    /\ cid' = [cid EXCEPT ![a] = NoCid]
    /\ req' = [req EXCEPT ![a] = None]
    /\ returned' = IF req[a] = None THEN returned
                   ELSE [returned EXCEPT ![req[a]] = Failed]
    /\ toWrite' = [toWrite EXCEPT ![a] = << >>]
    /\ decoder' = [decoder EXCEPT ![a] = NoPartial]
    /\ inbox' = [inbox EXCEPT ![a] = << >>]
    /\ UNCHANGED nonce

\* Mutant: the timeout applies to each report instead of the whole exchange.
TimeoutWhenQuiet(a) ==
    /\ pc[a] \in {"allocating", "requesting"}
    /\ inbox[a] = << >>
    /\ Fail(a)
    /\ UNCHANGED <<authenticator, lost>>

\* The deadline covers the whole call, however many reports arrive.
Timeout(a) ==
    /\ pc[a] \in {"allocating", "requesting"}
    /\ Fail(a)
    /\ UNCHANGED <<authenticator, lost>>

\* The command is done, an I/O error occurs, or the process dies.
Close(a) ==
    /\ pc[a] # "closed"
    /\ Fail(a)
    /\ UNCHANGED <<authenticator, lost>>

-----------------------------------------------------------------------------
(* CtapHidChannel::allocate. *)

\* The INIT fits one report; the authenticator resynchronises on it and
\* answers with the nonce and a channel of its choice.  Nonces are random,
\* here simply all different.
Allocate(a) ==
    /\ pc[a] = "closed"
    /\ nextCid <= MaxCid
    /\ pc' = [pc EXCEPT ![a] = "allocating"]
    /\ nonce' = [nonce EXCEPT ![a] = nextCid]
    /\ inbox' = [b \in Apps |-> IF pc[b] = "closed" /\ b # a THEN << >>
                   ELSE inbox[b] \o frame_message(BROADCAST_CID, "init",
                                      << <<"nonce", nextCid>>, <<"cid", nextCid>> >>)]
    /\ assembly' = NoAssembly
    /\ nextCid' = nextCid + 1
    /\ UNCHANGED <<cid, req, toWrite, decoder, returned, working, response, lost>>

Read(a) ==
    /\ inbox[a] # << >>
    /\ inbox' = [inbox EXCEPT ![a] = Tail(@)]

\* Mutant: any INIT response is taken for ours.
AnyInitResponse(a, pushed) ==
    /\ pushed.cmd = "init"
    /\ Len(pushed.body) >= 2

\* Replies to another application's INIT carry another nonce.
OurInitResponse(a, pushed) ==
    /\ pushed.cmd = "init"
    /\ Len(pushed.body) >= 2
    /\ pushed.body[1] = <<"nonce", nonce[a]>>

\* An ERROR, or a response to INIT too short to hold a nonce and a channel.
Refusal(pushed) ==
    \/ pushed.cmd = "error"
    \/ pushed.cmd = "init" /\ Len(pushed.body) < 2

OpenChannel(a, c) ==
    /\ pc' = [pc EXCEPT ![a] = "open"]
    /\ cid' = [cid EXCEPT ![a] = c]

\* Reports of other channels, foreign INIT responses and other messages are
\* skipped; a refusal or a report out of place fails the call.
ReadAllocating(a) ==
    LET report == Head(inbox[a])
        pushed == push(decoder[a], report)
    IN
    /\ pc[a] = "allocating"
    /\ inbox[a] # << >>
    /\ \/ /\ report.cid # BROADCAST_CID
          /\ Read(a)
          /\ UNCHANGED app
       \/ /\ report.cid = BROADCAST_CID
          /\ pushed.out \in {"malformed", "invalid_seq"} \/ Refusal(pushed)
          /\ Fail(a)
       \/ /\ report.cid = BROADCAST_CID
          /\ pushed.out \in {"more", "message"} /\ ~Refusal(pushed)
          /\ Read(a)
          /\ IF OurInitResponse(a, pushed)
             THEN /\ OpenChannel(a, pushed.body[2][2])
                  /\ decoder' = [decoder EXCEPT ![a] = NoPartial]
             ELSE /\ decoder' = [decoder EXCEPT ![a] = pushed.active]
                  /\ UNCHANGED <<pc, cid>>
          /\ UNCHANGED <<nonce, req, toWrite, returned>>
    /\ UNCHANGED <<authenticator, lost>>

-----------------------------------------------------------------------------
(* CtapHidChannel::request. *)

Request(a, r) ==
    /\ pc[a] = "open"
    /\ returned[r] = None /\ \A b \in Apps : req[b] # r
    /\ pc' = [pc EXCEPT ![a] = "sending"]
    /\ req' = [req EXCEPT ![a] = r]
    /\ toWrite' = [toWrite EXCEPT ![a] = frame_message(cid[a], "cbor", Ask(r))]
    /\ UNCHANGED <<cid, nonce, decoder, inbox, returned, authenticator, lost>>

\* The decoder is fresh, and the deadline starts, after the last report.
WriteReport(a) ==
    /\ pc[a] = "sending"
    /\ toWrite' = [toWrite EXCEPT ![a] = Tail(@)]
    /\ IF Tail(toWrite[a]) = << >>
       THEN /\ pc' = [pc EXCEPT ![a] = "requesting"]
            /\ decoder' = [decoder EXCEPT ![a] = NoPartial]
       ELSE UNCHANGED <<pc, decoder>>
    /\ DeviceReceive(Head(toWrite[a]))
    /\ UNCHANGED <<cid, nonce, req, returned, lost>>

\* Mutant: traffic of other channels is not told apart.
OnChannelAny(a, report) == TRUE

OnChannel(a, report) == report.cid = cid[a]

\* Traffic of other channels is skipped; a KEEPALIVE goes to the callback and
\* keeps the call waiting; the response must carry the request's command.
ReadResponse(a) ==
    LET report == Head(inbox[a])
        pushed == push(decoder[a], report)
    IN
    /\ pc[a] = "requesting"
    /\ inbox[a] # << >>
    /\ \/ /\ ~OnChannel(a, report)
          /\ Read(a)
          /\ UNCHANGED app
       \/ /\ OnChannel(a, report)
          /\ \/ /\ pushed.out = "more" \/ pushed.cmd = "keepalive"
                /\ Read(a)
                /\ decoder' = [decoder EXCEPT ![a] = pushed.active]
                /\ UNCHANGED <<pc, cid, nonce, req, toWrite, returned>>
             \/ /\ pushed.cmd = "cbor"
                /\ Read(a)
                /\ pc' = [pc EXCEPT ![a] = "open"]
                /\ req' = [req EXCEPT ![a] = None]
                /\ returned' = [returned EXCEPT ![req[a]] = pushed.body]
                /\ decoder' = [decoder EXCEPT ![a] = NoPartial]
                /\ UNCHANGED <<cid, nonce, toWrite>>
             \/ /\ pushed.out # "more"
                /\ pushed.cmd \notin {"keepalive", "cbor"}
                /\ Fail(a)
    /\ UNCHANGED <<authenticator, lost>>

-----------------------------------------------------------------------------
Next ==
    \/ \E a \in Apps :
        \/ Allocate(a) \/ ReadAllocating(a)
        \/ \E r \in Requests : Request(a, r)
        \/ WriteReport(a) \/ ReadResponse(a)
        \/ Timeout(a) \/ Close(a) \/ Lose(a)
    \/ DeviceAnswer \/ DeviceFail \/ DeviceKeepalive

Spec == Init /\ [][Next]_vars

\* The write of a report returns, and the deadline of a call passes.
FairSpec == Spec /\ \A a \in Apps : WF_vars(WriteReport(a)) /\ WF_vars(Timeout(a))

-----------------------------------------------------------------------------
\* No two applications ever hold the same channel, although each sees the
\* other's INIT responses (the nonce check of `allocate`).
ChannelsDistinct ==
    \A a, b \in Apps : a # b /\ cid[a] # NoCid => cid[a] # cid[b]

\* The authenticator executes only what an application framed, never a
\* splice of two requests.
WholeRequests == working # NoWork => \E r \in Requests : working.body = Ask(r)

\* `request` implements its contract: executed at most once, answered with
\* its own complete response or failed.
Status == [r \in Requests |->
    IF \E a \in Apps : req[a] = r THEN "asked"
    ELSE IF returned[r] = None THEN "unsent"
    ELSE IF returned[r] = Failed THEN "failed" ELSE "answered"]
Given == [r \in Requests |-> IF returned[r] = Failed THEN None ELSE returned[r]]

Contract == INSTANCE AuthenticatorExchange WITH status <- Status, returned <- Given
ExchangeContract == Contract!Spec

\* A call on the channel ends even if the authenticator never stops sending
\* keepalives.
CallsEnd ==
    \A a \in Apps :
        pc[a] \in {"allocating", "sending", "requesting"} ~> pc[a] \in {"open", "closed"}
=============================================================================
