------------------------ MODULE CtapHidProofs --------------------------------
(* What is proved of ckman-transport/src/ctaphid.rs and of the               *)
(* CtapHidAdapter of ckman-core/src/fido.rs, for every report size, sequence *)
(* space, payload, number of applications and number of lost reports:        *)
(* frame_message and MessageDecoder::push are inverse to each other, a       *)
(* chained message is never spliced with another, and applications that share*)
(* an authenticator never take each other's channel or answer.               *)
EXTENDS CtapHidAdapter, CtapHidChannel, SequenceTheorems, TLAPS

-----------------------------------------------------------------------------
(* Arithmetic of report numbers. *)

\* Multiples grow with their factor.
LEMMA TimesMonotonic ==
    ASSUME NEW a \in Nat, NEW b \in Nat, NEW c \in Nat, a <= b
    PROVE  c * a <= c * b
  BY SMT

\* What integer division rounds down to.
LEMMA Division ==
    ASSUME NEW a \in Nat, NEW c \in Nat \ {0}
    PROVE  /\ a \div c \in Nat
           /\ c * (a \div c) <= a
           /\ a < c * (a \div c) + c
  BY Z3T(20)

\* Continuations start behind the first report of a message.
LEMMA OffsetType == \A seq \in Nat : Offset(seq) \in Nat /\ Offset(seq) >= INIT_PAYLOAD
  BY FramingAssumption, SMT DEF Offset

\* Each continuation advances the payload by CONT_PAYLOAD.
LEMMA OffsetNext == \A seq \in Nat : Offset(seq + 1) = Offset(seq) + CONT_PAYLOAD
  BY FramingAssumption, SMT DEF Offset

\* Continuation seq exists exactly when payload is left for it.
LEMMA ContCountCorrect ==
    ASSUME NEW n \in Nat, NEW seq \in Nat
    PROVE  /\ ContCount(n) \in Nat
           /\ seq < ContCount(n) <=> Offset(seq) < n
<1> USE FramingAssumption
<1>1. CASE n <= INIT_PAYLOAD
  BY <1>1, OffsetType, SMT DEF ContCount
<1>2. CASE n > INIT_PAYLOAD
  <2> DEFINE a == n - INIT_PAYLOAD - 1
             q == a \div CONT_PAYLOAD
  <2>1. a \in Nat
    BY <1>2, SMT
  <2>2. q \in Nat /\ CONT_PAYLOAD * q <= a /\ a < CONT_PAYLOAD * q + CONT_PAYLOAD
    BY <2>1, Division
  <2>3. ContCount(n) = q + 1
    BY <1>2, SMT DEF ContCount
  <2> HIDE DEF q
  <2>4. CASE seq <= q
    <3>1. CONT_PAYLOAD * seq <= CONT_PAYLOAD * q
      BY <2>2, <2>4, TimesMonotonic
    <3>2. seq * CONT_PAYLOAD = CONT_PAYLOAD * seq
      BY SMT
    <3>3. CONT_PAYLOAD * seq \in Nat /\ CONT_PAYLOAD * q \in Nat
      BY <2>2, SMT
    <3> HIDE DEF a
    <3>4. CONT_PAYLOAD * seq <= a
      BY <3>1, <3>3, <2>1, <2>2, SMT
    <3>5. seq * CONT_PAYLOAD <= n - INIT_PAYLOAD - 1
      BY <3>2, <3>4 DEF a
    <3>6. seq * CONT_PAYLOAD \in Nat
      BY <3>2, <3>3
    <3> QED
      BY <2>2, <2>3, <2>4, <3>5, <3>6, SMT DEF Offset
  <2>5. CASE seq > q
    <3>1. q + 1 <= seq /\ q + 1 \in Nat
      BY <2>2, <2>5, SMT
    <3>2. CONT_PAYLOAD * (q + 1) <= CONT_PAYLOAD * seq
      BY <3>1, TimesMonotonic
    <3>3. CONT_PAYLOAD * (q + 1) = CONT_PAYLOAD * q + CONT_PAYLOAD
      BY <2>2, SMT
    <3>4. seq * CONT_PAYLOAD = CONT_PAYLOAD * seq
      BY SMT
    <3>5. /\ CONT_PAYLOAD * seq \in Nat
          /\ CONT_PAYLOAD * q \in Nat
      BY <2>2, SMT
    <3>6. seq * CONT_PAYLOAD > a
      BY <2>1, <2>2, <3>2, <3>3, <3>4, <3>5, SMT
    <3> QED
      BY <2>2, <2>3, <2>5, <3>4, <3>5, <3>6, SMT DEF Offset
  <2> QED
    BY <2>2, <2>4, <2>5, SMT
<1> QED
  BY <1>1, <1>2, SMT

\* Payload left for continuation seq in a message of legal length means that
\* seq is a legal sequence number.
LEMMA SequenceNumberFits ==
    ASSUME NEW n \in Nat, n <= MAX_MESSAGE_LEN, NEW seq \in Nat, Offset(seq) < n
    PROVE  seq <= MAX_SEQ
<1> USE FramingAssumption
<1>1. SUFFICES ASSUME seq > MAX_SEQ PROVE FALSE
  BY SMT
<1>2. MAX_SEQ + 1 \in Nat /\ MAX_SEQ + 1 <= seq
  BY <1>1, SMT
<1>3. CONT_PAYLOAD * (MAX_SEQ + 1) <= CONT_PAYLOAD * seq
  BY <1>2, TimesMonotonic
<1>4. /\ CONT_PAYLOAD * (MAX_SEQ + 1) = (MAX_SEQ + 1) * CONT_PAYLOAD
      /\ CONT_PAYLOAD * seq = seq * CONT_PAYLOAD
  BY SMT
<1>5. (MAX_SEQ + 1) * CONT_PAYLOAD \in Nat /\ seq * CONT_PAYLOAD \in Nat
  BY SMT
<1> QED
  BY <1>3, <1>4, <1>5, SMT DEF Offset, MAX_MESSAGE_LEN

\* The longest message takes more than one report.
LEMMA MaxMessageLenType == MAX_MESSAGE_LEN \in Nat /\ INIT_PAYLOAD < MAX_MESSAGE_LEN
<1> USE FramingAssumption
<1>1. (MAX_SEQ + 1) * CONT_PAYLOAD \in Nat \ {0}
  BY SMT
<1> QED
  BY <1>1, SMT DEF MAX_MESSAGE_LEN

-----------------------------------------------------------------------------
(* Slices of a payload. *)

\* What the decoder takes from a report is the payload's next bytes.
LEMMA SliceIsSubSeq ==
    ASSUME NEW S, NEW p \in Seq(S), NEW from \in 0..Len(p), NEW size \in Nat,
           NEW take \in 0..size, from + take <= Len(p)
    PROVE  SubSeq(Slice(p, from, size), 1, take) = SubSeq(p, from + 1, from + take)
<1> DEFINE s == Slice(p, from, size)
<1>1. Len(p) \in Nat /\ from \in Nat /\ take \in Nat
  BY LenProperties
<1>2. \A i \in 1..take : s[i] = p[from + i] /\ p[from + i] \in S
  <2> SUFFICES ASSUME NEW i \in 1..take PROVE s[i] = p[from + i] /\ p[from + i] \in S
    OBVIOUS
  <2>1. i \in 1..size /\ from + i \in 1..Len(p)
    BY <1>1, SMT
  <2> QED
    BY <1>1, <2>1, ElementOfSeq, SMT DEF Slice
<1> HIDE DEF s
<1>3. /\ SubSeq(s, 1, take) \in Seq(S)
      /\ Len(SubSeq(s, 1, take)) = take
      /\ \A i \in 1..take : SubSeq(s, 1, take)[i] = p[from + i]
  BY <1>1, <1>2, SubSeqProperties, Z3
<1>4. \A i \in from + 1..from + take : p[i] \in S
  BY <1>1, ElementOfSeq, SMT
<1>5. /\ SubSeq(p, from + 1, from + take) \in Seq(S)
      /\ Len(SubSeq(p, from + 1, from + take)) = take
      /\ \A i \in 1..take : SubSeq(p, from + 1, from + take)[i] = p[from + i]
  BY <1>1, <1>4, SubSeqProperties, Z3
<1> QED
  BY <1>3, <1>5, SeqEqual, Z3 DEF s
\* The partial message after continuation seq - 1.
Partial(cmd, p, seq) ==
    [cmd |-> cmd, expected |-> Len(p), buf |-> SubSeq(p, 1, Offset(seq)),
     next_seq |-> seq]

\* Feeding report 1 to any decoder, and report k + 1 to the one that has seen
\* the first k.
LEMMA FirstPush ==
    ASSUME NEW S, NEW p \in Seq(S), Len(p) <= MAX_MESSAGE_LEN,
           NEW c, NEW cmd \in Commands, NEW held
    PROVE  push(held, Report(c, cmd, p, 1)) =
             IF Len(p) <= INIT_PAYLOAD THEN Pushed(NoPartial, "message", cmd, p)
             ELSE Pushed(Partial(cmd, p, 0), "more", "none", << >>)
<1> DEFINE report == InitReport(c, cmd, p)
           n == Least(Len(p), INIT_PAYLOAD)
           partial == [cmd |-> cmd, expected |-> Len(p), next_seq |-> 0,
                       buf |-> SubSeq(report.data, 1, n)]
<1>1. Len(p) \in Nat /\ n \in 0..INIT_PAYLOAD /\ n <= Len(p)
  BY FramingAssumption, LenProperties, SMT DEF Least
<1>2. push(held, Report(c, cmd, p, 1)) = Progress(partial)
  <2>1. /\ report.init = TRUE /\ report.tag = cmd /\ report.len = Len(p)
    BY DEF InitReport
  <2>2. ~(report.tag \notin Commands \/ report.len > MAX_MESSAGE_LEN)
    BY <2>1, <1>1, FramingAssumption, MaxMessageLenType, SMT
  <2>3. Report(c, cmd, p, 1) = report
    BY DEF Report
  <2> HIDE DEF report
  <2> QED
    BY <2>1, <2>2, <2>3, Zenon DEF push, PushInit
<1>3. SubSeq(report.data, 1, n) = SubSeq(p, 1, n)
  <2>1. report.data = Slice(p, 0, INIT_PAYLOAD)
    BY DEF InitReport
  <2>2. SubSeq(Slice(p, 0, INIT_PAYLOAD), 1, n) = SubSeq(p, 0 + 1, 0 + n)
    <3>1. 0 \in 0..Len(p) /\ 0 + n <= Len(p) /\ INIT_PAYLOAD \in Nat
      BY <1>1, FramingAssumption, SMT
    <3> HIDE DEF n
    <3> QED
      BY <1>1, <3>1, SliceIsSubSeq, Zenon
  <2> HIDE DEF report, n
  <2> QED
    BY <1>1, <2>1, <2>2, SMT
<1>4. Len(SubSeq(p, 1, n)) = n
  <2>1. \A i \in 1..n : p[i] \in S
    BY <1>1, ElementOfSeq, SMT
  <2> HIDE DEF n
  <2> QED
    BY <2>1, <1>1, SubSeqProperties, SMT
<1>5. CASE Len(p) <= INIT_PAYLOAD
  <2>1. n = Len(p)
    BY <1>5 DEF Least
  <2>2. SubSeq(p, 1, n) = p
    BY <2>1, SubSeqFull
  <2>3. partial.buf = p /\ partial.expected = Len(p) /\ partial.cmd = cmd
    BY <1>3, <2>2
  <2> HIDE DEF partial
  <2> QED
    BY <1>2, <1>5, <2>3, Zenon DEF Progress
<1>6. CASE Len(p) > INIT_PAYLOAD
  <2>1. n = INIT_PAYLOAD /\ Offset(0) = INIT_PAYLOAD
    BY <1>1, <1>6, FramingAssumption, SMT DEF Least, Offset
  <2>2. partial = Partial(cmd, p, 0)
    BY <1>3, <2>1 DEF Partial
  <2>3. Len(partial.buf) # partial.expected
    <3> HIDE DEF n, report
    <3> QED BY <1>1, <1>3, <1>4, <1>6, <2>1, FramingAssumption, SMT
  <2>4. ~(Len(p) <= INIT_PAYLOAD)
    BY <1>1, <1>6, FramingAssumption, SMT
  <2> HIDE DEF partial
  <2> QED
    BY <1>2, <2>2, <2>3, <2>4 DEF Progress
<1> QED
  BY <1>1, <1>5, <1>6, FramingAssumption, SMT

\* The first n bytes of a message are n bytes.
LEMMA PrefixLength ==
    ASSUME NEW S, NEW p \in Seq(S), NEW n \in 0..Len(p)
    PROVE  Len(SubSeq(p, 1, n)) = n
<1>1. Len(p) \in Nat
  BY LenProperties, Zenon
<1>2. n \in Int /\ 1 \in Int
  BY <1>1, SMT
<1>3. \A i \in 1..n : p[i] \in S
  BY <1>1, ElementOfSeq, SMT
<1>4. Len(SubSeq(p, 1, n)) = IF 1 <= n THEN n - 1 + 1 ELSE 0
  BY <1>2, <1>3, SubSeqProperties, SMT
<1> QED
  BY <1>1, <1>4, SMT

\* A decoder that holds what came before continuation seq, and receives it.
LEMMA NextPush ==
    ASSUME NEW S, NEW p \in Seq(S), Len(p) <= MAX_MESSAGE_LEN,
           NEW c, NEW cmd, NEW seq \in Nat, Offset(seq) < Len(p)
    PROVE  push(Partial(cmd, p, seq), Report(c, cmd, p, seq + 2)) =
             IF Len(p) <= Offset(seq + 1)
             THEN Pushed(NoPartial, "message", cmd, p)
             ELSE Pushed(Partial(cmd, p, seq + 1), "more", "none", << >>)
<1> DEFINE report == ContReport(c, p, seq)
           held == Partial(cmd, p, seq)
           remaining == Len(p) - Offset(seq)
           take == Least(remaining, CONT_PAYLOAD)
           grown == [cmd |-> cmd, expected |-> Len(p), next_seq |-> seq + 1,
                     buf |-> SubSeq(p, 1, Offset(seq) + take)]
<1>1. /\ Len(p) \in Nat /\ Offset(seq) \in Nat /\ Offset(seq) \in 0..Len(p)
      /\ take \in 0..CONT_PAYLOAD /\ take # 0 /\ Offset(seq) + take <= Len(p)
      /\ CONT_PAYLOAD \in Nat /\ Offset(seq) + take \in 0..Len(p)
  <2>1. Len(p) \in Nat /\ Offset(seq) \in Nat
    BY LenProperties, OffsetType
  <2> QED
    BY <2>1, FramingAssumption, SMT DEF Least
<1>2. seq <= MAX_SEQ
  BY <1>1, SequenceNumberFits
<1>3. Report(c, cmd, p, seq + 2) = report
  <2>1. seq + 2 # 1 /\ (seq + 2) - 2 = seq
    BY SMT
  <2> QED
    BY <2>1, Zenon DEF Report
<1>4. report.init = FALSE /\ report.tag = seq /\ report.data = Slice(p, Offset(seq), CONT_PAYLOAD)
  <2>1. (seq > MAX_SEQ) = FALSE
    BY <1>2, FramingAssumption, SMT
  <2> QED
    BY <2>1, Zenon DEF ContReport
<1>5. Len(SubSeq(p, 1, Offset(seq))) = Offset(seq)
  BY <1>1, PrefixLength, Zenon
<1>6. held # NoPartial
  BY <1>1, SMT DEF Partial, NoPartial
<1>7. held.expected - Len(held.buf) = remaining
  BY <1>5 DEF Partial
<1>8. held.buf \o SubSeq(report.data, 1, take) = SubSeq(p, 1, Offset(seq) + take)
  <2>1. SubSeq(report.data, 1, take) = SubSeq(p, Offset(seq) + 1, Offset(seq) + take)
    BY <1>1, <1>4, SliceIsSubSeq, Zenon
  <2>2. held.buf = SubSeq(p, 1, Offset(seq))
    BY DEF Partial
  <2>3. /\ 1 \in 1..Len(p) + 1
        /\ Offset(seq) \in 1 - 1..Len(p)
        /\ Offset(seq) + take \in Offset(seq)..Len(p)
    BY <1>1, FramingAssumption, SMT
  <2> HIDE DEF take, report, held
  <2> QED
    BY <2>1, <2>2, <2>3, ConcatAdjacentSubSeq, Zenon
<1>9. push(held, report) = Progress(grown)
  <2>1. held.cmd = cmd /\ held.expected = Len(p) /\ held.next_seq = seq
    BY DEF Partial
  <2> HIDE DEF held, report, take, remaining
  <2>2. push(held, report)
          = Progress([cmd |-> held.cmd, expected |-> held.expected,
                      buf |-> held.buf
                                \o SubSeq(report.data, 1, Least(remaining, CONT_PAYLOAD)),
                      next_seq |-> held.next_seq + 1])
    BY <1>4, <1>6, <1>7, <2>1, Zenon DEF push, PushCont
  <2> QED
    BY <1>8, <2>1, <2>2 DEF take
<1>10. Len(SubSeq(p, 1, Offset(seq) + take)) = Offset(seq) + take
  <2> HIDE DEF take
  <2> QED
    BY <1>1, PrefixLength, Zenon
<1>11. Offset(seq + 1) \in Nat /\ Offset(seq + 1) = Offset(seq) + CONT_PAYLOAD
  BY OffsetType, OffsetNext, SMT
<1>12. CASE Len(p) <= Offset(seq + 1)
  <2>1. Offset(seq) + take = Len(p)
    BY <1>1, <1>12, <1>11, FramingAssumption, SMT DEF Least
  <2>2. SubSeq(p, 1, Offset(seq) + take) = p
    BY <2>1, SubSeqFull
  <2>3. grown.buf = p /\ grown.expected = Len(p) /\ grown.cmd = cmd
    BY <2>2
  <2>4. Progress(grown) = Pushed(NoPartial, "message", cmd, p)
    <3> HIDE DEF grown
    <3> QED BY <2>3, Zenon DEF Progress
  <2> HIDE DEF grown, report, held
  <2> QED
    BY <1>3, <1>9, <1>12, <2>4, Zenon DEF held
<1>13. CASE ~(Len(p) <= Offset(seq + 1))
  <2>1. Offset(seq) + take = Offset(seq + 1) /\ Offset(seq + 1) # Len(p)
    BY <1>1, <1>13, <1>11, FramingAssumption, SMT DEF Least
  <2>2. grown = Partial(cmd, p, seq + 1)
    BY <2>1 DEF Partial
  <2>3. Len(grown.buf) # grown.expected
    BY <1>10, <2>1
  <2>4. Progress(Partial(cmd, p, seq + 1)) = Pushed(Partial(cmd, p, seq + 1), "more", "none", << >>)
    BY <2>2, <2>3, Zenon DEF Progress
  <2> HIDE DEF grown, report, held
  <2> QED
    BY <1>3, <1>9, <1>13, <2>2, <2>4, Zenon DEF held
<1> QED
  BY <1>12, <1>13

-----------------------------------------------------------------------------
(* The transfer. *)

Size == Len(payload)

\* Where a transfer stands after each report.
Transfer ==
    /\ outcome # "idle" => payload \in Payloads
    /\ outcome \in {"idle", "none", "too_large"} => fed = 0
    /\ outcome = "more" => \E seq \in Nat :
          /\ fed = seq + 1
          /\ Offset(seq) < Size /\ Size <= MAX_MESSAGE_LEN
          /\ active = Partial("cbor", payload, seq)
    /\ outcome = "message" =>
          /\ received = payload
          /\ fed = ReportCount(Size)
    /\ outcome = "idle" => payload = << >>
    /\ outcome \in {"idle", "none", "too_large", "more", "message"}

\* A payload is a sequence of bytes.
LEMMA PayloadType == payload \in Payloads => payload \in Seq(Bytes) /\ Size \in Nat
  BY PayloadAssumption, LenProperties DEF Size

\* Feeding a report, in place or not, keeps the invariant of the transfer.
LEMMA FeedPreserves ==
    ASSUME Transfer, Feed
    PROVE  Transfer'
<1>1. payload \in Seq(Bytes) /\ Size \in Nat /\ Size <= MAX_MESSAGE_LEN /\ "cbor" \in Commands
  <2>1. payload \in Seq(Bytes) /\ Size \in Nat
    BY PayloadType DEF Transfer, Feed
  <2>2. ~(Size > MAX_MESSAGE_LEN)
    BY DEF Feed, TooLarge, Size
  <2> QED
    BY <2>1, <2>2, MaxMessageLenType, FramingAssumption, SMT
<1>2. payload' = payload /\ Size' = Size /\ payload \in Payloads
  BY DEF Feed, Transfer, Size
<1>3. CASE outcome = "none"
  <2>1. fed = 0
    BY <1>3 DEF Transfer
  <2>2. fed' = 1 /\ 0 + 1 = 1
    BY <2>1 DEF Feed
  <2> DEFINE pushed == push(active, Report(0, "cbor", payload, 1))
  <2>3. active' = pushed.active /\ outcome' = pushed.out /\ received' = pushed.body
    BY <2>1, <2>2 DEF Feed
  <2>4. CASE Size <= INIT_PAYLOAD
    <3>1. pushed = Pushed(NoPartial, "message", "cbor", payload)
      BY <1>1, <2>4, FirstPush DEF Size
    <3>2. active' = NoPartial /\ outcome' = "message" /\ received' = payload
      BY <2>3, <3>1 DEF Pushed
    <3>3. ReportCount(Size) = 1
      BY <2>4, SMT DEF ReportCount, ContCount
    <3> QED
      BY <1>2, <2>2, <3>2, <3>3 DEF Transfer
  <2>5. CASE ~(Size <= INIT_PAYLOAD)
    <3>1. pushed = Pushed(Partial("cbor", payload, 0), "more", "none", << >>)
      BY <1>1, <2>5, FirstPush DEF Size
    <3>2. active' = Partial("cbor", payload, 0) /\ outcome' = "more"
      BY <2>3, <3>1 DEF Pushed
    <3>3. Offset(0) < Size
      BY <1>1, <2>5, FramingAssumption, SMT DEF Offset
    <3>4. \E seq \in Nat : /\ fed' = seq + 1
                            /\ Offset(seq) < Size' /\ Size' <= MAX_MESSAGE_LEN
                            /\ active' = Partial("cbor", payload', seq)
      <4> WITNESS 0 \in Nat
      <4> QED BY <1>1, <1>2, <2>2, <3>2, <3>3
    <3> QED
      BY <1>2, <3>2, <3>4 DEF Transfer
  <2> QED
    BY <2>4, <2>5
<1>4. CASE outcome = "more"
  <2>1. PICK seq \in Nat : /\ fed = seq + 1
                           /\ Offset(seq) < Size
                           /\ active = Partial("cbor", payload, seq)
    BY <1>4 DEF Transfer
  <2>2. fed' = seq + 2 /\ fed + 1 = seq + 2
    BY <2>1, SMT DEF Feed
  <2> DEFINE pushed == push(Partial("cbor", payload, seq), Report(0, "cbor", payload, seq + 2))
  <2>3. active' = pushed.active /\ outcome' = pushed.out /\ received' = pushed.body
    BY <2>1, <2>2 DEF Feed
  <2>4. CASE Size <= Offset(seq + 1)
    <3>1. pushed = Pushed(NoPartial, "message", "cbor", payload)
      BY <1>1, <2>1, <2>4, NextPush DEF Size
    <3>2. active' = NoPartial /\ outcome' = "message" /\ received' = payload
      BY <2>3, <3>1 DEF Pushed
    <3>3. ContCount(Size) = seq + 1
      <4>1. ContCount(Size) \in Nat /\ seq < ContCount(Size)
        BY <1>1, <2>1, ContCountCorrect
      <4>2. Offset(seq + 1) \in Nat /\ seq + 1 \in Nat
        BY OffsetType, SMT
      <4>3. ~(seq + 1 < ContCount(Size))
        BY <1>1, <2>4, <4>2, ContCountCorrect, SMT
      <4> QED
        BY <4>1, <4>3, SMT
    <3> QED
      BY <1>2, <2>2, <3>2, <3>3, SMT DEF Transfer, ReportCount
  <2>5. CASE ~(Size <= Offset(seq + 1))
    <3>1. pushed = Pushed(Partial("cbor", payload, seq + 1), "more", "none", << >>)
      BY <1>1, <2>1, <2>5, NextPush DEF Size
    <3>2. active' = Partial("cbor", payload, seq + 1) /\ outcome' = "more"
      BY <2>3, <3>1 DEF Pushed
    <3>3. seq + 1 \in Nat /\ Offset(seq + 1) < Size /\ seq + 2 = (seq + 1) + 1
      BY <1>1, <2>5, OffsetType, SMT
    <3>4. \E next \in Nat : /\ fed' = next + 1
                             /\ Offset(next) < Size' /\ Size' <= MAX_MESSAGE_LEN
                             /\ active' = Partial("cbor", payload', next)
      <4> WITNESS seq + 1 \in Nat
      <4> QED BY <1>1, <1>2, <2>2, <3>2, <3>3
    <3> QED
      BY <1>2, <3>2, <3>4 DEF Transfer
  <2> QED
    BY <2>4, <2>5
<1> QED
  BY <1>3, <1>4 DEF Feed

\* A report that was fed leaves the decoder with an outcome.
LEMMA FeedOutcome ==
    ASSUME Feed
    PROVE  outcome' # "idle"
  BY SMT DEF Feed, push, PushInit, PushCont, Progress, Rejected, Pushed

\* The invariant of the transfer holds throughout.
LEMMA TransferHolds == TransferSpec => []Transfer
<1>1. TransferInit => Transfer
  BY DEF TransferInit, Transfer
<1>2. Transfer /\ [TransferNext]_transferVars => Transfer'
  <2> SUFFICES ASSUME Transfer, [TransferNext]_transferVars PROVE Transfer'
    OBVIOUS
  <2>1. CASE \E p \in Payloads : NewRequest(p)
    BY <2>1 DEF NewRequest, Transfer
  <2>2. CASE Refuse
    BY <2>2 DEF Refuse, Transfer
  <2>3. CASE Feed
    BY <2>3, FeedPreserves
  <2>4. CASE UNCHANGED transferVars
    BY <2>4 DEF transferVars, Transfer, Size
  <2> QED
    BY <2>1, <2>2, <2>3, <2>4 DEF TransferNext
<1> QED
  BY <1>1, <1>2, PTL DEF TransferSpec

\* What Transfer says of a message that has arrived.
LEMMA TransferRoundTrip == Transfer => RoundTrip
<1> SUFFICES ASSUME Transfer PROVE RoundTrip
  OBVIOUS
<1>1. Size \in Nat /\ ContCount(Size) \in Nat /\ ReportCount(Size) = ContCount(Size) + 1
  <2>1. Size \in Nat
    BY PayloadType DEF Transfer, Size
  <2> QED
    BY <2>1, ContCountCorrect, SMT DEF ReportCount
<1>2. CASE outcome = "message"
  BY <1>2 DEF Transfer, RoundTrip, Size
<1>3. CASE outcome \in {"idle", "none", "too_large"}
  <2>1. fed # ReportCount(Size)
    BY <1>1, <1>3, SMT DEF Transfer
  <2> QED
    BY <1>3, <2>1 DEF RoundTrip, Size
<1>4. CASE outcome = "more"
  <2>1. PICK seq \in Nat : fed = seq + 1 /\ Offset(seq) < Size
    BY <1>4 DEF Transfer
  <2>2. seq < ContCount(Size)
    BY <1>1, <2>1, ContCountCorrect
  <2>3. fed # ReportCount(Size)
    BY <1>1, <2>1, <2>2, SMT
  <2> QED
    BY <1>4, <2>3 DEF RoundTrip, Size
<1> QED
  BY <1>2, <1>3, <1>4 DEF Transfer

\* Whatever the sizes, decoding undoes framing, with the last report: no
\* sequence number is needed that would look like an initialization report,
\* and the decoder rejects nothing.
THEOREM FramingRoundTrip == TransferSpec => []RoundTrip
  BY TransferHolds, TransferRoundTrip, PTL

-----------------------------------------------------------------------------
(* The adapter's chain. *)

\* The chain buffer holds what the operation in progress has passed on, and
\* nothing between operations, except after one was dropped: what is left then
\* is discarded by the SELECT the next operation must begin with.
Chain ==
    /\ op = NoOperation => len = 0 /\ done = 0 /\ (dirty \/ pending = << >>)
    /\ op # NoOperation =>
          /\ op \in Operations /\ len \in MessageLens /\ ~dirty
          /\ done \in 0..len
          /\ done < len => pending = SubSeq(Message(op, len), 1, done)
          /\ done = len => /\ pending = << >>
                           /\ payload = Message(op, len)
                           /\ outcome # "idle"

\* A message and its parts.
LEMMA MessageParts ==
    ASSUME NEW o \in Operations, NEW n \in MessageLens, NEW d \in 0..n, NEW e \in d..n
    PROVE  /\ Message(o, n) \in Payloads
           /\ SubSeq(Message(o, n), 1, d) \o SubSeq(Message(o, n), d + 1, e)
                = SubSeq(Message(o, n), 1, e)
           /\ SubSeq(Message(o, n), 1, 0) = << >>
           /\ SubSeq(Message(o, n), 1, n) = Message(o, n)
<1>1. n \in Nat \ {0} /\ Message(o, n) \in Payloads
  BY AdapterAssumption
<1>2. Message(o, n) \in Seq(Bytes)
  BY <1>1, PayloadAssumption
<1>3. Len(Message(o, n)) = n
  <2>1. DOMAIN Message(o, n) = 1..n
    BY DEF Message
  <2> QED
    BY <1>1, <1>2, <2>1, LenProperties, SMT
<1>4. 1 \in 1..n + 1 /\ d \in 1 - 1..n /\ e \in d..n
  BY <1>1, SMT
<1>5. SubSeq(Message(o, n), 1, d) \o SubSeq(Message(o, n), d + 1, e) = SubSeq(Message(o, n), 1, e)
  BY <1>2, <1>3, <1>4, ConcatAdjacentSubSeq, Zenon
<1>6. SubSeq(Message(o, n), 1, 0) = << >>
  BY <1>2, SubSeqEmpty, SMT
<1>7. SubSeq(Message(o, n), 1, n) = Message(o, n)
  BY <1>2, <1>3, SubSeqFull, Zenon
<1> QED
  BY <1>1, <1>5, <1>6, <1>7

\* A new adapter holds no chain.
LEMMA InitChain == AdapterInit => Transfer /\ Chain
  BY DEF AdapterInit, TransferInit, Transfer, Chain

\* Appending a fragment to `pending`, or starting over, keeps the chain accounted for.
LEMMA FragmentChain ==
    ASSUME Transfer, Chain, NEW n \in 1..APDU_DATA, Fragment(n)
    PROVE  Transfer' /\ Chain'
<1> DEFINE data == NextData(n)
<1>1. /\ op \in Operations /\ len \in MessageLens /\ ~dirty /\ op # NoOperation
      /\ done \in 0..len /\ done < len
      /\ pending = SubSeq(Message(op, len), 1, done)
      /\ n \in Nat /\ len \in Nat /\ done \in Nat /\ n <= len - done
  <2>1. op # NoOperation /\ done # len /\ n <= len - done
    BY DEF Fragment, Requesting
  <2>2. n \in Nat
    OBVIOUS
  <2>3. len \in Nat /\ done \in 0..len
    <3>1. len \in MessageLens /\ done \in 0..len
      BY <2>1 DEF Chain
    <3> QED
      BY <3>1, AdapterAssumption
  <2>4. done \in Nat /\ done < len
    BY <2>1, <2>3, SMT
  <2>5. op \in Operations /\ len \in MessageLens /\ ~dirty /\ pending = SubSeq(Message(op, len), 1, done)
    BY <2>1, <2>4 DEF Chain
  <2> QED
    BY <2>1, <2>2, <2>3, <2>4, <2>5
<1>2. CASE TooLong(data)
  <2>1. FailExchange /\ UNCHANGED transferVars
    BY <1>2 DEF Fragment
  <2> QED
    BY <2>1 DEF FailExchange, EndOperation, Chain, Transfer, transferVars, Size
<1>3. CASE ~TooLong(data)
  <2> DEFINE e == done + n
  <2>1. e \in done..len /\ e \in 0..len /\ e \in Nat
    BY <1>1, SMT
  <2>2. pending \o data = SubSeq(Message(op, len), 1, e)
    BY <1>1, <2>1, MessageParts DEF NextData
  <2>3. done' = e /\ UNCHANGED <<op, len, dirty, spent>>
    BY <1>3 DEF Fragment
  <2>4. CASE e < len
    <3>1. pending' = pending \o data /\ UNCHANGED transferVars
      BY <1>3, <2>4 DEF Fragment
    <3>2. Transfer'
      BY <3>1 DEF Transfer, transferVars, Size
    <3>3. e # len
      BY <1>1, <2>1, <2>4, SMT
    <3> HIDE DEF e, data
    <3> QED
      BY <1>1, <2>1, <2>2, <2>3, <2>4, <3>1, <3>2, <3>3 DEF Chain
  <2>5. CASE ~(e < len)
    <3>1. pending' = << >> /\ NewRequest(pending \o data)
      BY <1>3, <2>5 DEF Fragment
    <3>2. e = len
      BY <1>1, <2>1, <2>5, SMT
    <3>3. pending \o data = Message(op, len) /\ Message(op, len) \in Payloads
      BY <1>1, <2>1, <2>2, <3>2, MessageParts
    <3>4. payload' = Message(op, len) /\ outcome' = "none" /\ fed' = 0
      BY <3>1, <3>3 DEF NewRequest
    <3>5. Transfer'
      BY <3>3, <3>4 DEF Transfer
    <3>6. ~(e < len)
      BY <2>5
    <3> HIDE DEF e, data
    <3> QED
      BY <1>1, <2>1, <2>3, <3>1, <3>2, <3>4, <3>5, <3>6 DEF Chain
  <2> QED
    BY <2>4, <2>5
<1> QED
  BY <1>2, <1>3

\* Every step of the adapter keeps transfer and chain.
LEMMA NextChain == Transfer /\ Chain /\ [AdapterNext]_adapterVars => Transfer' /\ Chain'
<1> SUFFICES ASSUME Transfer, Chain, [AdapterNext]_adapterVars PROVE Transfer' /\ Chain'
  OBVIOUS
<1>1. ASSUME UNCHANGED transferVars PROVE Transfer'
  BY <1>1 DEF Transfer, transferVars, Size
<1>2. ASSUME NEW o \in Operations, NEW n \in MessageLens, NEW selecting \in BOOLEAN,
             BeginOperation(o, n, selecting)
      PROVE  Transfer' /\ Chain'
  <2>1. /\ op = NoOperation /\ op' = o /\ len' = n /\ done' = 0 /\ dirty' = FALSE
        /\ dirty => selecting
        /\ IF selecting THEN pending' = << >> ELSE pending' = pending
        /\ UNCHANGED transferVars
    BY <1>2 DEF BeginOperation, Select
  <2>2. pending' = << >>
    BY <2>1 DEF Chain
  <2>3. n \in Nat /\ 0 < n /\ 0 # n /\ 0 \in 0..n /\ o # NoOperation
    BY AdapterAssumption, SMT
  <2>4. pending' = SubSeq(Message(o, n), 1, 0)
    BY <2>2, <2>3, SubSeqEmpty, SMT
  <2>5. Chain'
    BY <2>1, <2>3, <2>4 DEF Chain
  <2> QED
    BY <1>1, <2>1, <2>5
<1>3. CASE \E n \in 1..APDU_DATA : Fragment(n)
  BY <1>3, FragmentChain
<1>4. CASE WriteRequest
  <2>1. Feed /\ UNCHANGED <<pending, driver>> /\ op # NoOperation /\ done = len
    BY <1>4 DEF WriteRequest, Requesting
  <2>2. Transfer'
    BY <2>1, FeedPreserves
  <2>3. payload' = payload
    BY <2>1 DEF Feed
  <2>4. outcome' # "idle"
    BY <2>1, FeedOutcome
  <2> QED
    BY <2>1, <2>2, <2>3, <2>4 DEF Chain, driver
<1>5. CASE Respond
  BY <1>1, <1>5 DEF Respond, Requesting, EndOperation, Chain
<1>6. CASE Reject
  BY <1>1, <1>6 DEF Reject, FailExchange, EndOperation, Chain
<1>7. CASE Drop
  BY <1>1, <1>7 DEF Drop, EndOperation, Chain
<1>8. CASE UNCHANGED adapterVars
  BY <1>1, <1>8 DEF adapterVars, driver, transferVars, Chain
<1> QED
  BY <1>2, <1>3, <1>4, <1>5, <1>6, <1>7, <1>8 DEF AdapterNext

\* Whatever is rejected, failed or dropped between two APDUs or two reports,
\* what the authenticator puts together is the message of the operation in
\* progress, to the byte.
THEOREM NoFragmentSurvives == AdapterSpec => [](RoundTrip /\ RequestsWhole)
<1>1. Transfer /\ Chain => RequestsWhole
  BY DEF Transfer, Chain, RequestsWhole, Requesting
<1> QED
  BY <1>1, InitChain, NextChain, TransferRoundTrip, PTL DEF AdapterSpec

-----------------------------------------------------------------------------
(* Messages on the wire. *)

Count(p) == ReportCount(Len(p))

Statuses(c) ==
    {Report(c, "error", << "code" >>, 1), Report(c, "keepalive", << "status" >>, 1)}
InitBody(n) == << <<"nonce", n>>, <<"cid", n>> >>
InitAnswer(n) == Report(BROADCAST_CID, "init", InitBody(n), 1)

\* What messages are made of, and every report an application can be sent.
Units == {"ask", "reply"} \X Requests \X Nat
Wire == {Report(c, "error", << "code" >>, 1) : c \in Cids}
          \cup {Report(c, "keepalive", << "status" >>, 1) : c \in Cids}
          \cup {InitAnswer(n) : n \in Cids}
          \cup {Report(c, "cbor", p, k) : c \in Cids, p \in Bodies, k \in Nat}

\* Requests and responses fit a message, and requests differ.
LEMMA MessageTypes ==
    /\ \A r \in Requests : /\ Ask(r) \in Seq(Units)
                           /\ Len(Ask(r)) = RequestLen /\ Len(Ask(r)) <= MAX_MESSAGE_LEN
    /\ \A p \in Bodies : p \in Seq(Units) /\ Len(p) <= MAX_MESSAGE_LEN
    /\ \A r1, r2 \in Requests : Ask(r1) = Ask(r2) => r1 = r2
<1> USE MaxMessageLenType, ChannelAssumption
<1>1. RequestLen \in Nat /\ 1 \in 1..RequestLen /\ RequestLen <= MAX_MESSAGE_LEN
  BY SMT
<1>2. ASSUME NEW r \in Requests
      PROVE  Ask(r) \in Seq(Units) /\ Len(Ask(r)) = RequestLen
  BY <1>1, SMT DEF Ask, Units
<1>3. ASSUME NEW r \in Requests, NEW n \in ResponseLens
      PROVE  Reply(r, n) \in Seq(Units) /\ Len(Reply(r, n)) = n /\ n <= MAX_MESSAGE_LEN
  <2>1. n \in Nat /\ n <= MAX_MESSAGE_LEN
    BY SMT
  <2> QED
    BY <2>1, SMT DEF Reply, Units
<1>4. ASSUME NEW r1 \in Requests, NEW r2 \in Requests, Ask(r1) = Ask(r2)
      PROVE  r1 = r2
  <2>1. Ask(r1)[1] = <<"ask", r1, 1>> /\ Ask(r2)[1] = <<"ask", r2, 1>>
    BY <1>1 DEF Ask
  <2> QED
    BY <1>4, <2>1
<1> QED
  BY <1>1, <1>2, <1>3, <1>4 DEF Bodies

\* The reports of a message.
LEMMA Frames ==
    ASSUME NEW S, NEW p \in Seq(S), NEW c, NEW cmd
    PROVE  LET f == frame_message(c, cmd, p) IN
           /\ Count(p) \in Nat \ {0}
           /\ f \in Seq({Report(c, cmd, p, k) : k \in Nat})
           /\ Len(f) = Count(p)
           /\ \A k \in 1..Count(p) : f[k] = Report(c, cmd, p, k)
<1>1. Len(p) \in Nat
  BY LenProperties
<1>2. ContCount(Len(p)) \in Nat /\ 0 \in Nat
  BY <1>1, ContCountCorrect, SMT
<1>3. Count(p) \in Nat \ {0}
  BY <1>2, SMT DEF Count, ReportCount
<1>4. frame_message(c, cmd, p) = [k \in 1..Count(p) |-> Report(c, cmd, p, k)]
  BY DEF frame_message, Count
<1> HIDE DEF Count
<1>5. \A k \in 1..Count(p) : k \in Nat
  BY <1>3, SMT
<1> QED
  BY <1>3, <1>4, <1>5, SMT

\* A message that fits one report is one report.
LEMMA ShortMessages ==
    ASSUME NEW S, NEW p \in Seq(S), Len(p) <= 2, NEW c, NEW cmd \in Commands, NEW held
    PROVE  /\ Count(p) = 1
           /\ push(held, Report(c, cmd, p, 1)) = Pushed(NoPartial, "message", cmd, p)
<1>1. Len(p) \in Nat
  BY LenProperties
<1>2. Len(p) <= INIT_PAYLOAD /\ Len(p) <= MAX_MESSAGE_LEN
  BY <1>1, FramingAssumption, ChannelAssumption, MaxMessageLenType, SMT
<1>3. Count(p) = 1
  BY <1>1, <1>2, SMT DEF Count, ReportCount, ContCount
<1> QED
  BY <1>2, <1>3, FirstPush

\* States and INIT responses are such messages, whatever a decoder holds.
LEMMA ShortReports ==
    /\ \A c, held : \A report \in Statuses(c) :
          /\ report.cid = c
          /\ push(held, report).out = "message"
          /\ push(held, report).active = NoPartial
          /\ push(held, report).cmd \in {"error", "keepalive"}
    /\ \A n, held :
          /\ InitAnswer(n).cid = BROADCAST_CID
          /\ push(held, InitAnswer(n)) = Pushed(NoPartial, "message", "init", InitBody(n))
    /\ \A c : frame_message(c, "error", << "code" >>) = << Report(c, "error", << "code" >>, 1) >>
    /\ \A c : frame_message(c, "keepalive", << "status" >>)
                = << Report(c, "keepalive", << "status" >>, 1) >>
    /\ \A n : frame_message(BROADCAST_CID, "init", InitBody(n)) = << InitAnswer(n) >>
<1>1. {"init", "error", "keepalive"} \subseteq Commands
  BY FramingAssumption
<1>2. \A x : << x >> \in Seq({x}) /\ Len(<< x >>) <= 2
  BY SMT
<1>3. \A n : InitBody(n) \in Seq({<<"nonce", n>>, <<"cid", n>>}) /\ Len(InitBody(n)) <= 2
  BY SMT DEF InitBody
<1>4. \A c, cmd, p : Report(c, cmd, p, 1).cid = c
  BY DEF Report, InitReport
<1>5. ASSUME NEW c, NEW held
      PROVE  /\ push(held, Report(c, "error", << "code" >>, 1))
                  = Pushed(NoPartial, "message", "error", << "code" >>)
             /\ push(held, Report(c, "keepalive", << "status" >>, 1))
                  = Pushed(NoPartial, "message", "keepalive", << "status" >>)
             /\ Count(<< "code" >>) = 1 /\ Count(<< "status" >>) = 1
  BY <1>1, <1>2, ShortMessages
<1>6. ASSUME NEW n, NEW held
      PROVE  /\ push(held, InitAnswer(n)) = Pushed(NoPartial, "message", "init", InitBody(n))
             /\ Count(InitBody(n)) = 1
  BY <1>1, <1>3, ShortMessages DEF InitAnswer
<1>7. ASSUME NEW c, NEW cmd, NEW p, Count(p) = 1
      PROVE  frame_message(c, cmd, p) = << Report(c, cmd, p, 1) >>
  <2>1. frame_message(c, cmd, p) = [k \in 1..1 |-> Report(c, cmd, p, k)]
    BY <1>7 DEF frame_message, Count
  <2> QED
    BY <2>1, SMT
<1>8. \A c, held : \A report \in Statuses(c) :
          /\ report.cid = c
          /\ push(held, report).out = "message"
          /\ push(held, report).active = NoPartial
          /\ push(held, report).cmd \in {"error", "keepalive"}
  BY <1>4, <1>5 DEF Statuses, Pushed
<1> QED
  BY <1>4, <1>5, <1>6, <1>7, <1>8 DEF InitAnswer

\* What a decoder makes of the next report of p, whichever it is, when it
\* holds nothing or a part of p: all of p, with the last report; a longer part,
\* up to that report; or an error, and nothing is held any more.
PartOf(p, held) ==
    held = NoPartial \/ \E seq \in Nat : Offset(seq) < Len(p) /\ held = Partial("cbor", p, seq)

Completed(p, k, pushed) == k = Count(p) /\ pushed = Pushed(NoPartial, "message", "cbor", p)

Extended(p, k, pushed) ==
    \E seq \in Nat : /\ Offset(seq) < Len(p) /\ k = seq + 1 /\ k < Count(p)
                     /\ pushed = Pushed(Partial("cbor", p, seq), "more", "none", << >>)

Refused(pushed) == pushed \in {Rejected("malformed"), Rejected("invalid_seq")}

\* Whatever a decoder holds of p, what it makes of any report of p.
LEMMA PushNext ==
    ASSUME NEW S, NEW p \in Seq(S), Len(p) <= MAX_MESSAGE_LEN, NEW c,
           NEW k \in 1..Count(p), NEW held, PartOf(p, held)
    PROVE  LET pushed == push(held, Report(c, "cbor", p, k)) IN
           /\ Report(c, "cbor", p, k).cid = c
           /\ Completed(p, k, pushed) \/ Extended(p, k, pushed) \/ Refused(pushed)
<1> DEFINE report == Report(c, "cbor", p, k)
           pushed == push(held, report)
<1>1. Len(p) \in Nat /\ "cbor" \in Commands
  BY LenProperties, FramingAssumption
<1>2. \A seq \in Nat : /\ Offset(seq) \in Nat
                       /\ seq < ContCount(Len(p)) <=> Offset(seq) < Len(p)
  BY <1>1, OffsetType, ContCountCorrect
<1>3. ContCount(Len(p)) \in Nat /\ Count(p) = ContCount(Len(p)) + 1
  <2>1. 0 \in Nat
    OBVIOUS
  <2> QED
    BY <1>1, <2>1, ContCountCorrect DEF Count, ReportCount
<1>4. report.cid = c
  BY DEF Report, InitReport, ContReport
<1>5. CASE k = 1
  <2>1. CASE Len(p) <= INIT_PAYLOAD
    <3>1. Count(p) = 1
      BY <2>1, SMT DEF Count, ReportCount, ContCount
    <3> QED
      BY <1>1, <1>4, <1>5, <2>1, <3>1, FirstPush DEF Completed
  <2>2. CASE ~(Len(p) <= INIT_PAYLOAD)
    <3>1. pushed = Pushed(Partial("cbor", p, 0), "more", "none", << >>)
      BY <1>1, <1>5, <2>2, FirstPush
    <3>2. 0 \in Nat /\ Offset(0) < Len(p)
      BY <1>1, <2>2, FramingAssumption, SMT DEF Offset
    <3>3. k = 0 + 1 /\ k < Count(p)
      BY <1>2, <1>3, <1>5, <3>2, SMT
    <3>4. Extended(p, k, pushed)
      BY <3>1, <3>2, <3>3 DEF Extended
    <3> QED
      BY <1>4, <3>4
  <2> QED
    BY <2>1, <2>2
<1>6. CASE k # 1
  <2> DEFINE s == k - 2
  <2>1. s \in Nat /\ s < ContCount(Len(p)) /\ k = s + 2 /\ k # 1
    BY <1>3, <1>6, SMT
  <2>2. Offset(s) < Len(p)
    BY <1>2, <2>1
  <2> HIDE DEF s
  <2>3. s <= MAX_SEQ
    BY <1>1, <2>1, <2>2, SequenceNumberFits
  <2>4. report = ContReport(c, p, s)
    BY <2>1 DEF Report, s
  <2>5. report.init = FALSE /\ report.tag = s
    <3>1. (s > MAX_SEQ) = FALSE
      BY <2>1, <2>3, FramingAssumption, SMT
    <3> HIDE DEF report
    <3> QED
      BY <2>4, <3>1, Zenon DEF ContReport
  <2>6. CASE held = NoPartial
    <3>1. pushed = Rejected("malformed")
      BY <2>5, <2>6, Zenon DEF push, PushCont
    <3> QED
      BY <1>4, <3>1 DEF Refused
  <2>7. CASE held # NoPartial
    <3>1. PICK seq \in Nat : Offset(seq) < Len(p) /\ held = Partial("cbor", p, seq)
      BY <2>7 DEF PartOf
    <3>2. held.next_seq = seq
      BY <3>1 DEF Partial
    <3>3. CASE s # seq
      <4>1. pushed = Rejected("invalid_seq")
        <5> HIDE DEF report
        <5> QED
          BY <2>5, <2>7, <3>2, <3>3, Zenon DEF push, PushCont
      <4> QED
        BY <1>4, <4>1 DEF Refused
    <3>4. CASE s = seq
      <4>1. pushed = IF Len(p) <= Offset(seq + 1)
                     THEN Pushed(NoPartial, "message", "cbor", p)
                     ELSE Pushed(Partial("cbor", p, seq + 1), "more", "none", << >>)
        BY <2>1, <3>1, <3>4, NextPush
      <4>2. /\ seq + 1 \in Nat /\ Offset(seq + 1) \in Nat /\ k = (seq + 1) + 1
            /\ seq + 1 < ContCount(Len(p)) <=> Offset(seq + 1) < Len(p)
        <5>1. seq + 1 \in Nat /\ k = (seq + 1) + 1
          BY <2>1, <3>4, SMT
        <5> QED
          BY <1>2, <5>1
      <4>3. CASE Len(p) <= Offset(seq + 1)
        <5>1. k = Count(p)
          BY <1>1, <1>3, <2>1, <3>4, <4>2, <4>3, SMT
        <5>2. Completed(p, k, pushed)
          BY <4>1, <4>3, <5>1 DEF Completed
        <5> QED
          BY <1>4, <5>2
      <4>4. CASE ~(Len(p) <= Offset(seq + 1))
        <5>1. Offset(seq + 1) < Len(p) /\ k < Count(p)
          BY <1>1, <1>3, <4>2, <4>4, SMT
        <5>2. Extended(p, k, pushed)
          BY <4>1, <4>2, <4>4, <5>1 DEF Extended
        <5> QED
          BY <1>4, <5>2
      <4> QED
        BY <4>3, <4>4
    <3> QED
      BY <3>3, <3>4
  <2> QED
    BY <2>6, <2>7
<1> QED
  BY <1>5, <1>6

\* The reports of a message differ.
LEMMA ReportsDiffer ==
    ASSUME NEW S, NEW p \in Seq(S), Len(p) <= MAX_MESSAGE_LEN, NEW c,
           NEW k \in 1..Count(p), NEW l \in 1..Count(p),
           Report(c, "cbor", p, k) = Report(c, "cbor", p, l)
    PROVE  k = l
<1>1. Len(p) \in Nat
  BY LenProperties
<1>2. \A seq \in Nat : seq < ContCount(Len(p)) <=> Offset(seq) < Len(p)
  BY <1>1, ContCountCorrect
<1>3. ContCount(Len(p)) \in Nat /\ Count(p) = ContCount(Len(p)) + 1
  <2>1. 0 \in Nat
    OBVIOUS
  <2> QED
    BY <1>1, <2>1, ContCountCorrect DEF Count, ReportCount
<1>4. ASSUME NEW n \in 1..Count(p), n # 1
      PROVE  /\ Report(c, "cbor", p, n).init = FALSE
             /\ Report(c, "cbor", p, n).tag = n - 2
  <2>1. n - 2 \in Nat /\ n - 2 < ContCount(Len(p))
    BY <1>3, <1>4, SMT
  <2>2. n - 2 <= MAX_SEQ
    BY <1>1, <1>2, <2>1, SequenceNumberFits
  <2>3. (n - 2 > MAX_SEQ) = FALSE
    BY <2>1, <2>2, FramingAssumption, SMT
  <2> QED
    BY <1>4, <2>3, Zenon DEF Report, ContReport
<1>5. Report(c, "cbor", p, 1).init = TRUE
  BY DEF Report, InitReport
<1>6. CASE k = 1 \/ l = 1
  BY <1>4, <1>5, <1>6
<1>7. CASE k # 1 /\ l # 1
  <2>1. k - 2 = l - 2
    BY <1>4, <1>7
  <2> QED
    BY <1>3, <2>1, SMT
<1> QED
  BY <1>6, <1>7

-----------------------------------------------------------------------------
(* Queues of reports. *)

\* On channel c a queue holds nothing but states of the authenticator.
Quiet(q, c) == \A i \in 1..Len(q) : q[i].cid = c => q[i] \in Statuses(c)

\* A report that, on channel c, is a state or belongs to p, from report
\* number "from" on.
Ahead(report, c, p, from) ==
    report.cid = c => \/ report \in Statuses(c)
                      \/ \E k \in from..Count(p) : report = Report(c, "cbor", p, k)

\* On channel c a queue holds, apart from states, reports of p, in order.
Heard(q, c, p, from) ==
    \A i \in 1..Len(q) :
        q[i].cid = c =>
            \/ q[i] \in Statuses(c)
            \/ \E k \in from..Count(p) :
                  /\ q[i] = Report(c, "cbor", p, k)
                  /\ \A j \in i + 1..Len(q) : Ahead(q[j], c, p, k + 1)

\* The only broadcasts are responses to INIT.
Broadcasts(q) ==
    \A i \in 1..Len(q) : q[i].cid = BROADCAST_CID => \E n \in Cids : q[i] = InitAnswer(n)

\* Reports that do not concern a channel arrive.
LEMMA QueueGrows ==
    ASSUME NEW q \in Seq(Wire), NEW s \in Seq(Wire), NEW c, Quiet(s, c)
    PROVE  /\ q \o s \in Seq(Wire)
           /\ Quiet(q, c) => Quiet(q \o s, c)
           /\ \A p, from : Heard(q, c, p, from) => Heard(q \o s, c, p, from)
<1> DEFINE t == q \o s
<1>1. /\ Len(q) \in Nat /\ Len(s) \in Nat /\ t \in Seq(Wire)
      /\ Len(t) = Len(q) + Len(s)
      /\ \A i \in 1..Len(t) : t[i] = IF i <= Len(q) THEN q[i] ELSE s[i - Len(q)]
  BY LenProperties, ConcatProperties
<1> HIDE DEF t
<1>2. ASSUME NEW i \in 1..Len(t)
      PROVE  \/ i \in 1..Len(q) /\ t[i] = q[i]
             \/ i - Len(q) \in 1..Len(s) /\ t[i] = s[i - Len(q)]
  BY <1>1, SMT
<1>3. Quiet(q, c) => Quiet(t, c)
  BY <1>2 DEF Quiet
<1>4. ASSUME NEW p, NEW from, Heard(q, c, p, from)
      PROVE  Heard(t, c, p, from)
  <2> SUFFICES ASSUME NEW i \in 1..Len(t), t[i].cid = c, t[i] \notin Statuses(c)
               PROVE  \E k \in from..Count(p) :
                         /\ t[i] = Report(c, "cbor", p, k)
                         /\ \A j \in i + 1..Len(t) : Ahead(t[j], c, p, k + 1)
    BY DEF Heard
  <2>1. i \in 1..Len(q) /\ t[i] = q[i]
    BY <1>2 DEF Quiet
  <2>2. PICK k \in from..Count(p) :
               /\ q[i] = Report(c, "cbor", p, k)
               /\ \A j \in i + 1..Len(q) : Ahead(q[j], c, p, k + 1)
    BY <1>4, <2>1 DEF Heard
  <2>3. ASSUME NEW j \in i + 1..Len(t) PROVE Ahead(t[j], c, p, k + 1)
    <3>1. j \in 1..Len(t)
      BY <1>1, <2>1, SMT
    <3>2. CASE j \in 1..Len(q) /\ t[j] = q[j]
      <4>1. j \in i + 1..Len(q)
        BY <1>1, <2>1, <3>2, SMT
      <4> QED
        BY <2>2, <3>2, <4>1
    <3>3. CASE j - Len(q) \in 1..Len(s) /\ t[j] = s[j - Len(q)]
      BY <3>3 DEF Quiet, Ahead
    <3> QED
      BY <1>2, <3>1, <3>2, <3>3
  <2> QED
    BY <2>1, <2>2, <2>3
<1> QED
  BY <1>1, <1>3, <1>4 DEF t

\* A queue holds well-formed broadcasts still when such reports arrive.
LEMMA BroadcastsGrow ==
    ASSUME NEW q \in Seq(Wire), NEW s \in Seq(Wire), Broadcasts(q), Broadcasts(s)
    PROVE  Broadcasts(q \o s)
<1> DEFINE t == q \o s
<1>1. /\ Len(q) \in Nat /\ Len(s) \in Nat
      /\ Len(t) = Len(q) + Len(s)
      /\ \A i \in 1..Len(t) : t[i] = IF i <= Len(q) THEN q[i] ELSE s[i - Len(q)]
  BY LenProperties, ConcatProperties
<1> HIDE DEF t
<1>2. ASSUME NEW i \in 1..Len(t)
      PROVE  \/ i \in 1..Len(q) /\ t[i] = q[i]
             \/ i - Len(q) \in 1..Len(s) /\ t[i] = s[i - Len(q)]
  BY <1>1, SMT
<1> QED
  BY <1>2 DEF Broadcasts, t

\* A report is lost, or read (the first one).
Removed(s, q, i) ==
    /\ s \in Seq(Wire)
    /\ Len(s) = Len(q) - 1
    /\ \A j \in 1..Len(s) : s[j] = IF j < i THEN q[j] ELSE q[j + 1]

\* A queue that lost a report says no more than before.
LEMMA QueueShrinks ==
    ASSUME NEW q \in Seq(Wire), NEW i \in 1..Len(q), NEW s, Removed(s, q, i)
    PROVE  /\ \A c : Quiet(q, c) => Quiet(s, c)
           /\ \A c, p, from : Heard(q, c, p, from) => Heard(s, c, p, from)
           /\ Broadcasts(q) => Broadcasts(s)
<1> DEFINE old(j) == IF j < i THEN j ELSE j + 1
<1>1. /\ Len(q) \in Nat /\ Len(s) = Len(q) - 1
      /\ \A j \in 1..Len(s) : old(j) \in 1..Len(q) /\ s[j] = q[old(j)]
  <2>1. Len(q) \in Nat
    BY LenProperties
  <2> QED
    BY <2>1, SMT DEF Removed
<1>2. \A j \in 1..Len(s) : \A l \in j + 1..Len(s) : l \in 1..Len(s) /\ old(l) \in old(j) + 1..Len(q)
  BY <1>1, SMT
<1> HIDE DEF old
<1>3. ASSUME NEW c, NEW p, NEW from, Heard(q, c, p, from)
      PROVE  Heard(s, c, p, from)
  <2> SUFFICES ASSUME NEW j \in 1..Len(s), s[j].cid = c, s[j] \notin Statuses(c)
               PROVE  \E k \in from..Count(p) :
                         /\ s[j] = Report(c, "cbor", p, k)
                         /\ \A l \in j + 1..Len(s) : Ahead(s[l], c, p, k + 1)
    BY DEF Heard
  <2>1. old(j) \in 1..Len(q) /\ s[j] = q[old(j)]
    BY <1>1
  <2>2. PICK k \in from..Count(p) :
               /\ q[old(j)] = Report(c, "cbor", p, k)
               /\ \A l \in old(j) + 1..Len(q) : Ahead(q[l], c, p, k + 1)
    BY <1>3, <2>1 DEF Heard
  <2>3. \A l \in j + 1..Len(s) : Ahead(s[l], c, p, k + 1)
    BY <1>1, <1>2, <2>2
  <2> QED
    BY <2>1, <2>2, <2>3
<1> QED
  BY <1>1, <1>3 DEF Quiet, Broadcasts

\* Losing a report removes one from the queue.
LEMMA LostReport ==
    ASSUME NEW q \in Seq(Wire), NEW i \in 1..Len(q)
    PROVE  Removed(SubSeq(q, 1, i - 1) \o SubSeq(q, i + 1, Len(q)), q, i)
<1>1. Len(q) \in Nat /\ i \in Nat /\ i - 1 \in Nat /\ i <= Len(q)
  BY LenProperties, SMT
<1>2. \A j \in 1..Len(q) : q[j] \in Wire
  BY ElementOfSeq
<1>3. /\ \A j \in 1..i - 1 : q[j] \in Wire
      /\ \A j \in i + 1..Len(q) : q[j] \in Wire
  BY <1>1, <1>2, SMT
<1> DEFINE a == SubSeq(q, 1, i - 1)
           b == SubSeq(q, i + 1, Len(q))
<1>4. /\ a \in Seq(Wire) /\ Len(a) = i - 1
      /\ \A j \in 1..i - 1 : a[j] = q[j]
  <2>1. /\ a \in Seq(Wire)
        /\ Len(a) = IF 1 <= i - 1 THEN i - 1 - 1 + 1 ELSE 0
        /\ \A j \in 1..i - 1 - 1 + 1 : a[j] = q[1 + j - 1]
    BY <1>1, <1>3, SubSeqProperties, SMT
  <2> QED
    BY <1>1, <2>1, SMT
<1>5. /\ b \in Seq(Wire) /\ Len(b) = Len(q) - i
      /\ \A j \in 1..Len(q) - i : b[j] = q[i + j]
  <2>1. /\ b \in Seq(Wire)
        /\ Len(b) = IF i + 1 <= Len(q) THEN Len(q) - (i + 1) + 1 ELSE 0
        /\ \A j \in 1..Len(q) - (i + 1) + 1 : b[j] = q[i + 1 + j - 1]
    BY <1>1, <1>3, SubSeqProperties, SMT
  <2> QED
    BY <1>1, <2>1, SMT
<1> HIDE DEF a, b
<1>6. /\ a \o b \in Seq(Wire) /\ Len(a \o b) = Len(a) + Len(b)
      /\ \A j \in 1..Len(a) + Len(b) : (a \o b)[j] = IF j <= Len(a) THEN a[j] ELSE b[j - Len(a)]
  BY <1>4, <1>5, ConcatProperties
<1>7. Len(a) + Len(b) = Len(q) - 1
  BY <1>1, <1>4, <1>5, SMT
<1>8. ASSUME NEW j \in 1..Len(q) - 1
      PROVE  (a \o b)[j] = IF j < i THEN q[j] ELSE q[j + 1]
  <2>1. CASE j < i
    <3>1. j <= Len(a) /\ j \in 1..i - 1
      BY <1>1, <1>4, <2>1, SMT
    <3> QED
      BY <1>4, <1>6, <1>7, <2>1, <3>1
  <2>2. CASE ~(j < i)
    <3>1. /\ ~(j <= Len(a)) /\ j - Len(a) \in 1..Len(q) - i
          /\ i + (j - Len(a)) = j + 1
      BY <1>1, <1>4, <2>2, SMT
    <3> QED
      BY <1>5, <1>6, <1>7, <2>2, <3>1
  <2> QED
    BY <2>1, <2>2
<1> QED
  BY <1>6, <1>7, <1>8 DEF Removed, a, b

\* Reading removes the first report of the queue.
LEMMA ReadReport ==
    ASSUME NEW q \in Seq(Wire), q # << >>
    PROVE  /\ Removed(Tail(q), q, 1) /\ 1 \in 1..Len(q) /\ Head(q) = q[1]
           /\ Tail(q) \in Seq(Wire)
           /\ Len(Tail(q)) = Len(q) - 1 /\ Len(q) \in Nat
           /\ \A i \in 1..Len(Tail(q)) : Tail(q)[i] = q[i + 1]
<1>1. Len(q) \in Nat \ {0}
  BY EmptySeq
<1>2. /\ Tail(q) \in Seq(Wire)
      /\ Len(Tail(q)) = Len(q) - 1
      /\ \A i \in 1..Len(Tail(q)) : Tail(q)[i] = q[i + 1]
  BY HeadTailProperties
<1>3. Head(q) = q[1]
  BY <1>1, SMT
<1>4. \A j \in 1..Len(Tail(q)) : ~(j < 1)
  BY <1>1, <1>2, SMT
<1> QED
  BY <1>1, <1>2, <1>3, <1>4, SMT DEF Removed

\* The first report of the queue of an application that waits for p: a state,
\* or a report of p, after which only later ones come.
LEMMA HeadHeard ==
    ASSUME NEW S, NEW p \in Seq(S), Len(p) <= MAX_MESSAGE_LEN,
           NEW q \in Seq(Wire), q # << >>, NEW c, NEW from \in Nat \ {0},
           Heard(q, c, p, from), Head(q).cid = c
    PROVE  \/ Head(q) \in Statuses(c)
           \/ \E k \in from..Count(p) : /\ Head(q) = Report(c, "cbor", p, k)
                                        /\ Heard(Tail(q), c, p, k + 1)
<1>1. /\ 1 \in 1..Len(q) /\ Head(q) = q[1]
      /\ Len(Tail(q)) = Len(q) - 1 /\ Len(q) \in Nat
      /\ \A i \in 1..Len(Tail(q)) : Tail(q)[i] = q[i + 1]
  BY ReadReport
<1>2. Count(p) \in Nat
  BY Frames
<1>3. SUFFICES ASSUME Head(q) \notin Statuses(c)
               PROVE  \E k \in from..Count(p) : /\ Head(q) = Report(c, "cbor", p, k)
                                                /\ Heard(Tail(q), c, p, k + 1)
  OBVIOUS
<1>4. PICK k \in from..Count(p) :
             /\ q[1] = Report(c, "cbor", p, k)
             /\ \A j \in 1 + 1..Len(q) : Ahead(q[j], c, p, k + 1)
  BY <1>1, <1>3 DEF Heard
<1> DEFINE t == Tail(q)
<1>5. ASSUME NEW i \in 1..Len(t), t[i].cid = c, t[i] \notin Statuses(c)
      PROVE  \E l \in k + 1..Count(p) :
                /\ t[i] = Report(c, "cbor", p, l)
                /\ \A j \in i + 1..Len(t) : Ahead(t[j], c, p, l + 1)
  <2>1. t[i] = q[i + 1] /\ i + 1 \in 1 + 1..Len(q) /\ i + 1 \in 1..Len(q)
    BY <1>1, SMT
  <2>2. PICK l \in k + 1..Count(p) : t[i] = Report(c, "cbor", p, l)
    BY <1>4, <1>5, <2>1 DEF Ahead
  <2>3. PICK m \in from..Count(p) :
               /\ t[i] = Report(c, "cbor", p, m)
               /\ \A j \in (i + 1) + 1..Len(q) : Ahead(q[j], c, p, m + 1)
    BY <1>5, <2>1 DEF Heard
  <2>4. l \in 1..Count(p) /\ m \in 1..Count(p)
    BY <1>2, SMT
  <2>5. l = m
    BY <2>2, <2>3, <2>4, ReportsDiffer
  <2>6. ASSUME NEW j \in i + 1..Len(t)
        PROVE  Ahead(t[j], c, p, l + 1)
    <3>1. j \in 1..Len(t) /\ j + 1 \in (i + 1) + 1..Len(q)
      BY <1>1, SMT
    <3>2. t[j] = q[j + 1]
      BY <1>1, <3>1
    <3> QED
      BY <2>3, <2>5, <3>1, <3>2
  <2> QED
    BY <2>2, <2>6
<1>6. Heard(t, c, p, k + 1)
  <2> HIDE DEF t
  <2> QED
    BY <1>5 DEF Heard
<1> QED
  BY <1>1, <1>4, <1>6

\* What was left of p after report number k is what is left from there on;
\* after the last report, nothing.
LEMMA HeardLess ==
    ASSUME NEW S, NEW p \in Seq(S), NEW q, NEW c,
           NEW from \in Nat \ {0}, Heard(q, c, p, from)
    PROVE  /\ Heard(q, c, p, 1)
           /\ from = Count(p) + 1 => Quiet(q, c)
<1>1. Count(p) \in Nat
  BY Frames
<1>2. \A k \in from..Count(p) : k \in 1..Count(p)
  BY <1>1, SMT
<1>3. from = Count(p) + 1 => from..Count(p) = {}
  BY <1>1, SMT
<1> QED
  BY <1>2, <1>3 DEF Heard, Quiet

\* The answer arrives, in order, where nothing of an answer was.
LEMMA AnswerHeard ==
    ASSUME NEW p \in Bodies, NEW q \in Seq(Wire), NEW c \in Cids, Quiet(q, c)
    PROVE  LET f == frame_message(c, "cbor", p) IN
           /\ f \in Seq(Wire)
           /\ Heard(q \o f, c, p, 1)
           /\ Broadcasts(f)
           /\ \A d : d # c => Quiet(f, d)
<1> DEFINE f == frame_message(c, "cbor", p)
           t == q \o f
<1>1. p \in Seq(Units) /\ Len(p) <= MAX_MESSAGE_LEN
  BY MessageTypes
<1>2. /\ Count(p) \in Nat \ {0}
      /\ f \in Seq({Report(c, "cbor", p, k) : k \in Nat})
      /\ Len(f) = Count(p)
      /\ \A k \in 1..Count(p) : f[k] = Report(c, "cbor", p, k)
  BY <1>1, Frames
<1> HIDE DEF f
<1>3. {Report(c, "cbor", p, k) : k \in Nat} \subseteq Wire
  BY DEF Wire
<1>4. f \in Seq(Wire)
  BY <1>2, <1>3, SMT
<1>5. \A k : Report(c, "cbor", p, k).cid = c
  BY DEF Report, InitReport, ContReport
<1>6. /\ Broadcasts(f)
      /\ \A d : d # c => Quiet(f, d)
  BY <1>2, <1>5, ChannelAssumption DEF Broadcasts, Quiet
<1>7. /\ Len(q) \in Nat /\ Len(t) = Len(q) + Len(f)
      /\ \A i \in 1..Len(t) : t[i] = IF i <= Len(q) THEN q[i] ELSE f[i - Len(q)]
  BY <1>4, LenProperties, ConcatProperties
<1> HIDE DEF t
<1>8. ASSUME NEW i \in 1..Len(t)
      PROVE  \/ i \in 1..Len(q) /\ t[i] = q[i]
             \/ i - Len(q) \in 1..Count(p) /\ t[i] = Report(c, "cbor", p, i - Len(q))
  BY <1>2, <1>7, SMT
<1>9. ASSUME NEW i \in 1..Len(t), t[i].cid = c, t[i] \notin Statuses(c)
      PROVE  \E k \in 1..Count(p) :
                /\ t[i] = Report(c, "cbor", p, k)
                /\ \A j \in i + 1..Len(t) : Ahead(t[j], c, p, k + 1)
  <2>1. i - Len(q) \in 1..Count(p) /\ t[i] = Report(c, "cbor", p, i - Len(q))
    BY <1>8, <1>9 DEF Quiet
  <2>2. ASSUME NEW j \in i + 1..Len(t)
        PROVE  Ahead(t[j], c, p, (i - Len(q)) + 1)
    <3>1. /\ j \in 1..Len(t) /\ ~(j <= Len(q))
          /\ j - Len(q) \in (i - Len(q)) + 1..Count(p)
      BY <1>2, <1>7, <2>1, SMT
    <3>2. t[j] = Report(c, "cbor", p, j - Len(q))
      <4>1. ~(j \in 1..Len(q))
        BY <1>7, <3>1, SMT
      <4> QED
        BY <1>8, <3>1, <4>1
    <3> QED
      BY <3>1, <3>2 DEF Ahead
  <2> QED
    BY <2>1, <2>2
<1>10. Heard(t, c, p, 1)
  BY <1>9 DEF Heard
<1> QED
  BY <1>4, <1>6, <1>10 DEF f, t

\* A state of the authenticator, and a response to INIT, concern no answer.
LEMMA OthersHeard ==
    /\ \A c \in Cids : \A report \in Statuses(c) :
          /\ << report >> \in Seq(Wire)
          /\ Broadcasts(<< report >>)
          /\ \A d : Quiet(<< report >>, d)
    /\ \A n \in Cids :
          /\ << InitAnswer(n) >> \in Seq(Wire)
          /\ Broadcasts(<< InitAnswer(n) >>)
          /\ \A d \in Cids : Quiet(<< InitAnswer(n) >>, d)
<1>1. \A x : Len(<< x >>) = 1 /\ \A i \in 1..Len(<< x >>) : << x >>[i] = x
  BY SMT
<1>2. \A x \in Wire : << x >> \in Seq(Wire)
  BY SMT
<1>3. /\ \A c \in Cids : Statuses(c) \subseteq Wire
      /\ \A n \in Cids : InitAnswer(n) \in Wire
  BY DEF Wire, Statuses
<1>4. ASSUME NEW c \in Cids, NEW report \in Statuses(c)
      PROVE  /\ << report >> \in Seq(Wire)
             /\ Broadcasts(<< report >>)
             /\ \A d : Quiet(<< report >>, d)
  <2>1. report.cid = c /\ c # BROADCAST_CID
    BY ShortReports, ChannelAssumption
  <2> QED
    BY <1>1, <1>2, <1>3, <2>1 DEF Broadcasts, Quiet
<1>5. ASSUME NEW n \in Cids
      PROVE  /\ << InitAnswer(n) >> \in Seq(Wire)
             /\ Broadcasts(<< InitAnswer(n) >>)
             /\ \A d \in Cids : Quiet(<< InitAnswer(n) >>, d)
  <2>1. InitAnswer(n).cid = BROADCAST_CID /\ BROADCAST_CID \notin Cids
    BY ShortReports, ChannelAssumption
  <2> QED
    BY <1>1, <1>2, <1>3, <2>1 DEF Broadcasts, Quiet
<1> QED
  BY <1>4, <1>5

-----------------------------------------------------------------------------
(* The channel's invariant. *)

Shapes ==
    /\ pc \in [Apps -> {"closed", "allocating", "open", "sending", "requesting"}]
    /\ cid \in [Apps -> Cids \cup {NoCid}]
    /\ nonce \in [Apps -> Nat]
    /\ req \in [Apps -> Requests \cup {None}]
    /\ DOMAIN toWrite = Apps /\ DOMAIN decoder = Apps
    /\ inbox \in [Apps -> Seq(Wire)]
    /\ returned \in [Requests -> {None, Failed} \cup Bodies]
    /\ response \in [Requests -> {None} \cup Bodies]
    /\ nextCid \in 1..MaxCid + 1

Live(a) == pc[a] # "closed"

\* An application has the channel that bears its nonce; those in use are
\* distinct.
Channels ==
    \A a \in Apps :
        /\ nonce[a] < nextCid
        /\ Live(a) => nonce[a] \in Cids
        /\ cid[a] = IF pc[a] \in {"closed", "allocating"} THEN NoCid ELSE nonce[a]
        /\ \A b \in Apps : a # b /\ Live(a) /\ Live(b) => nonce[a] # nonce[b]

\* Each request has one sender, and no result before the sender is done.
Senders ==
    \A a \in Apps :
        /\ req[a] # None <=> pc[a] \in {"sending", "requesting"}
        /\ req[a] # None => /\ returned[req[a]] = None
                            /\ \A b \in Apps : req[b] = req[a] => a = b

Asked(r) == returned[r] = Failed \/ \E a \in Apps : req[a] = r

\* Only what was asked is answered.
Answers == \A r \in Requests : response[r] = None \/ Asked(r) \/ returned[r] # None

\* The authenticator holds a part of r, and nothing else.
HoldsPart(r) ==
    \E seq \in Nat : Offset(seq) < RequestLen /\ assembly.active = Partial("cbor", Ask(r), seq)

\* The authenticator executes r.
Executing(r) ==
    /\ working.body = Ask(r)
    /\ response[r] = None
    /\ Asked(r)
    /\ \A a \in Apps : req[a] = r => pc[a] = "requesting" /\ cid[a] = working.cid

\* What the authenticator assembles and executes.
Device ==
    /\ assembly = NoAssembly \/ assembly.cid \in Cids
    /\ working = NoWork \/ (working.cid \in Cids /\ working.cid < nextCid)
    /\ working # NoWork => \E r \in Requests : Executing(r)

\* An application whose channel nothing is under way on.
Unanswered(a) ==
    /\ Quiet(inbox[a], nonce[a])
    /\ working.cid # nonce[a]

\* What remains to be written of r from its report k on.
Unwritten(c, r, k) == SubSeq(frame_message(c, "cbor", Ask(r)), k, Count(Ask(r)))

Sending(a) ==
    /\ Unanswered(a)
    /\ response[req[a]] = None
    /\ assembly.cid = nonce[a] => HoldsPart(req[a])
    /\ \E k \in 1..Count(Ask(req[a])) : toWrite[a] = Unwritten(nonce[a], req[a], k)

\* It has read nothing of the answer, or the beginning, and the rest follows.
Following(a, p) ==
    \/ decoder[a] = NoPartial /\ Heard(inbox[a], nonce[a], p, 1)
    \/ \E seq \in Nat : /\ Offset(seq) < Len(p)
                        /\ decoder[a] = Partial("cbor", p, seq)
                        /\ Heard(inbox[a], nonce[a], p, seq + 2)

Waiting(a) ==
    /\ assembly.cid # nonce[a]
    /\ working.cid = nonce[a] => working.body = Ask(req[a]) /\ response[req[a]] = None
    /\ response[req[a]] = None => Quiet(inbox[a], nonce[a]) /\ decoder[a] = NoPartial
    /\ response[req[a]] # None => Following(a, response[req[a]])

Application(a) ==
    /\ Broadcasts(inbox[a])
    /\ pc[a] = "closed" => inbox[a] = << >>
    /\ pc[a] \in {"closed", "allocating"} => decoder[a] = NoPartial
    /\ pc[a] \in {"allocating", "open"} => Unanswered(a) /\ assembly.cid # nonce[a]
    /\ pc[a] = "sending" => Sending(a)
    /\ pc[a] = "requesting" => Waiting(a)

ChannelInv ==
    /\ Shapes
    /\ Channels
    /\ Senders
    /\ Answers
    /\ Device
    /\ \A a \in Apps : Application(a)

\* Nothing is under way at first.
LEMMA InitChannelInv == Init => ChannelInv
<1> SUFFICES ASSUME Init PROVE ChannelInv
  OBVIOUS
<1>1. << >> \in Seq(Wire) /\ Len(<< >>) = 0
  BY EmptySeq
<1>2. Shapes
  BY <1>1, ChannelAssumption, SMT DEF Init, Shapes
<1>3. Channels
  BY SMT DEF Init, Channels, Live
<1>4. Senders /\ Answers /\ Device
  BY DEF Init, Senders, Answers, Device
<1>5. \A a \in Apps : Application(a)
  BY <1>1, SMT DEF Init, Application, Broadcasts
<1> QED
  BY <1>2, <1>3, <1>4, <1>5 DEF ChannelInv

-----------------------------------------------------------------------------
(* An application that does not act. *)

\* What arrives at it, or is lost, concerns no answer on its channel.
Undisturbed(b) ==
    /\ pc[b] = "closed" => inbox'[b] = << >>
    /\ Broadcasts(inbox[b]) => Broadcasts(inbox'[b])
    /\ Quiet(inbox[b], nonce[b]) => Quiet(inbox'[b], nonce[b])
    /\ \A p, from : Heard(inbox[b], nonce[b], p, from) => Heard(inbox'[b], nonce[b], p, from)

Idle(b) ==
    /\ pc'[b] = pc[b] /\ nonce'[b] = nonce[b] /\ req'[b] = req[b]
    /\ toWrite'[b] = toWrite[b] /\ decoder'[b] = decoder[b]

\* An application that does not act keeps its part of the invariant, as long as
\* neither what it is sent nor what the authenticator does is about its channel.
LEMMA Bystander ==
    ASSUME NEW b \in Apps, Shapes, Channels, Senders, Application(b), Idle(b), Undisturbed(b),
           req[b] # None => response'[req[b]] = response[req[b]],
           working' = working \/ working'.cid # nonce[b] \/ pc[b] = "closed",
           assembly' = assembly \/ assembly'.cid # nonce[b] \/ pc[b] = "closed"
    PROVE  Application(b)'
<1>1. Live(b) => nonce[b] \in Cids /\ NoWork.cid # nonce[b] /\ NoAssembly.cid # nonce[b]
  BY ChannelAssumption DEF Channels, NoWork, NoAssembly
<1>a. pc[b] \in {"sending", "requesting"} =>
        req[b] # None /\ response'[req[b]] = response[req[b]]
  BY DEF Senders
<1>2. CASE pc[b] = "closed"
  BY <1>2 DEF Idle, Undisturbed, Application
<1>3. CASE pc[b] \in {"allocating", "open"}
  BY <1>1, <1>3 DEF Idle, Undisturbed, Application, Unanswered
<1>4. CASE pc[b] = "sending"
  BY <1>1, <1>a, <1>4 DEF Idle, Undisturbed, Application, Sending, Unanswered, HoldsPart
<1>5. CASE pc[b] = "requesting"
  BY <1>1, <1>a, <1>5 DEF Idle, Undisturbed, Application, Waiting, Following
<1> QED
  BY <1>2, <1>3, <1>4, <1>5 DEF Shapes

\* A queue that stays as it is disturbs nothing.
LEMMA Unheard ==
    ASSUME NEW b \in Apps, Application(b), inbox'[b] = inbox[b]
    PROVE  Undisturbed(b)
  BY DEF Undisturbed, Application

\* Reports that carry no answer on a channel do not disturb who holds it.
LEMMA Heedless ==
    ASSUME Shapes, NEW s \in Seq(Wire), Broadcasts(s), Send(s)
    PROVE  /\ inbox' \in [Apps -> Seq(Wire)]
           /\ \A b \in Apps : Quiet(s, nonce[b]) \/ pc[b] = "closed" => Undisturbed(b)
<1>1. << >> \in Seq(Wire) /\ Len(<< >>) = 0
  BY EmptySeq
<1>2. ASSUME NEW b \in Apps
      PROVE  /\ inbox[b] \in Seq(Wire) /\ inbox[b] \o s \in Seq(Wire)
             /\ inbox'[b] = IF pc[b] = "closed" THEN << >> ELSE inbox[b] \o s
  BY ConcatProperties DEF Send, Shapes
<1>3. inbox' \in [Apps -> Seq(Wire)]
  BY <1>1, <1>2 DEF Send
<1>4. ASSUME NEW b \in Apps, Quiet(s, nonce[b]) \/ pc[b] = "closed"
      PROVE  Undisturbed(b)
  <2>1. CASE pc[b] = "closed"
    BY <1>1, <1>2, <2>1, SMT DEF Undisturbed, Broadcasts, Quiet, Heard
  <2>2. CASE pc[b] # "closed"
    BY <1>2, <1>4, <2>2, QueueGrows, BroadcastsGrow DEF Undisturbed
  <2> QED
    BY <2>1, <2>2
<1> QED
  BY <1>3, <1>4

\* An error or a keepalive on any channel disturbs nobody's answer.
LEMMA StatusHeedless ==
    ASSUME Shapes, NEW c \in Cids,
           \/ Send(frame_message(c, "error", << "code" >>))
           \/ Send(frame_message(c, "keepalive", << "status" >>))
    PROVE  /\ inbox' \in [Apps -> Seq(Wire)]
           /\ \A b \in Apps : Undisturbed(b)
<1>1. PICK report \in Statuses(c) : Send(<< report >>)
  BY ShortReports DEF Statuses
<1>2. << report >> \in Seq(Wire) /\ Broadcasts(<< report >>) /\ \A d : Quiet(<< report >>, d)
  BY OthersHeard
<1> QED
  BY <1>1, <1>2, Heedless

-----------------------------------------------------------------------------
(* The steps. *)

\* Ending a session, in whatever state it was.
LEMMA FailInv ==
    ASSUME ChannelInv, NEW a \in Apps, Fail(a), UNCHANGED authenticator
    PROVE  ChannelInv'
<1> USE DEF Fail, authenticator
<1>1. Shapes /\ Channels /\ Senders /\ Answers /\ Device /\ \A b \in Apps : Application(b)
  BY DEF ChannelInv
<1>2. << >> \in Seq(Wire) /\ Len(<< >>) = 0
  BY EmptySeq
<1>3. Shapes'
  <2>1. returned' \in [Requests -> {None, Failed} \cup Bodies]
    BY <1>1 DEF Shapes
  <2> QED
    BY <1>1, <1>2, <2>1, SMT DEF Shapes
<1>4. Channels'
  BY <1>1 DEF Channels, Live, Shapes
<1>5. \A b \in Apps : b # a => /\ Idle(b) /\ inbox'[b] = inbox[b] /\ cid'[b] = cid[b]
  BY <1>1 DEF Idle, Shapes
<1>6. /\ pc'[a] = "closed" /\ req'[a] = None /\ inbox'[a] = << >> /\ cid'[a] = NoCid
      /\ decoder'[a] = NoPartial
  BY <1>1 DEF Shapes
<1>7. \A r \in Requests :
        /\ r # req[a] => returned'[r] = returned[r]
        /\ r = req[a] => returned'[r] = Failed
  BY <1>1, ChannelAssumption DEF Shapes
<1>8. Senders'
  BY <1>1, <1>5, <1>6, <1>7 DEF Senders, Idle, Shapes
<1>9. \A r \in Requests : Asked(r) => Asked(r)'
  BY <1>1, <1>5, <1>6, <1>7 DEF Asked, Idle, Shapes
<1>10. Answers'
  BY <1>1, <1>7, <1>9, ChannelAssumption DEF Answers, Shapes
<1>11. Device'
  <2>1. \A r \in Requests : Executing(r) => Executing(r)'
    BY <1>5, <1>6, <1>9, ChannelAssumption DEF Executing, Idle
  <2> QED
    BY <1>1, <2>1 DEF Device
<1>12. ASSUME NEW b \in Apps PROVE Application(b)'
  <2>1. CASE b = a
    BY <1>2, <1>6, <2>1, SMT DEF Application, Broadcasts
  <2>2. CASE b # a
    BY <1>1, <1>5, <2>2, Unheard, Bystander
  <2> QED
    BY <2>1, <2>2
<1> QED
  BY <1>3, <1>4, <1>8, <1>10, <1>11, <1>12 DEF ChannelInv

\* A report is lost, or read and concerns no answer.
LEMMA OneReportLess ==
    ASSUME ChannelInv, NEW a \in Apps, NEW i \in 1..Len(inbox[a]), NEW rest,
           Removed(rest, inbox[a], i), inbox' = [inbox EXCEPT ![a] = rest]
    PROVE  /\ inbox' \in [Apps -> Seq(Wire)]
           /\ inbox'[a] = rest
           /\ \A b \in Apps : Undisturbed(b)
<1>1. Shapes /\ \A b \in Apps : Application(b)
  BY DEF ChannelInv
<1>2. inbox[a] \in Seq(Wire) /\ rest \in Seq(Wire)
  BY <1>1 DEF Shapes, Removed
<1>3. inbox' \in [Apps -> Seq(Wire)] /\ inbox'[a] = rest
  BY <1>1, <1>2 DEF Shapes
<1>4. ASSUME NEW b \in Apps PROVE Undisturbed(b)
  <2>1. CASE b = a
    <3>1. pc[b] # "closed"
      BY <1>1, <2>1, EmptySeq, SMT DEF Application
    <3> QED
      BY <1>2, <1>3, <2>1, <3>1, QueueShrinks DEF Undisturbed
  <2>2. CASE b # a
    BY <1>1, <2>2, Unheard DEF Shapes
  <2> QED
    BY <2>1, <2>2
<1> QED
  BY <1>3, <1>4

\* Reading takes one report off the queue of the reader only.
LEMMA ReadOne ==
    ASSUME ChannelInv, NEW a \in Apps, Read(a)
    PROVE  /\ inbox' \in [Apps -> Seq(Wire)]
           /\ inbox'[a] = Tail(inbox[a])
           /\ \A b \in Apps : Undisturbed(b)
           /\ \A b \in Apps : b # a => inbox'[b] = inbox[b]
<1>1. inbox[a] \in Seq(Wire) /\ inbox[a] # << >> /\ inbox' = [inbox EXCEPT ![a] = Tail(inbox[a])]
  BY DEF ChannelInv, Shapes, Read
<1>2. Removed(Tail(inbox[a]), inbox[a], 1) /\ 1 \in 1..Len(inbox[a])
  BY <1>1, ReadReport
<1> QED
  BY <1>1, <1>2, OneReportLess DEF ChannelInv, Shapes

\* Nothing changes but what an application, or several, can still read.
LEMMA QueuesOnly ==
    ASSUME ChannelInv, inbox' \in [Apps -> Seq(Wire)], \A b \in Apps : Undisturbed(b),
           UNCHANGED <<app, authenticator>>
    PROVE  ChannelInv'
<1>1. Shapes /\ Channels /\ Senders /\ Answers /\ Device /\ \A b \in Apps : Application(b)
  BY DEF ChannelInv
<1>2. UNCHANGED <<pc, cid, nonce, req, toWrite, decoder, returned, assembly, working, response,
                  nextCid>>
  BY DEF app, authenticator
<1>3. \A b \in Apps : Application(b)'
  BY <1>1, <1>2, Bystander DEF Idle
<1>4. Shapes' /\ Channels' /\ Senders' /\ Answers' /\ Device'
  BY <1>1, <1>2 DEF Shapes, Channels, Live, Senders, Answers, Asked, Device, Executing
<1> QED
  BY <1>3, <1>4 DEF ChannelInv

\* A lost report leaves a shorter answer, never another one.
LEMMA LoseInv ==
    ASSUME ChannelInv, NEW a \in Apps, Lose(a)
    PROVE  ChannelInv'
<1>1. inbox[a] \in Seq(Wire)
  BY DEF ChannelInv, Shapes
<1>2. PICK i \in 1..Len(inbox[a]) :
             inbox' = [inbox EXCEPT ![a] = SubSeq(@, 1, i - 1) \o SubSeq(@, i + 1, Len(@))]
  BY DEF Lose
<1> DEFINE rest == SubSeq(inbox[a], 1, i - 1) \o SubSeq(inbox[a], i + 1, Len(inbox[a]))
<1>3. Removed(rest, inbox[a], i) /\ inbox' = [inbox EXCEPT ![a] = rest]
  BY <1>1, <1>2, LostReport
<1> HIDE DEF rest
<1> QED
  BY <1>3, OneReportLess, QueuesOnly DEF Lose

\* Errors and keepalives answer nothing.
LEMMA DeviceStatusInv ==
    ASSUME ChannelInv, DeviceFail \/ DeviceKeepalive
    PROVE  ChannelInv'
<1>1. Shapes /\ Channels /\ Senders /\ Answers /\ Device /\ \A b \in Apps : Application(b)
  BY DEF ChannelInv
<1>2. /\ UNCHANGED <<pc, cid, nonce, req, toWrite, decoder, returned, assembly, response, nextCid>>
      /\ working' = working \/ working' = NoWork
      /\ working # NoWork
  BY DEF DeviceFail, DeviceKeepalive, app, authenticator
<1>3. working.cid \in Cids
  BY <1>1, <1>2 DEF Device
<1>4. /\ inbox' \in [Apps -> Seq(Wire)]
      /\ \A b \in Apps : Undisturbed(b)
  BY <1>1, <1>3, StatusHeedless DEF DeviceFail, DeviceKeepalive, DeviceError
<1>5. \A b \in Apps : NoWork.cid # nonce[b] \/ pc[b] = "closed"
  BY <1>1, ChannelAssumption DEF Channels, Live, NoWork
<1>6. \A b \in Apps : Application(b)'
  BY <1>1, <1>2, <1>4, <1>5, Bystander DEF Idle
<1>7. Shapes' /\ Channels' /\ Senders' /\ Answers'
  BY <1>1, <1>2, <1>4 DEF Shapes, Channels, Live, Senders, Answers, Asked
<1>8. Device'
  BY <1>1, <1>2 DEF Device, Executing, Asked
<1> QED
  BY <1>6, <1>7, <1>8 DEF ChannelInv

\* A broadcast INIT: its nonce is new, so is the channel.
LEMMA AllocateInv ==
    ASSUME ChannelInv, NEW a \in Apps, Allocate(a)
    PROVE  ChannelInv'
<1> DEFINE n == nextCid
<1>1. Shapes /\ Channels /\ Senders /\ Answers /\ Device /\ \A b \in Apps : Application(b)
  BY DEF ChannelInv
<1>2. n \in Cids /\ n \in Nat /\ n + 1 \in 1..MaxCid + 1
  BY <1>1, ChannelAssumption, SMT DEF Shapes, Allocate, Cids
<1>3. /\ pc[a] = "closed" /\ pc' = [pc EXCEPT ![a] = "allocating"]
      /\ nonce' = [nonce EXCEPT ![a] = n]
      /\ inbox' = [b \in Apps |-> IF pc[b] = "closed" /\ b # a THEN << >>
                                  ELSE inbox[b] \o << InitAnswer(n) >>]
      /\ assembly' = NoAssembly /\ nextCid' = n + 1
      /\ UNCHANGED <<cid, req, toWrite, decoder, returned, working, response>>
  BY ShortReports DEF Allocate, InitBody
<1> HIDE DEF n
<1>4. /\ << InitAnswer(n) >> \in Seq(Wire)
      /\ Broadcasts(<< InitAnswer(n) >>)
      /\ \A d \in Cids : Quiet(<< InitAnswer(n) >>, d)
  BY <1>2, OthersHeard
<1>5. ASSUME NEW b \in Apps
      PROVE  /\ inbox[b] \in Seq(Wire)
             /\ inbox'[b] \in Seq(Wire)
             /\ b # a => Undisturbed(b)
             /\ b = a => inbox'[b] = << InitAnswer(n) >>
  <2>1. inbox[b] \in Seq(Wire) /\ inbox[b] \o << InitAnswer(n) >> \in Seq(Wire)
    BY <1>1, <1>4, ConcatProperties DEF Shapes
  <2>2. << >> \in Seq(Wire) /\ Len(<< >>) = 0
    BY EmptySeq
  <2>3. CASE pc[b] = "closed" /\ b # a
    BY <1>3, <2>1, <2>2, <2>3, SMT DEF Undisturbed, Broadcasts, Quiet, Heard
  <2>4. CASE pc[b] # "closed"
    <3>1. nonce[b] \in Cids /\ inbox'[b] = inbox[b] \o << InitAnswer(n) >>
      BY <1>1, <1>3, <2>4 DEF Channels, Live
    <3> QED
      BY <1>3, <1>4, <2>1, <2>4, <3>1, QueueGrows, BroadcastsGrow DEF Undisturbed
  <2>5. CASE b = a
    <3>1. inbox[b] = << >> /\ inbox'[b] = << >> \o << InitAnswer(n) >>
      BY <1>1, <1>3, <2>5 DEF Application
    <3> QED
      BY <1>4, <2>1, <2>5, <3>1, ConcatEmptySeq
  <2> QED
    BY <2>3, <2>4, <2>5
<1>6. Shapes'
  <2>1. inbox' \in [Apps -> Seq(Wire)]
    BY <1>3, <1>5
  <2> QED
    BY <1>1, <1>2, <1>3, <2>1 DEF Shapes
<1>7. Channels'
  <2>1. \A b \in Apps : nonce[b] \in Nat /\ nonce[b] < n
    BY <1>1 DEF Channels, Shapes, n
  <2>2. \A b \in Apps : nonce[b] # n /\ nonce[b] < n + 1
    BY <1>2, <2>1, SMT
  <2>3. n < n + 1
    BY <1>2, SMT
  <2> QED
    BY <1>1, <1>2, <1>3, <2>2, <2>3 DEF Channels, Live, Shapes
<1>8. Senders' /\ Answers'
  BY <1>1, <1>3 DEF Senders, Answers, Asked, Shapes
<1>9. req[a] = None
  BY <1>1, <1>3 DEF Senders
<1>10. Device'
  <2>1. \A r \in Requests : Executing(r) => Executing(r)'
    BY <1>1, <1>3, <1>9, ChannelAssumption DEF Executing, Asked, Shapes
  <2>2. working # NoWork => working.cid < n + 1
    BY <1>1, <1>2, ChannelAssumption, SMT DEF Device, Cids, n
  <2> QED
    BY <1>1, <1>3, <2>1, <2>2 DEF Device
<1>11. ASSUME NEW b \in Apps PROVE Application(b)'
  <2>1. CASE b # a
    <3>1. Idle(b)
      BY <1>1, <1>3, <2>1 DEF Idle, Shapes
    <3>2. NoAssembly.cid # nonce[b] \/ pc[b] = "closed"
      BY <1>1, ChannelAssumption DEF Channels, Live, NoAssembly
    <3> QED
      BY <1>1, <1>3, <1>5, <2>1, <3>1, <3>2, Bystander
  <2>2. CASE b = a
    <3>1. working.cid # n /\ NoAssembly.cid # n
      <4>1. NoCid # n
        BY <1>2, ChannelAssumption
      <4>2. CASE working = NoWork
        BY <4>1, <4>2 DEF NoWork, NoAssembly
      <4>3. CASE working # NoWork
        <5>1. working.cid < n /\ working.cid \in Nat
          BY <1>1, <4>3, SMT DEF Device, Cids, n
        <5> QED
          BY <1>2, <4>1, <5>1, SMT DEF NoAssembly
      <4> QED
        BY <4>2, <4>3
    <3>2. decoder[a] = NoPartial
      BY <1>1, <1>3 DEF Application
    <3> QED
      BY <1>1, <1>2, <1>3, <1>4, <1>5, <2>2, <3>1, <3>2 DEF Application, Unanswered, Shapes
  <2> QED
    BY <2>1, <2>2
<1> QED
  BY <1>6, <1>7, <1>8, <1>10, <1>11 DEF ChannelInv

\* The first report that an application waiting for its channel takes notice
\* of is a response to INIT.
LEMMA ReadAllocatingInv ==
    ASSUME ChannelInv, NEW a \in Apps, ReadAllocating(a)
    PROVE  ChannelInv'
<1> DEFINE report == Head(inbox[a])
           pushed == push(decoder[a], report)
<1>1. Shapes /\ Channels /\ Senders /\ Answers /\ Device /\ \A b \in Apps : Application(b)
  BY DEF ChannelInv
<1>2. pc[a] = "allocating" /\ inbox[a] # << >> /\ UNCHANGED authenticator
  BY DEF ReadAllocating
<1>3. CASE report.cid # BROADCAST_CID /\ Read(a) /\ UNCHANGED app
  BY <1>2, <1>3, ReadOne, QueuesOnly
<1>4. CASE Fail(a)
  BY <1>2, <1>4, FailInv
<1>5. CASE /\ report.cid = BROADCAST_CID
           /\ Read(a)
           /\ IF OurInitResponse(a, pushed)
              THEN /\ OpenChannel(a, pushed.body[2][2])
                   /\ decoder' = [decoder EXCEPT ![a] = NoPartial]
              ELSE /\ decoder' = [decoder EXCEPT ![a] = pushed.active]
                   /\ UNCHANGED <<pc, cid>>
           /\ UNCHANGED <<nonce, req, toWrite, returned>>
  <2>1. PICK n \in Cids : report = InitAnswer(n)
    <3>1. inbox[a] \in Seq(Wire)
      BY <1>1 DEF Shapes
    <3>2. Head(inbox[a]) = inbox[a][1] /\ 1 \in 1..Len(inbox[a])
      BY <1>2, <3>1, ReadReport
    <3> QED
      BY <1>1, <1>5, <3>2 DEF Application, Broadcasts
  <2>2. pushed = Pushed(NoPartial, "message", "init", InitBody(n))
    BY <2>1, ShortReports
  <2>3. pushed.active = NoPartial /\ pushed.body = InitBody(n)
    BY <2>2 DEF Pushed
  <2>4. OurInitResponse(a, pushed) => pushed.body[2][2] = nonce[a]
    <3> HIDE DEF pushed
    <3>1. InitBody(n)[1] = <<"nonce", n>> /\ InitBody(n)[2][2] = n
      BY DEF InitBody
    <3>2. <<"nonce", n>> = <<"nonce", nonce[a]>> => n = nonce[a]
      OBVIOUS
    <3> QED
      BY <2>3, <3>1, <3>2 DEF OurInitResponse
  <2>5. decoder' = [decoder EXCEPT ![a] = NoPartial]
    BY <1>5, <2>3
  <2>6. \/ UNCHANGED <<pc, cid>>
        \/ pc' = [pc EXCEPT ![a] = "open"] /\ cid' = [cid EXCEPT ![a] = nonce[a]]
    BY <1>5, <2>4 DEF OpenChannel
  <2>7. UNCHANGED <<nonce, req, toWrite, returned, assembly, working, response, nextCid>>
    BY <1>2, <1>5 DEF authenticator
  <2>8. /\ inbox' \in [Apps -> Seq(Wire)]
        /\ \A b \in Apps : Undisturbed(b)
    BY <1>5, ReadOne
  <2> HIDE DEF report, pushed
  <2>9. nonce[a] \in Cids
    BY <1>1, <1>2 DEF Channels, Live
  <2>10. Shapes'
    BY <1>1, <2>5, <2>6, <2>7, <2>8, <2>9 DEF Shapes
  <2>11. Channels'
    BY <1>1, <1>2, <2>6, <2>7 DEF Channels, Live, Shapes
  <2>12. Senders' /\ Answers'
    BY <1>1, <1>2, <2>6, <2>7 DEF Senders, Answers, Asked, Shapes
  <2>13. req[a] = None
    BY <1>1, <1>2 DEF Senders
  <2>14. Device'
    <3>1. \A r \in Requests : Executing(r) => Executing(r)'
      BY <1>1, <2>6, <2>7, <2>13, ChannelAssumption DEF Executing, Asked, Shapes
    <3> QED
      BY <1>1, <2>7, <3>1 DEF Device
  <2>15. ASSUME NEW b \in Apps PROVE Application(b)'
    <3>1. CASE b # a
      <4>1. Idle(b)
        BY <1>1, <2>5, <2>6, <2>7, <3>1 DEF Idle, Shapes
      <4> QED
        BY <1>1, <2>7, <2>8, <4>1, Bystander
    <3>2. CASE b = a
      <4>1. pc'[a] \in {"allocating", "open"} /\ decoder'[a] = NoPartial
        BY <1>1, <1>2, <2>5, <2>6 DEF Shapes
      <4> QED
        BY <1>1, <1>2, <2>7, <2>8, <3>2, <4>1 DEF Application, Undisturbed, Unanswered
    <3> QED
      BY <3>1, <3>2
  <2> QED
    BY <2>10, <2>11, <2>12, <2>14, <2>15 DEF ChannelInv
<1> QED
  BY <1>3, <1>4, <1>5 DEF ReadAllocating

\* What remains to be written of a request, at first and from report k on.
LEMMA RequestFrames ==
    ASSUME NEW c, NEW r \in Requests
    PROVE  /\ 1 \in 1..Count(Ask(r))
           /\ frame_message(c, "cbor", Ask(r)) = Unwritten(c, r, 1)
<1> DEFINE f == frame_message(c, "cbor", Ask(r))
           n == Count(Ask(r))
           S == {Report(c, "cbor", Ask(r), k) : k \in Nat}
<1>1. Ask(r) \in Seq(Units)
  BY MessageTypes
<1>2. /\ n \in Nat \ {0}
      /\ f \in Seq(S)
      /\ Len(f) = n
      /\ \A k \in 1..n : f[k] = Report(c, "cbor", Ask(r), k)
  BY <1>1, Frames
<1> HIDE DEF f, n, S
<1>3. f = SubSeq(f, 1, n) /\ 1 \in 1..n
  BY <1>2, SubSeqFull, SMT
<1> QED
  BY <1>3 DEF f, n, Unwritten

\* Writing the report k of a request.
WritesReport(q, c, r, k) ==
    /\ Head(q) = Report(c, "cbor", Ask(r), k)
    /\ Tail(q) = Unwritten(c, r, k + 1)
    /\ Tail(q) = << >> <=> k = Count(Ask(r))

\* What is written next of a request, and what is left then.
LEMMA RequestRest ==
    ASSUME NEW c, NEW r \in Requests, NEW k \in 1..Count(Ask(r))
    PROVE  WritesReport(Unwritten(c, r, k), c, r, k)
<1> DEFINE f == frame_message(c, "cbor", Ask(r))
           n == Count(Ask(r))
           S == {Report(c, "cbor", Ask(r), i) : i \in Nat}
<1>1. Ask(r) \in Seq(Units)
  BY MessageTypes
<1>2. /\ n \in Nat \ {0}
      /\ f \in Seq(S)
      /\ Len(f) = n
      /\ \A i \in 1..n : f[i] = Report(c, "cbor", Ask(r), i)
  BY <1>1, Frames
<1>3. k \in 1..n
  OBVIOUS
<1> HIDE DEF f, n, S
<1>4. n \in k..Len(f)
  BY <1>2, <1>3, SMT
<1>5. Head(SubSeq(f, k, n)) = f[k] /\ Tail(SubSeq(f, k, n)) = SubSeq(f, k + 1, n)
  BY <1>2, <1>3, <1>4, HeadTailOfSubSeq
<1>6. SubSeq(f, k + 1, n) = << >> <=> k = n
  <2>1. CASE k = n
    <3>1. n < n + 1 /\ n \in Int /\ n + 1 \in Int
      BY <1>2, SMT
    <3> QED
      BY <2>1, <3>1, SubSeqEmpty
  <2>2. CASE k # n
    <3>1. k + 1 \in 1..Len(f) /\ k + 1 <= n /\ k + 1 \in Int /\ n \in Int
      BY <1>2, <1>3, <2>2, SMT
    <3>2. \A i \in k + 1..n : f[i] \in S
      <4>1. \A i \in k + 1..n : i \in 1..Len(f)
        BY <1>2, <3>1, SMT
      <4> QED
        BY <1>2, <4>1, ElementOfSeq
    <3>3. Len(SubSeq(f, k + 1, n)) = n - (k + 1) + 1
      BY <3>1, <3>2, SubSeqProperties
    <3>4. n - (k + 1) + 1 # 0
      BY <1>2, <3>1, SMT
    <3> QED
      BY <2>2, <3>3, <3>4, EmptySeq
  <2> QED
    BY <2>1, <2>2
<1> QED
  BY <1>2, <1>3, <1>5, <1>6 DEF f, n, Unwritten, WritesReport

\* A request that was not asked before is framed for the channel.
LEMMA RequestInv ==
    ASSUME ChannelInv, NEW a \in Apps, NEW r \in Requests, Request(a, r)
    PROVE  ChannelInv'
<1> DEFINE f == frame_message(nonce[a], "cbor", Ask(r))
<1>1. Shapes /\ Channels /\ Senders /\ Answers /\ Device /\ \A b \in Apps : Application(b)
  BY DEF ChannelInv
<1>2. /\ pc[a] = "open" /\ returned[r] = None /\ \A b \in Apps : req[b] # r
      /\ pc' = [pc EXCEPT ![a] = "sending"]
      /\ req' = [req EXCEPT ![a] = r]
      /\ toWrite' = [toWrite EXCEPT ![a] = f]
      /\ UNCHANGED <<cid, nonce, decoder, inbox, returned, assembly, working, response, nextCid>>
  <2>1. cid[a] = nonce[a]
    BY <1>1 DEF Request, Channels
  <2> QED
    BY <2>1 DEF Request, authenticator
<1>3. r # None /\ ~Asked(r) /\ response[r] = None
  BY <1>1, <1>2, ChannelAssumption DEF Answers, Asked
<1>4. 1 \in 1..Count(Ask(r)) /\ f = Unwritten(nonce[a], r, 1)
  BY RequestFrames
<1> HIDE DEF f
<1>5. Shapes'
  BY <1>1, <1>2 DEF Shapes
<1>6. Channels'
  BY <1>1, <1>2 DEF Channels, Live, Shapes
<1>7. Senders'
  BY <1>1, <1>2, <1>3 DEF Senders, Shapes
<1>8. req[a] = None
  BY <1>1, <1>2 DEF Senders
<1>9. \A x \in Requests : Asked(x) => Asked(x)'
  BY <1>1, <1>2, <1>8, ChannelAssumption DEF Asked, Shapes
<1>10. Answers'
  BY <1>1, <1>2, <1>9 DEF Answers
<1>11. Device'
  <2>1. \A x \in Requests : Executing(x) => Executing(x)'
    BY <1>1, <1>2, <1>3, <1>8, <1>9, ChannelAssumption DEF Executing, Shapes
  <2> QED
    BY <1>1, <1>2, <2>1 DEF Device
<1>12. ASSUME NEW b \in Apps PROVE Application(b)'
  <2>1. CASE b # a
    <3>1. Idle(b)
      BY <1>1, <1>2, <2>1 DEF Idle, Shapes
    <3> QED
      BY <1>1, <1>2, <3>1, Unheard, Bystander
  <2>2. CASE b = a
    <3>1. pc'[a] = "sending" /\ req'[a] = r /\ toWrite'[a] = f
      BY <1>1, <1>2 DEF Shapes
    <3>2. Sending(a)'
      BY <1>1, <1>2, <1>3, <1>4, <3>1 DEF Application, Sending, Unanswered
    <3> QED
      BY <1>1, <1>2, <2>2, <3>1, <3>2 DEF Application
  <2> QED
    BY <2>1, <2>2
<1> QED
  BY <1>5, <1>6, <1>7, <1>10, <1>11, <1>12 DEF ChannelInv

\* What an application that waits for an answer makes of the next report on
\* its channel.
LEMMA HearAnswer ==
    ASSUME ChannelInv, NEW a \in Apps, pc[a] = "requesting",
           inbox[a] # << >>, Head(inbox[a]).cid = nonce[a]
    PROVE  LET p == response[req[a]]
               pushed == push(decoder[a], Head(inbox[a]))
           IN  \/ /\ pushed.cmd \in {"error", "keepalive"}
                  /\ pushed.active = NoPartial /\ pushed.out = "message"
               \/ /\ p # None
                  /\ pushed = Pushed(NoPartial, "message", "cbor", p)
                  /\ Quiet(Tail(inbox[a]), nonce[a])
               \/ /\ p # None
                  /\ \E seq \in Nat :
                        /\ Offset(seq) < Len(p)
                        /\ pushed = Pushed(Partial("cbor", p, seq), "more", "none", << >>)
                        /\ Heard(Tail(inbox[a]), nonce[a], p, seq + 2)
               \/ Refused(pushed)
<1> DEFINE p == response[req[a]]
           q == inbox[a]
           c == nonce[a]
           pushed == push(decoder[a], Head(q))
<1>1. Waiting(a) /\ q \in Seq(Wire) /\ req[a] \in Requests
  BY DEF ChannelInv, Application, Shapes, Senders
<1>2. CASE Head(q) \in Statuses(c)
  BY <1>2, ShortReports
<1>3. CASE Head(q) \notin Statuses(c)
  <2>1. p # None
    <3>1. Head(q) = q[1] /\ 1 \in 1..Len(q)
      BY <1>1, ReadReport
    <3> QED
      BY <1>1, <1>3, <3>1 DEF Waiting, Quiet
  <2>2. p \in Bodies /\ p \in Seq(Units) /\ Len(p) <= MAX_MESSAGE_LEN
    BY <1>1, <2>1, MessageTypes DEF ChannelInv, Shapes
  <2>3. \E from \in Nat \ {0} : /\ Heard(q, c, p, from)
                                /\ PartOf(p, decoder[a])
    <3>1. Following(a, p)
      BY <1>1, <2>1 DEF Waiting
    <3>2. CASE decoder[a] = NoPartial /\ Heard(q, c, p, 1)
      <4>1. 1 \in Nat \ {0}
        OBVIOUS
      <4> QED
        BY <3>2, <4>1 DEF PartOf
    <3>3. ASSUME NEW seq \in Nat, Offset(seq) < Len(p),
                 decoder[a] = Partial("cbor", p, seq), Heard(q, c, p, seq + 2)
          PROVE  \E from \in Nat \ {0} : Heard(q, c, p, from) /\ PartOf(p, decoder[a])
      <4>1. seq + 2 \in Nat \ {0}
        BY SMT
      <4> QED
        BY <3>3, <4>1 DEF PartOf
    <3> QED
      BY <3>1, <3>2, <3>3 DEF Following
  <2>4. PICK from \in Nat \ {0} : Heard(q, c, p, from) /\ PartOf(p, decoder[a])
    BY <2>3
  <2> HIDE DEF p, q, c
  <2>5. PICK k \in from..Count(p) : /\ Head(q) = Report(c, "cbor", p, k)
                                    /\ Heard(Tail(q), c, p, k + 1)
    BY <1>1, <1>3, <2>2, <2>4, HeadHeard DEF p, q, c
  <2>6. k \in 1..Count(p) /\ k + 1 \in Nat \ {0} /\ Count(p) \in Nat
    <3>1. Count(p) \in Nat
      BY <2>2, Frames
    <3> QED
      BY <3>1, SMT
  <2>7. Completed(p, k, pushed) \/ Extended(p, k, pushed) \/ Refused(pushed)
    BY <2>2, <2>4, <2>5, <2>6, PushNext
  <2>8. CASE Completed(p, k, pushed)
    <3>1. Quiet(Tail(q), c)
      BY <2>2, <2>5, <2>6, <2>8, HeardLess DEF Completed
    <3> QED
      BY <2>1, <2>8, <3>1 DEF Completed, p, q, c
  <2>9. CASE Extended(p, k, pushed)
    <3>1. PICK seq \in Nat : /\ Offset(seq) < Len(p) /\ k = seq + 1
                             /\ pushed = Pushed(Partial("cbor", p, seq), "more", "none", << >>)
      BY <2>9 DEF Extended
    <3>2. k + 1 = seq + 2
      BY <3>1, SMT
    <3> QED
      BY <2>1, <2>5, <3>1, <3>2 DEF p, q, c
  <2> QED
    BY <2>7, <2>8, <2>9 DEF p, q, c
<1> QED
  BY <1>2, <1>3

\* What `request` returns is what the authenticator answered.
LEMMA AnswerRead ==
    ASSUME ChannelInv, NEW a \in Apps, pc[a] = "requesting", inbox[a] # << >>,
           OnChannel(a, Head(inbox[a])), push(decoder[a], Head(inbox[a])).cmd = "cbor"
    PROVE  /\ response[req[a]] # None
           /\ push(decoder[a], Head(inbox[a])).body = response[req[a]]
           /\ Quiet(Tail(inbox[a]), nonce[a])
<1> DEFINE p == response[req[a]]
           pushed == push(decoder[a], Head(inbox[a]))
<1>1. Head(inbox[a]).cid = nonce[a]
  BY DEF OnChannel, ChannelInv, Channels
<1>2. \/ pushed.cmd \in {"error", "keepalive"}
      \/ /\ p # None
         /\ pushed = Pushed(NoPartial, "message", "cbor", p)
         /\ Quiet(Tail(inbox[a]), nonce[a])
      \/ \E seq \in Nat : pushed = Pushed(Partial("cbor", p, seq), "more", "none", << >>)
      \/ Refused(pushed)
  BY <1>1, HearAnswer
<1>3. pushed.cmd = "cbor"
  OBVIOUS
<1>4. p # None /\ pushed.body = p /\ Quiet(Tail(inbox[a]), nonce[a])
  <2> HIDE DEF p, pushed
  <2> QED
    BY <1>2, <1>3 DEF Refused, Rejected, Pushed
<1> QED
  BY <1>4

\* A report read while waiting for an answer.
LEMMA ReadResponseInv ==
    ASSUME ChannelInv, NEW a \in Apps, ReadResponse(a)
    PROVE  ChannelInv'
<1> DEFINE report == Head(inbox[a])
           pushed == push(decoder[a], report)
<1>1. Shapes /\ Channels /\ Senders /\ Answers /\ Device /\ \A b \in Apps : Application(b)
  BY DEF ChannelInv
<1>2. pc[a] = "requesting" /\ inbox[a] # << >> /\ UNCHANGED authenticator /\ cid[a] = nonce[a]
  BY <1>1 DEF ReadResponse, Channels
<1>3. UNCHANGED <<assembly, working, response, nextCid>>
  BY <1>2 DEF authenticator
<1>4. Waiting(a) /\ req[a] # None /\ req[a] \in Requests
  BY <1>1, <1>2 DEF Application, Senders, Shapes
<1>5. CASE ~OnChannel(a, report) /\ Read(a) /\ UNCHANGED app
  BY <1>2, <1>5, ReadOne, QueuesOnly
<1>6. CASE Fail(a)
  BY <1>2, <1>6, FailInv
<1>7. CASE /\ OnChannel(a, report)
           /\ pushed.out = "more" \/ pushed.cmd = "keepalive"
           /\ Read(a)
           /\ decoder' = [decoder EXCEPT ![a] = pushed.active]
           /\ UNCHANGED <<pc, cid, nonce, req, toWrite, returned>>
  <2>1. /\ inbox' \in [Apps -> Seq(Wire)]
        /\ inbox'[a] = Tail(inbox[a])
        /\ \A b \in Apps : Undisturbed(b)
    BY <1>7, ReadOne
  <2>2. report.cid = nonce[a]
    BY <1>2, <1>7 DEF OnChannel
  <2>3. \/ pushed.active = NoPartial
        \/ /\ response[req[a]] # None
           /\ \E seq \in Nat :
                 /\ Offset(seq) < Len(response[req[a]])
                 /\ pushed.active = Partial("cbor", response[req[a]], seq)
                 /\ Heard(Tail(inbox[a]), nonce[a], response[req[a]], seq + 2)
    <3>1. \/ pushed.active = NoPartial
          \/ /\ response[req[a]] # None
             /\ pushed = Pushed(NoPartial, "message", "cbor", response[req[a]])
          \/ /\ response[req[a]] # None
             /\ \E seq \in Nat :
                   /\ Offset(seq) < Len(response[req[a]])
                   /\ pushed = Pushed(Partial("cbor", response[req[a]], seq), "more", "none", << >>)
                   /\ Heard(Tail(inbox[a]), nonce[a], response[req[a]], seq + 2)
          \/ Refused(pushed)
      BY <1>2, <2>2, HearAnswer
    <3> HIDE DEF report, pushed
    <3> QED
      BY <3>1 DEF Refused, Rejected, Pushed
  <2> HIDE DEF report, pushed
  <2>4. Shapes'
    BY <1>1, <1>3, <1>7, <2>1 DEF Shapes
  <2>5. Channels' /\ Senders' /\ Answers' /\ Device'
    BY <1>1, <1>3, <1>7 DEF Channels, Live, Senders, Answers, Asked, Device, Executing
  <2>6. decoder'[a] = pushed.active
    BY <1>1, <1>7 DEF Shapes
  <2>7. Waiting(a)'
    <3>1. Quiet(inbox[a], nonce[a]) => Quiet(inbox'[a], nonce[a])
      BY <2>1 DEF Undisturbed
    <3>2. ASSUME response[req[a]] # None PROVE Following(a, response[req[a]])'
      <4>1. CASE pushed.active = NoPartial
        <5>1. response[req[a]] \in Seq(Units)
          BY <1>1, <1>4, <3>2, MessageTypes DEF Shapes
        <5>2. Heard(inbox[a], nonce[a], response[req[a]], 1)
          <6>1. ASSUME NEW seq \in Nat, Heard(inbox[a], nonce[a], response[req[a]], seq + 2)
                PROVE  Heard(inbox[a], nonce[a], response[req[a]], 1)
            <7>1. seq + 2 \in Nat \ {0}
              BY SMT
            <7> QED
              BY <5>1, <6>1, <7>1, HeardLess
          <6> QED
            BY <1>4, <3>2, <6>1 DEF Waiting, Following
        <5>3. Heard(inbox'[a], nonce[a], response[req[a]], 1)
          BY <2>1, <5>2 DEF Undisturbed
        <5> QED
          BY <1>3, <1>7, <2>6, <4>1, <5>3 DEF Following
      <4>2. CASE pushed.active # NoPartial
        BY <1>3, <1>7, <2>1, <2>3, <2>6, <4>2 DEF Following
      <4> QED
        BY <4>1, <4>2
    <3>3. response[req[a]] = None => decoder'[a] = NoPartial
      BY <2>3, <2>6
    <3> QED
      BY <1>3, <1>4, <1>7, <3>1, <3>2, <3>3 DEF Waiting
  <2>8. ASSUME NEW b \in Apps PROVE Application(b)'
    <3>1. CASE b # a
      <4>1. Idle(b)
        BY <1>1, <1>7, <3>1 DEF Idle, Shapes
      <4> QED
        BY <1>1, <1>3, <2>1, <4>1, Bystander
    <3>2. CASE b = a
      BY <1>1, <1>2, <1>7, <2>1, <2>7, <3>2 DEF Application, Undisturbed
    <3> QED
      BY <3>1, <3>2
  <2> QED
    BY <2>4, <2>5, <2>8 DEF ChannelInv
<1>8. CASE /\ OnChannel(a, report)
           /\ pushed.cmd = "cbor"
           /\ Read(a)
           /\ pc' = [pc EXCEPT ![a] = "open"]
           /\ req' = [req EXCEPT ![a] = None]
           /\ returned' = [returned EXCEPT ![req[a]] = pushed.body]
           /\ decoder' = [decoder EXCEPT ![a] = NoPartial]
           /\ UNCHANGED <<cid, nonce, toWrite>>
  <2> DEFINE r == req[a]
             p == response[r]
  <2>1. /\ inbox' \in [Apps -> Seq(Wire)]
        /\ inbox'[a] = Tail(inbox[a])
        /\ \A b \in Apps : Undisturbed(b)
    BY <1>8, ReadOne
  <2>3. p # None /\ pushed.body = p /\ Quiet(Tail(inbox[a]), nonce[a])
    BY <1>2, <1>8, AnswerRead
  <2>4. returned' = [returned EXCEPT ![r] = p] /\ p \in Bodies /\ r \in Requests /\ r # None
    <3>1. returned' = [returned EXCEPT ![r] = pushed.body]
      BY <1>8
    <3>2. p \in {None} \cup Bodies
      BY <1>1, <1>4 DEF Shapes
    <3> HIDE DEF report, pushed, p
    <3> QED
      BY <1>4, <2>3, <3>1, <3>2
  <2> HIDE DEF report, pushed, p, r
  <2>5. Shapes'
    <3>1. returned' \in [Requests -> {None, Failed} \cup Bodies]
      BY <1>1, <2>4 DEF Shapes
    <3>2. /\ pc' = [pc EXCEPT ![a] = "open"] /\ req' = [req EXCEPT ![a] = None]
          /\ decoder' = [decoder EXCEPT ![a] = NoPartial]
          /\ UNCHANGED <<cid, nonce, toWrite>>
      BY <1>8
    <3> QED
      BY <1>1, <1>3, <2>1, <3>1, <3>2 DEF Shapes
  <2>6. Channels'
    BY <1>1, <1>2, <1>3, <1>8 DEF Channels, Live, Shapes
  <2>7. /\ returned'[r] = p /\ p # None /\ p # Failed
        /\ \A x \in Requests : x # r => returned'[x] = returned[x]
    BY <1>1, <2>4, ChannelAssumption DEF Shapes
  <2>8. Senders'
    <3>1. \A b \in Apps : b # a => req[b] # r
      BY <1>1, <1>4 DEF Senders, r
    <3> QED
      BY <1>1, <1>8, <2>7, <3>1 DEF Senders, Shapes
  <2>9. \A x \in Requests : x # r /\ Asked(x) => Asked(x)'
    BY <1>1, <1>8, <2>7 DEF Asked, Shapes, r
  <2>10. Answers'
    BY <1>1, <1>3, <2>7, <2>9 DEF Answers
  <2>11. Device'
    <3>1. ASSUME NEW x \in Requests, Executing(x) PROVE Executing(x)'
      <4>1. x # r
        BY <2>3, <3>1 DEF Executing, p
      <4> QED
        BY <1>1, <1>3, <1>8, <2>9, <3>1, <4>1, ChannelAssumption DEF Executing, Shapes
    <3> QED
      BY <1>1, <1>3, <3>1 DEF Device
  <2>12. ASSUME NEW b \in Apps PROVE Application(b)'
    <3>1. CASE b # a
      <4>1. Idle(b)
        BY <1>1, <1>8, <3>1 DEF Idle, Shapes
      <4> QED
        BY <1>1, <1>3, <2>1, <4>1, Bystander
    <3>2. CASE b = a
      <4>1. pc'[a] = "open"
        BY <1>1, <1>8 DEF Shapes
      <4>2. working.cid # nonce[a] /\ assembly.cid # nonce[a]
        BY <1>4, <2>3 DEF Waiting, p, r
      <4>3. Broadcasts(inbox'[a])
        BY <1>1, <2>1 DEF Application, Undisturbed
      <4> QED
        BY <1>3, <1>8, <2>1, <2>3, <3>2, <4>1, <4>2, <4>3 DEF Application, Unanswered
    <3> QED
      BY <3>1, <3>2
  <2> QED
    BY <2>5, <2>6, <2>8, <2>10, <2>11, <2>12 DEF ChannelInv
<1> QED
  BY <1>5, <1>6, <1>7, <1>8 DEF ReadResponse

\* What the authenticator does with a report of a request.
LEMMA DeviceHears ==
    ASSUME ChannelInv, NEW r \in Requests, NEW c \in Cids, NEW k \in 1..Count(Ask(r)),
           DeviceReceive(Report(c, "cbor", Ask(r), k)),
           assembly.cid = c => HoldsPart(r)
    PROVE  /\ inbox' \in [Apps -> Seq(Wire)]
           /\ \A b \in Apps : Undisturbed(b)
           /\ UNCHANGED <<response, nextCid>>
           /\ \/ UNCHANGED working /\ assembly' = assembly /\ assembly.cid # c
              \/ UNCHANGED working /\ assembly' = NoAssembly
              \/ /\ working = NoWork /\ working' = [cid |-> c, body |-> Ask(r)]
                 /\ assembly' = NoAssembly /\ k = Count(Ask(r))
              \/ /\ UNCHANGED working /\ assembly'.cid = c /\ k < Count(Ask(r))
                 /\ HoldsPart(r)'
<1> DEFINE report == Report(c, "cbor", Ask(r), k)
           pushed == push(assembly.active, report)
<1>1. Shapes /\ Device /\ \A b \in Apps : Application(b)
  BY DEF ChannelInv
<1>2. Ask(r) \in Seq(Units) /\ Len(Ask(r)) = RequestLen /\ Len(Ask(r)) <= MAX_MESSAGE_LEN
  BY MessageTypes
<1>3. report.cid = c
  BY DEF Report, InitReport, ContReport
<1>4. UNCHANGED <<response, nextCid>>
  BY DEF DeviceReceive
<1>5. Silent => inbox' \in [Apps -> Seq(Wire)] /\ \A b \in Apps : Undisturbed(b)
  BY <1>1, Unheard DEF Silent, Shapes
<1>6. DeviceError(c) => inbox' \in [Apps -> Seq(Wire)] /\ \A b \in Apps : Undisturbed(b)
  BY <1>1, StatusHeedless DEF DeviceError
<1>7. CASE /\ assembly.cid \notin {NoCid, c}
           /\ UNCHANGED <<assembly, working>>
           /\ DeviceError(c) \/ Silent
  BY <1>4, <1>5, <1>6, <1>7
<1>8. CASE /\ assembly.cid \in {NoCid, c}
           /\ \/ /\ pushed.out = "message"
                 /\ Begin(c, pushed.body)
              \/ /\ pushed.out = "more"
                 /\ assembly' = [cid |-> c, active |-> pushed.active]
                 /\ UNCHANGED working /\ Silent
              \/ /\ pushed.out \in {"malformed", "invalid_seq"}
                 /\ assembly' = NoAssembly
                 /\ UNCHANGED working /\ DeviceError(c)
  <2>1. PartOf(Ask(r), assembly.active)
    <3>1. CASE assembly.cid = c
      BY <1>2, <3>1 DEF PartOf, HoldsPart
    <3>2. CASE assembly.cid = NoCid
      BY <1>1, <3>2, ChannelAssumption DEF Device, PartOf, NoAssembly
    <3> QED
      BY <1>8, <3>1, <3>2
  <2>2. Completed(Ask(r), k, pushed) \/ Extended(Ask(r), k, pushed) \/ Refused(pushed)
    BY <1>2, <2>1, PushNext
  <2> HIDE DEF pushed, report
  <2>3. CASE Completed(Ask(r), k, pushed)
    <3>1. pushed.out = "message" /\ pushed.body = Ask(r) /\ k = Count(Ask(r))
      BY <2>3 DEF Completed, Pushed
    <3>2. Begin(c, Ask(r))
      BY <1>8, <3>1
    <3> QED
      BY <1>4, <1>5, <1>6, <3>1, <3>2 DEF Begin
  <2>4. CASE Extended(Ask(r), k, pushed)
    <3>1. PICK seq \in Nat : /\ Offset(seq) < RequestLen /\ k < Count(Ask(r))
                             /\ pushed = Pushed(Partial("cbor", Ask(r), seq), "more", "none", << >>)
      BY <1>2, <2>4 DEF Extended
    <3>2. pushed.out = "more" /\ pushed.active = Partial("cbor", Ask(r), seq)
      BY <3>1 DEF Pushed
    <3>3. assembly' = [cid |-> c, active |-> pushed.active] /\ UNCHANGED working /\ Silent
      BY <1>8, <3>2
    <3>4. HoldsPart(r)'
      BY <3>1, <3>2, <3>3 DEF HoldsPart
    <3> QED
      BY <1>4, <1>5, <3>1, <3>3, <3>4
  <2>5. CASE Refused(pushed)
    <3>1. pushed.out \in {"malformed", "invalid_seq"}
      BY <2>5 DEF Refused, Rejected, Pushed
    <3> QED
      BY <1>4, <1>6, <1>8, <3>1
  <2> QED
    BY <2>2, <2>3, <2>4, <2>5
<1>9. DeviceReceive(report)
  OBVIOUS
<1> QED
  <2> HIDE DEF report
  <2> QED
    BY <1>3, <1>7, <1>8, <1>9 DEF DeviceReceive

\* A report of a request reaches the authenticator, which may be assembling or
\* executing something for another channel.
LEMMA WriteReportInv ==
    ASSUME ChannelInv, NEW a \in Apps, WriteReport(a)
    PROVE  ChannelInv'
<1>0. PICK r, c : r = req[a] /\ c = nonce[a]
  OBVIOUS
<1> DEFINE n == Count(Ask(r))
<1>1. Shapes /\ Channels /\ Senders /\ Answers /\ Device /\ \A b \in Apps : Application(b)
  BY DEF ChannelInv
<1>2. /\ pc[a] = "sending" /\ Sending(a) /\ r \in Requests /\ r # None
      /\ c \in Cids /\ cid[a] = c
  BY <1>0, <1>1 DEF WriteReport, Application, Senders, Shapes, Channels, Live
<1>3. PICK k \in 1..n : toWrite[a] = Unwritten(c, r, k)
  BY <1>0, <1>2 DEF Sending
<1>4. /\ n \in Nat \ {0}
      /\ Head(toWrite[a]) = Report(c, "cbor", Ask(r), k)
      /\ Tail(toWrite[a]) = Unwritten(c, r, k + 1)
      /\ Tail(toWrite[a]) = << >> <=> k = n
  <2>1. Ask(r) \in Seq(Units)
    BY <1>2, MessageTypes
  <2>2. n \in Nat \ {0}
    BY <2>1, Frames
  <2>3. WritesReport(toWrite[a], c, r, k)
    BY <1>2, <1>3, RequestRest
  <2> HIDE DEF n
  <2> QED
    BY <2>2, <2>3 DEF WritesReport, n
<1>5. /\ inbox' \in [Apps -> Seq(Wire)]
      /\ \A b \in Apps : Undisturbed(b)
      /\ UNCHANGED <<response, nextCid>>
      /\ \/ UNCHANGED working /\ assembly' = assembly /\ assembly.cid # c
         \/ UNCHANGED working /\ assembly' = NoAssembly
         \/ /\ working = NoWork /\ working' = [cid |-> c, body |-> Ask(r)]
            /\ assembly' = NoAssembly /\ k = n
         \/ /\ UNCHANGED working /\ assembly'.cid = c /\ k < n
            /\ HoldsPart(r)'
  <2>1. DeviceReceive(Report(c, "cbor", Ask(r), k))
    BY <1>4 DEF WriteReport
  <2> QED
    <3>1. assembly.cid = c => HoldsPart(r)
      BY <1>0, <1>2 DEF Sending
    <3> QED
      BY <1>2, <1>3, <2>1, <3>1, DeviceHears
<1>6. /\ toWrite' = [toWrite EXCEPT ![a] = Tail(toWrite[a])]
      /\ UNCHANGED <<cid, nonce, req, returned>>
      /\ k = n => /\ pc' = [pc EXCEPT ![a] = "requesting"]
                  /\ decoder' = [decoder EXCEPT ![a] = NoPartial]
      /\ k # n => UNCHANGED <<pc, decoder>>
  BY <1>4 DEF WriteReport
<1> HIDE DEF n
<1>7. Shapes'
  BY <1>1, <1>5, <1>6 DEF Shapes
<1>8. Channels'
  BY <1>1, <1>2, <1>5, <1>6 DEF Channels, Live, Shapes
<1>9. Senders'
  BY <1>0, <1>1, <1>2, <1>6 DEF Senders, Shapes
<1>10. Answers'
  BY <1>1, <1>5, <1>6 DEF Answers, Asked
<1>11. Device'
  <2>1. assembly' = NoAssembly \/ assembly'.cid \in Cids
    BY <1>1, <1>2, <1>5 DEF Device
  <2>2. CASE UNCHANGED working
    <3>1. ASSUME NEW x \in Requests, Executing(x) PROVE Executing(x)'
      <4>1. x # r
        BY <1>0, <1>2, <3>1 DEF Executing
      <4> QED
        BY <1>0, <1>1, <1>5, <1>6, <2>2, <3>1, <4>1 DEF Executing, Asked, Shapes
    <3> QED
      BY <1>1, <1>5, <2>1, <2>2, <3>1 DEF Device
  <2>3. CASE working' = [cid |-> c, body |-> Ask(r)] /\ k = n
    <3>1. response[r] = None
      BY <1>0, <1>2 DEF Sending
    <3>2. pc'[a] = "requesting" /\ cid'[a] = c /\ req'[a] = r
      BY <1>0, <1>1, <1>2, <1>6, <2>3 DEF Shapes
    <3>3. \A b \in Apps : req'[b] = r => b = a
      BY <1>0, <1>1, <1>2, <1>6 DEF Senders
    <3>4. Executing(r)'
      BY <1>5, <2>3, <3>1, <3>2, <3>3 DEF Executing, Asked
    <3>5. c < nextCid
      BY <1>0, <1>1 DEF Channels
    <3> QED
      BY <1>2, <1>5, <2>1, <2>3, <3>4, <3>5 DEF Device
  <2> QED
    BY <1>5, <2>2, <2>3
<1>12. ASSUME NEW b \in Apps PROVE Application(b)'
  <2>1. CASE b # a
    <3>1. Idle(b)
      BY <1>1, <1>6, <2>1 DEF Idle, Shapes
    <3>2. c # nonce[b] \/ pc[b] = "closed"
      BY <1>0, <1>1, <1>2, <2>1 DEF Channels, Live
    <3>3. NoAssembly.cid # nonce[b] \/ pc[b] = "closed"
      BY <1>1, ChannelAssumption DEF Channels, Live, NoAssembly
    <3>4. /\ working' = working \/ working'.cid # nonce[b] \/ pc[b] = "closed"
          /\ assembly' = assembly \/ assembly'.cid # nonce[b] \/ pc[b] = "closed"
      BY <1>5, <3>2, <3>3
    <3> QED
      BY <1>1, <1>5, <3>1, <3>4, Bystander
  <2>2. CASE b = a
    <3>1. Quiet(inbox'[a], c) /\ Broadcasts(inbox'[a])
      BY <1>0, <1>1, <1>2, <1>5 DEF Sending, Unanswered, Undisturbed, Application
    <3>2. nonce'[a] = c /\ req'[a] = r /\ response'[r] = None
      BY <1>0, <1>2, <1>5, <1>6 DEF Sending
    <3>3. NoAssembly.cid # c
      BY <1>2, ChannelAssumption DEF NoAssembly
    <3>4. working.cid # c
      BY <1>0, <1>2 DEF Sending, Unanswered
    <3>5. CASE k = n
      <4>1. pc'[a] = "requesting" /\ decoder'[a] = NoPartial
        BY <1>1, <1>6, <3>5 DEF Shapes
      <4>2. assembly'.cid # c
        BY <1>4, <1>5, <3>3, <3>5, SMT
      <4>3. working'.cid = c => working'.body = Ask(r)
        BY <1>5, <3>4
      <4>4. Waiting(a)'
        BY <3>1, <3>2, <4>1, <4>2, <4>3 DEF Waiting
      <4> QED
        BY <2>2, <3>1, <4>1, <4>4 DEF Application
    <3>6. CASE k # n
      <4>1. pc'[a] = "sending" /\ toWrite'[a] = Unwritten(c, r, k + 1)
        BY <1>1, <1>2, <1>4, <1>6, <3>6 DEF Shapes
      <4>2. k + 1 \in 1..n
        BY <1>4, <3>6, SMT
      <4>3. working'.cid # c /\ (assembly'.cid = c => HoldsPart(r)')
        BY <1>5, <3>3, <3>4, <3>6
      <4>4. Sending(a)'
        <5>1. \E j \in 1..n : toWrite'[a] = Unwritten(c, r, j)
          BY <4>1, <4>2
        <5>2. Unanswered(a)'
          BY <3>1, <3>2, <4>3 DEF Unanswered
        <5>3. assembly'.cid = nonce'[a] => HoldsPart(r)'
          BY <3>2, <4>3
        <5> QED
          BY <3>2, <5>1, <5>2, <5>3 DEF Sending, n, HoldsPart
      <4> QED
        BY <2>2, <3>1, <4>1, <4>4 DEF Application
    <3> QED
      BY <3>5, <3>6
  <2> QED
    BY <2>1, <2>2
<1> QED
  BY <1>7, <1>8, <1>9, <1>10, <1>11, <1>12 DEF ChannelInv

\* Whose request is executed.
LEMMA ExecutedRequest ==
    ASSUME ChannelInv, working # NoWork
    PROVE  /\ RequestOf(working.body) \in Requests
           /\ Executing(RequestOf(working.body))
<1>1. PICK r \in Requests : Executing(r)
  BY DEF ChannelInv, Device
<1>2. working.body = Ask(r)
  BY <1>1 DEF Executing
<1>3. RequestOf(working.body) = r
  BY <1>2, MessageTypes DEF RequestOf
<1> QED
  BY <1>1, <1>3

\* The answer goes to every queue, and is heard on one channel.
LEMMA DeviceAnswerInv ==
    ASSUME ChannelInv, DeviceAnswer
    PROVE  ChannelInv'
<1> DEFINE r == RequestOf(working.body)
           c == working.cid
<1>1. Shapes /\ Channels /\ Senders /\ Answers /\ Device /\ \A b \in Apps : Application(b)
  BY DEF ChannelInv
<1>2. /\ working # NoWork /\ working' = NoWork
      /\ UNCHANGED <<pc, cid, nonce, req, toWrite, decoder, returned, assembly, nextCid>>
  BY DEF DeviceAnswer, app
<1>3. r \in Requests /\ Executing(r) /\ c \in Cids
  BY <1>1, <1>2, ExecutedRequest DEF Device
<1>4. PICK p \in Bodies : /\ response' = [response EXCEPT ![r] = p]
                          /\ Send(frame_message(c, "cbor", p))
  <2>1. PICK m \in ResponseLens : /\ response' = [response EXCEPT ![r] = Reply(r, m)]
                                   /\ Send(frame_message(c, "cbor", Reply(r, m)))
    BY DEF DeviceAnswer
  <2>2. Reply(r, m) \in Bodies
    BY <1>3 DEF Bodies
  <2> HIDE DEF r, c
  <2> QED
    BY <2>1, <2>2
<1> DEFINE f == frame_message(c, "cbor", p)
<1> HIDE DEF r, c, f
<1>5. p # None
  BY ChannelAssumption
<1>6. /\ f \in Seq(Wire) /\ Broadcasts(f)
      /\ \A d : d # c => Quiet(f, d)
      /\ \A q \in Seq(Wire) : Quiet(q, c) => Heard(q \o f, c, p, 1)
  <2>1. << >> \in Seq(Wire) /\ Quiet(<< >>, c)
    BY EmptySeq, SMT DEF Quiet
  <2> QED
    BY <1>3, <2>1, AnswerHeard DEF f
<1>7. Send(f)
  BY <1>4 DEF f
<1>8. /\ inbox' \in [Apps -> Seq(Wire)]
      /\ \A b \in Apps : nonce[b] # c \/ pc[b] = "closed" => Undisturbed(b)
  BY <1>1, <1>6, <1>7, Heedless
<1>9. /\ response'[r] = p /\ response' \in [Requests -> {None} \cup Bodies]
      /\ \A x \in Requests : x # r => response'[x] = response[x]
  BY <1>1, <1>3, <1>4 DEF Shapes
<1>10. Shapes'
  BY <1>1, <1>2, <1>8, <1>9 DEF Shapes
<1>11. Channels' /\ Senders' /\ Device'
  BY <1>1, <1>2 DEF Channels, Live, Senders, Device
<1>12. Answers'
  BY <1>1, <1>2, <1>3, <1>9 DEF Answers, Asked, Executing
<1>13. \A b \in Apps : NoWork.cid # nonce[b] \/ pc[b] = "closed"
  BY <1>1, ChannelAssumption DEF Channels, Live, NoWork
<1>14. ASSUME NEW b \in Apps PROVE Application(b)'
  <2>1. CASE nonce[b] # c \/ pc[b] = "closed"
    <3>1. Idle(b) /\ Undisturbed(b)
      BY <1>2, <1>8, <2>1 DEF Idle
    <3>2. req[b] # None => response'[req[b]] = response[req[b]]
      <4>1. req[b] # r
        BY <1>1, <1>3, <2>1, ChannelAssumption DEF Executing, Channels, c
      <4> QED
        BY <1>1, <1>9, <4>1 DEF Shapes
    <3> QED
      BY <1>1, <1>2, <1>13, <3>1, <3>2, Bystander
  <2>2. CASE nonce[b] = c /\ pc[b] # "closed"
    <3>1. pc[b] = "requesting" /\ Waiting(b)
      BY <1>1, <2>2 DEF Application, Sending, Unanswered, Shapes, c
    <3>2. req[b] = r
      <4>1. Ask(req[b]) = Ask(r) /\ req[b] \in Requests
        BY <1>1, <1>3, <2>2, <3>1 DEF Waiting, Executing, Senders, Shapes, c
      <4> QED
        BY <1>3, <4>1, MessageTypes
    <3>3. Quiet(inbox[b], c) /\ decoder[b] = NoPartial
      BY <1>3, <2>2, <3>1, <3>2 DEF Waiting, Executing, c
    <3>4. inbox[b] \in Seq(Wire) /\ inbox'[b] = inbox[b] \o f
      BY <1>1, <1>7, <2>2 DEF Send, Shapes
    <3>5. Heard(inbox'[b], c, p, 1) /\ Broadcasts(inbox'[b])
      BY <1>1, <1>6, <3>3, <3>4, BroadcastsGrow DEF Application
    <3>6. Following(b, p)'
      BY <1>2, <2>2, <3>3, <3>5 DEF Following
    <3>7. NoWork.cid # c /\ assembly.cid # c
      BY <1>13, <2>2, <3>1 DEF Waiting
    <3>8. Waiting(b)'
      BY <1>2, <1>5, <1>9, <2>2, <3>2, <3>6, <3>7 DEF Waiting
    <3> QED
      BY <1>2, <3>1, <3>5, <3>8 DEF Application
  <2> QED
    BY <2>1, <2>2
<1> QED
  BY <1>10, <1>11, <1>12, <1>14 DEF ChannelInv

-----------------------------------------------------------------------------
(* The theorems about the channel. *)

\* Every step keeps the invariant.
LEMMA NextChannelInv == ChannelInv /\ [Next]_vars => ChannelInv'
<1> SUFFICES ASSUME ChannelInv, [Next]_vars PROVE ChannelInv'
  OBVIOUS
<1>1. ASSUME NEW a \in Apps, Allocate(a) PROVE ChannelInv'
  BY <1>1, AllocateInv
<1>2. ASSUME NEW a \in Apps, ReadAllocating(a) PROVE ChannelInv'
  BY <1>2, ReadAllocatingInv
<1>3. ASSUME NEW a \in Apps, NEW r \in Requests, Request(a, r) PROVE ChannelInv'
  BY <1>3, RequestInv
<1>4. ASSUME NEW a \in Apps, WriteReport(a) PROVE ChannelInv'
  BY <1>4, WriteReportInv
<1>5. ASSUME NEW a \in Apps, ReadResponse(a) PROVE ChannelInv'
  BY <1>5, ReadResponseInv
<1>6. ASSUME NEW a \in Apps, Timeout(a) \/ Close(a) PROVE ChannelInv'
  BY <1>6, FailInv DEF Timeout, Close
<1>7. ASSUME NEW a \in Apps, Lose(a) PROVE ChannelInv'
  BY <1>7, LoseInv
<1>8. CASE DeviceAnswer
  BY <1>8, DeviceAnswerInv
<1>9. CASE DeviceFail \/ DeviceKeepalive
  BY <1>9, DeviceStatusInv
<1>10. CASE UNCHANGED vars
  <2>1. UNCHANGED <<app, authenticator, inbox>>
    BY <1>10 DEF vars
  <2>2. inbox \in [Apps -> Seq(Wire)] /\ \A b \in Apps : Application(b)
    BY DEF ChannelInv, Shapes
  <2> QED
    BY <2>1, <2>2, Unheard, QueuesOnly
<1> QED
  BY <1>1, <1>2, <1>3, <1>4, <1>5, <1>6, <1>7, <1>8, <1>9, <1>10 DEF Next

\* Applications that share an authenticator never hold the same channel,
\* although each reads the INIT responses of the others: the nonce check of
\* `allocate` suffices.
THEOREM ChannelsNeverShared == Spec => []ChannelsDistinct
<1>1. ChannelInv => ChannelsDistinct
  BY ChannelAssumption DEF ChannelInv, Channels, Live, ChannelsDistinct, Shapes
<1> QED
  BY <1>1, InitChannelInv, NextChannelInv, PTL DEF Spec

\* However the reports of several applications interleave, the authenticator
\* executes only requests that one of them framed, whole.
THEOREM OnlyWholeRequests == Spec => []WholeRequests
<1>1. ChannelInv => WholeRequests
  BY DEF ChannelInv, Device, Executing, WholeRequests
<1> QED
  BY <1>1, InitChannelInv, NextChannelInv, PTL DEF Spec

-----------------------------------------------------------------------------
(* The channel implements AuthenticatorExchange. *)

\* What the contract sees of a request.
LEMMA Seen ==
    ASSUME NEW r \in Requests
    PROVE  /\ Status[r] = IF \E a \in Apps : req[a] = r THEN "asked"
                          ELSE IF returned[r] = None THEN "unsent"
                          ELSE IF returned[r] = Failed THEN "failed" ELSE "answered"
           /\ Given[r] = IF returned[r] = Failed THEN None ELSE returned[r]
           /\ Status'[r] = IF \E a \in Apps : req'[a] = r THEN "asked"
                           ELSE IF returned'[r] = None THEN "unsent"
                           ELSE IF returned'[r] = Failed THEN "failed" ELSE "answered"
           /\ Given'[r] = IF returned'[r] = Failed THEN None ELSE returned'[r]
  BY DEF Status, Given

\* A step that sends no request, ends none and executes none is invisible.
LEMMA Invisible ==
    ASSUME UNCHANGED <<req, returned, response>>
    PROVE  UNCHANGED Contract!vars
  BY DEF Contract!vars, Status, Given

\* Only one request is asked, and what becomes of the others stays the same.
LEMMA StatusSteps ==
    ASSUME ChannelInv, NEW r \in Requests,
           \A x \in Requests : x # r =>
              /\ returned'[x] = returned[x]
              /\ (\E a \in Apps : req'[a] = x) <=> (\E a \in Apps : req[a] = x)
    PROVE  /\ Status' = [Status EXCEPT ![r] = Status'[r]]
           /\ Given' = [Given EXCEPT ![r] = Given'[r]]
<1>1. \A x \in Requests : x # r => Status'[x] = Status[x] /\ Given'[x] = Given[x]
  BY Seen
<1>2. /\ DOMAIN Status = Requests /\ DOMAIN Given = Requests
      /\ Status' = [x \in Requests |-> Status'[x]] /\ Given' = [x \in Requests |-> Given'[x]]
      /\ Status = [x \in Requests |-> Status[x]] /\ Given = [x \in Requests |-> Given[x]]
  BY DEF Status, Given
<1> QED
  BY <1>1, <1>2

\* Sending a request asks it.
LEMMA RequestAsks ==
    ASSUME ChannelInv, NEW a \in Apps, NEW r \in Requests, Request(a, r)
    PROVE  Contract!Ask(r)
<1>1. /\ req \in [Apps -> Requests \cup {None}] /\ req[a] = None
      /\ req' = [req EXCEPT ![a] = r] /\ returned[r] = None
      /\ \A b \in Apps : req[b] # r
      /\ UNCHANGED <<returned, response>>
  BY DEF ChannelInv, Shapes, Senders, Request, authenticator
<1>2. \A x \in Requests : x # r =>
        /\ returned'[x] = returned[x]
        /\ (\E b \in Apps : req'[b] = x) <=> (\E b \in Apps : req[b] = x)
  BY <1>1, ChannelAssumption
<1>3. Status[r] = "unsent" /\ Status'[r] = "asked" /\ Given'[r] = Given[r]
  BY <1>1, Seen
<1>4. Status' = [Status EXCEPT ![r] = "asked"]
  BY <1>2, <1>3, StatusSteps
<1>5. Given' = Given
  BY <1>1 DEF Given
<1> QED
  BY <1>1, <1>3, <1>4, <1>5 DEF Contract!Ask

\* A session that ends fails the request it had, if any.
LEMMA FailFails ==
    ASSUME ChannelInv, NEW a \in Apps, Fail(a), UNCHANGED authenticator
    PROVE  UNCHANGED Contract!vars \/ \E r \in Requests : Contract!Fail(r)
<1>1. /\ req \in [Apps -> Requests \cup {None}]
      /\ req' = [req EXCEPT ![a] = None]
      /\ UNCHANGED response
  BY DEF ChannelInv, Shapes, Fail, authenticator
<1>2. CASE req[a] = None
  BY <1>1, <1>2, Invisible DEF Fail
<1>3. CASE req[a] # None
  <2>1. PICK r \in Requests : r = req[a]
    BY <1>1, <1>3
  <2>2. /\ returned[r] = None /\ \A b \in Apps : req[b] = r => b = a
        /\ returned' = [returned EXCEPT ![r] = Failed]
        /\ returned \in [Requests -> {None, Failed} \cup Bodies]
    BY <1>3, <2>1 DEF ChannelInv, Senders, Shapes, Fail
  <2>3. \A x \in Requests : x # r =>
          /\ returned'[x] = returned[x]
          /\ (\E b \in Apps : req'[b] = x) <=> (\E b \in Apps : req[b] = x)
    BY <1>1, <2>1, <2>2, ChannelAssumption
  <2>4. returned'[r] = Failed /\ \A b \in Apps : req'[b] # r
    BY <1>1, <2>1, <2>2, ChannelAssumption
  <2>5. Status[r] = "asked" /\ Status'[r] = "failed" /\ Given'[r] = Given[r]
    BY <2>1, <2>2, <2>4, Seen, ChannelAssumption
  <2>6. Status' = [Status EXCEPT ![r] = "failed"]
    BY <2>3, <2>5, StatusSteps
  <2>7. Given' = Given
    BY <2>3, <2>5, StatusSteps DEF Given
  <2> QED
    BY <1>1, <2>5, <2>6, <2>7 DEF Contract!Fail
<1> QED
  BY <1>2, <1>3

\* Reading the response answers the request, or fails it, or says nothing yet.
LEMMA ReadResponseAnswers ==
    ASSUME ChannelInv, NEW a \in Apps, ReadResponse(a)
    PROVE  UNCHANGED Contract!vars \/ \E r \in Requests : Contract!Answer(r) \/ Contract!Fail(r)
<1>1. pc[a] = "requesting" /\ inbox[a] # << >> /\ UNCHANGED authenticator /\ UNCHANGED response
  BY DEF ReadResponse, authenticator
<1>2. CASE Fail(a)
  BY <1>1, <1>2, FailFails
<1>3. CASE UNCHANGED <<req, returned>>
  BY <1>1, <1>3, Invisible
<1>4. CASE /\ OnChannel(a, Head(inbox[a]))
           /\ push(decoder[a], Head(inbox[a])).cmd = "cbor"
           /\ req' = [req EXCEPT ![a] = None]
           /\ returned' = [returned EXCEPT ![req[a]] = push(decoder[a], Head(inbox[a])).body]
  <2>1. /\ req \in [Apps -> Requests \cup {None}]
        /\ returned \in [Requests -> {None, Failed} \cup Bodies]
        /\ response \in [Requests -> {None} \cup Bodies]
        /\ req[a] # None
    BY <1>1 DEF ChannelInv, Shapes, Senders
  <2>2. PICK r \in Requests : r = req[a]
    BY <2>1
  <2>3. PICK p : p = response[r]
    OBVIOUS
  <2>4. p # None /\ push(decoder[a], Head(inbox[a])).body = p
    BY <1>1, <1>4, <2>2, <2>3, AnswerRead
  <2>5. returned' = [returned EXCEPT ![r] = p] /\ p # Failed
    BY <1>4, <2>1, <2>2, <2>3, <2>4, ChannelAssumption
  <2>6. returned[r] = None /\ \A b \in Apps : req[b] = r => b = a
    BY <2>1, <2>2 DEF ChannelInv, Senders
  <2>7. \A x \in Requests : x # r =>
          /\ returned'[x] = returned[x]
          /\ (\E b \in Apps : req'[b] = x) <=> (\E b \in Apps : req[b] = x)
    BY <1>4, <2>1, <2>2, <2>5, ChannelAssumption
  <2>8. returned'[r] = p /\ \A b \in Apps : req'[b] # r
    BY <1>4, <2>1, <2>2, <2>5, <2>6, ChannelAssumption
  <2>9. Status[r] = "asked" /\ Status'[r] = "answered" /\ Given'[r] = p
    BY <2>2, <2>4, <2>5, <2>8, Seen
  <2>10. /\ Status' = [Status EXCEPT ![r] = "answered"]
         /\ Given' = [Given EXCEPT ![r] = p]
    BY <2>7, <2>9, StatusSteps
  <2> QED
    BY <1>1, <2>3, <2>4, <2>9, <2>10 DEF Contract!Answer
<1> QED
  BY <1>2, <1>3, <1>4 DEF ReadResponse, app

\* The authenticator answers what was asked, and once.
LEMMA DeviceAnswerExecutes ==
    ASSUME ChannelInv, DeviceAnswer
    PROVE  \E r \in Requests : Contract!Execute(r)
<1>1. PICK r : r = RequestOf(working.body)
  OBVIOUS
<1>2. r \in Requests /\ Executing(r)
  BY <1>1, ExecutedRequest DEF DeviceAnswer
<1>3. PICK m \in ResponseLens : response' = [response EXCEPT ![r] = Reply(r, m)]
  BY <1>1 DEF DeviceAnswer
<1>4. Reply(r, m) \in Bodies
  BY <1>2 DEF Bodies
<1>5. UNCHANGED <<req, returned>>
  BY DEF DeviceAnswer, app
<1>6. UNCHANGED <<Status, Given>>
  BY <1>5 DEF Status, Given
<1>7. Status[r] \in {"asked", "failed"} /\ response[r] = None
  BY <1>2, Seen, ChannelAssumption DEF Executing, Asked
<1> QED
  BY <1>2, <1>3, <1>4, <1>6, <1>7 DEF Contract!Execute

\* Each step of the channel is a step of the contract, or invisible to it.
LEMMA NextContract ==
    ASSUME ChannelInv, [Next]_vars
    PROVE  [Contract!Next]_(Contract!vars)
<1> USE DEF Contract!Next
<1>1. ASSUME NEW a \in Apps,
             Allocate(a) \/ (ReadAllocating(a) /\ ~Fail(a)) \/ WriteReport(a) \/ Lose(a)
      PROVE  UNCHANGED Contract!vars
  BY <1>1, Invisible DEF Allocate, ReadAllocating, WriteReport, Lose, DeviceReceive, app,
                         authenticator
<1>2. ASSUME NEW a \in Apps, ReadAllocating(a) \/ Timeout(a) \/ Close(a), Fail(a)
      PROVE  [Contract!Next]_(Contract!vars)
  BY <1>2, FailFails DEF ReadAllocating, Timeout, Close
<1>3. ASSUME NEW a \in Apps, NEW r \in Requests, Request(a, r)
      PROVE  [Contract!Next]_(Contract!vars)
  BY <1>3, RequestAsks
<1>4. ASSUME NEW a \in Apps, ReadResponse(a) PROVE [Contract!Next]_(Contract!vars)
  BY <1>4, ReadResponseAnswers
<1>5. CASE DeviceAnswer
  BY <1>5, DeviceAnswerExecutes
<1>6. CASE DeviceFail \/ DeviceKeepalive \/ UNCHANGED vars
  BY <1>6, Invisible DEF DeviceFail, DeviceKeepalive, vars, app, authenticator
<1> QED
  BY <1>1, <1>2, <1>3, <1>4, <1>5, <1>6 DEF Next, Timeout, Close

\* Whatever the other applications do and however many reports are lost, a
\* request of `CtapHidChannel::request` is executed at most once and either
\* returns the authenticator's own response to it, whole, or fails.
THEOREM ExchangeKept == Spec => ExchangeContract
<1>1. Init => Contract!Init
  BY ChannelAssumption DEF Init, Contract!Init, Status, Given
<1>2. ChannelInv /\ [Next]_vars => [Contract!Next]_(Contract!vars)
  BY NextContract
<1> QED
  BY <1>1, <1>2, InitChannelInv, NextChannelInv, PTL DEF Spec, ExchangeContract, Contract!Spec
=============================================================================
