------------------------------ MODULE OathNames ------------------------------
(***************************************************************************)
(* The names of OATH credentials, "[period/][issuer:]account", which are   *)
(* the only place the period of a TOTP credential is stored: format_id and *)
(* parse_name of ckman-core.                                               *)
(*                                                                         *)
(* A name is a sequence of tokens: "/", ":", some text, and whole          *)
(* numerals, which are numbers.  Two numerals in a row are a run of digits *)
(* too long for the 32 bits of a period.                                   *)
(***************************************************************************)
EXTENDS Naturals, Sequences, SequencesExt

CONSTANTS
    Periods,         \* numerals of names, 30 among them
    DEFAULT_PERIOD,  \* 30 seconds
    Texts            \* tokens without digits, "/" and ":"

ASSUME NameAssumption ==
    /\ Periods \subseteq Nat
    /\ DEFAULT_PERIOD \in Periods

Slash == <<"/">>
Colon == <<":">>
Numeral(p) == <<"digits", p>>
Numerals == {Numeral(p) : p \in Periods}
Tokens   == {Slash, Colon} \cup Numerals \cup {<<t>> : t \in Texts}

(* split_once: the position of the first token t, 0 when there is none.     *)
Find(name, t) == SelectInSeq(name, LAMBDA u : u = t)
Head1(name, i) == SubSeq(name, 1, i - 1)
Tail1(name, i) == SubSeq(name, i + 1, Len(name))

AllDigits(part) == part # <<>> /\ \A i \in DOMAIN part : part[i] \in Numerals

(* A run of digits before the first "/".                                    *)
NumericPrefix(name) ==
    LET i == Find(name, Slash) IN i # 0 /\ AllDigits(Head1(name, i))

(* The same run, when it fits the 32 bits of a period.                      *)
HasPeriod(name) == NumericPrefix(name) /\ Find(name, Slash) = 2

format_id(issuer, account, kind, period) ==
    LET id == IF issuer = <<>> THEN account ELSE issuer \o <<Colon>> \o account
    IN  IF kind = "TOTP" /\ (period # DEFAULT_PERIOD \/ NumericPrefix(id))
        THEN <<Numeral(period), Slash>> \o id
        ELSE id

(* Mutant: a leading ":" read as the end of an empty issuer.                *)
parse_nameEmptyIssuer(raw, kind) ==
    LET timed  == kind = "TOTP" /\ HasPeriod(raw)
        rest   == IF timed THEN Tail1(raw, 2) ELSE raw
        colon  == Find(rest, Colon)
    IN  [period  |-> IF kind # "TOTP" THEN 0
                     ELSE IF timed THEN raw[1][2] ELSE DEFAULT_PERIOD,
         issuer  |-> Head1(rest, colon),
         account |-> Tail1(rest, colon)]

parse_name(raw, kind) ==
    LET timed  == kind = "TOTP" /\ HasPeriod(raw)
        rest   == IF timed THEN Tail1(raw, 2) ELSE raw
        colon  == Find(rest, Colon)
    IN  [period  |-> IF kind # "TOTP" THEN 0
                     ELSE IF timed THEN raw[1][2] ELSE DEFAULT_PERIOD,
         issuer  |-> IF colon > 1 THEN Head1(rest, colon) ELSE <<>>,
         account |-> IF colon > 1 THEN Tail1(rest, colon) ELSE rest]

(* accounts rename splits the new name at its first ":".                    *)
SplitName(text) ==
    LET i == Find(text, Colon)
    IN  [issuer  |-> IF i = 0 THEN <<>> ELSE Head1(text, i),
         account |-> Tail1(text, i)]
=============================================================================
