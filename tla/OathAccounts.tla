----------------------------- MODULE OathAccounts -----------------------------
(***************************************************************************)
(* The accounts commands (ckman/src/commands/oath.rs) on an OATH applet.   *)
(* A command lists the credentials, selects by name, asks, and sends one   *)
(* change, or one calculation after another.  The card is opened           *)
(* exclusively for the whole command, but a touch of its button types the  *)
(* code of a default account at any time, and any answer may be lost.      *)
(*                                                                         *)
(* Access keys are the subject of OathAccess: here the applet is unlocked. *)
(***************************************************************************)
EXTENDS OathNames, FiniteSets, TLC

CONSTANTS
    Firmwares,          \* major versions, among 1, 2 and 3
    Ids,                \* who an account is, whatever its name
    Existing,           \* sets of credentials other software may have left
    Issuers, Accounts,  \* what add and uri are given
    NewNames,           \* what rename is given
    Queries,
    Counters,           \* what add and uri are given
    MaxCounter,         \* the last counter of the applet
    MaxName,            \* the longest name, in tokens for 64 bytes
    Times,              \* seconds at which something happens
    Lower,              \* lower case of a text
    Hidden,             \* the issuer "_hidden"
    MaxCommands,        \* bound on the commands of a behaviour
    None

kind_of(c) == IF c.kind \in {"TOTP", "HOTP"} THEN c.kind ELSE None
Parsed(c)  == parse_name(c.name, IF kind_of(c) = None THEN "TOTP" ELSE c.kind)

(* The name shows the period, which is stored nowhere else, and is the one  *)
(* that add gives to the issuer and account it shows.                       *)
NamedAsShown(c) ==
    c.kind \in {"TOTP", "HOTP"} =>
        c.name = format_id(Parsed(c).issuer, Parsed(c).account, c.kind, c.period)

(* A credential of other software has the period its name shows; its        *)
(* counters count from here on, and its last time step is not ahead of the  *)
(* clock.                                                                   *)
OfOtherSoftware(c) ==
    /\ c = [id |-> c.id, name |-> c.name, kind |-> c.kind, period |-> c.period, moving |-> c.moving,
            first |-> c.first, increasing |-> c.increasing, generated |-> FALSE]
    /\ c.id # None /\ c.name \in Seq(Tokens) /\ c.increasing \in BOOLEAN
    /\ c.kind = "TOTP" => c.period \in Periods /\ c.period = Parsed(c).period
    /\ c.kind = "HOTP" => c.moving \in Nat /\ c.first = c.moving + 1
    /\ c.increasing =>
          c.kind = "TOTP" /\ c.moving \in Nat /\ c.first = c.moving
          /\ \A t \in Times : c.moving * c.period <= t

(* The other software names its credentials as add does.  It may write      *)
(* "30/account" just as well, which shows the same.                         *)
ConventionalNames == \A cards \in Existing : \A c \in cards : NamedAsShown(c)

\* The applet holds one credential of a name.
ASSUME AccountsAssumption ==
    /\ Lower \in [Texts -> Texts]
    /\ Counters \subseteq Nat /\ Times \subseteq Nat /\ MaxCounter \in Nat
    /\ Issuers \cup Accounts \cup NewNames \subseteq Seq(Tokens)
    /\ None \notin Ids \cup {"TOTP", "HOTP"}
    /\ \A cards \in Existing :
          /\ \A c \in cards : OfOtherSoftware(c)
          /\ \A c, d \in cards : c.id = d.id \/ c.name = d.name => c = d

VARIABLES
    firmware,
    card,       \* the credentials
    default,    \* the account a short or a long touch types the code of
    now,        \* the host's clock
    task,       \* what the running command still has to do
    codes,      \* codes the user got: account, moving factor and time
    lost,       \* counters used for a code whose answer was lost
    shown,      \* accounts whose generated secret was shown
    failed,     \* accounts an add of which failed
    kept,       \* accounts added and not asked to be deleted
    commands    \* commands started

vars == <<firmware, card, default, now, task, codes, lost, shown, failed, kept, commands>>
host == <<codes, lost, shown, failed, kept>>

NoTask == [op |-> "none"]

Init ==
    /\ firmware \in Firmwares
    /\ card \in Existing
    /\ default = [slot \in {"short", "long"} |-> None]
    /\ now \in Times
    /\ task = NoTask
    /\ codes = {} /\ lost = {} /\ shown = {} /\ failed = {}
    /\ kept = {c.id : c \in card}
    /\ commands = 0

Tick ==
    /\ now' \in {t \in Times : t > now}
    /\ UNCHANGED <<firmware, card, default, task, host, commands>>

-----------------------------------------------------------------------------
(* Selecting credentials by name.                                           *)

LowerCase(name) ==
    [i \in DOMAIN name |->
        IF \E t \in Texts : name[i] = <<t>> THEN <<Lower[name[i][1]]>> ELSE name[i]]

HasPart(name, part) ==
    \E i \in 1..(Len(name) + 1 - Len(part)) : SubSeq(name, i, i + Len(part) - 1) = part

(* An exact match wins over names that merely contain the query.            *)
search(entries, query, show_hidden) ==
    LET visible == {c \in entries : show_hidden \/ Parsed(c).issuer # Hidden}
        exact   == {c \in visible : c.name = query}
    IN  IF exact # {} THEN exact
        ELSE {c \in visible : HasPart(LowerCase(c.name), LowerCase(query))}

NameFits(name) == Len(name) \in 1..MaxName

-----------------------------------------------------------------------------
(* The steps commands are made of.                                          *)

Ready == task = NoTask /\ commands < MaxCommands

Begin ==
    /\ commands' = commands + 1
    /\ UNCHANGED <<firmware, card, default, now, codes, lost, shown>>

Stop == Begin /\ task' = NoTask /\ UNCHANGED <<failed, kept>>

Submit(j) == Begin /\ task' = j /\ UNCHANGED <<failed, kept>>

(* Connecting, or listing, may fail before anything is done.                *)
ConnectFails == Ready /\ Stop

Fresh == Ids \ ({c.id : c \in card} \cup kept \cup failed \cup shown \cup {p.id : p \in codes \cup lost})

(* Without --force an account of that name is looked for first; the applet  *)
(* itself refuses to replace one.                                           *)
add_credential(issuer, account, kind, period, counter, first, generated, force) ==
    LET name == format_id(issuer, account, kind, period) IN
    IF (kind = "TOTP" /\ period = 0) \/ ~NameFits(name) \/ (~force /\ \E c \in card : c.name = name)
    THEN Stop
    ELSE \E id \in Fresh :
            Submit([op |-> "add",
                    cred |-> [id |-> id, name |-> name, kind |-> kind,
                              period |-> IF kind = "TOTP" THEN period ELSE 0,
                              moving |-> counter, first |-> first,
                              increasing |-> FALSE, generated |-> generated]])

(* The secret is an argument, typed, or generated; not both of these.        *)
AddInput == {in \in [issuer : Issuers, account : Accounts, kind : {"TOTP", "HOTP"},
                     counter : Counters, period : Periods, secret : {"given", "generated", "both"}] :
               in.kind = "HOTP" => in.period = DEFAULT_PERIOD}    \* HOTP makes no use of it

UriInput == {in \in AddInput : in.secret = "given"}

accounts_add(in, force) ==
    IF in.secret = "both" \/ (in.counter # 0 /\ in.kind # "HOTP")
    THEN Stop
    ELSE add_credential(in.issuer, in.account, in.kind, in.period, in.counter, in.counter + 1,
                        in.secret = "generated", force)

(* Mutant: the URI's counter is stored as it is.                            *)
uri_counter_as_given(kind, counter) == IF kind = "HOTP" \/ counter = 0 THEN counter ELSE None

(* A URI says the next counter, the applet stores the last one.             *)
uri_initial_counter(kind, counter) ==
    IF kind = "HOTP" THEN IF counter = 0 THEN None ELSE counter - 1
    ELSE IF counter = 0 THEN 0 ELSE None

accounts_uri(in, force) ==
    LET counter == uri_initial_counter(in.kind, in.counter) IN
    IF counter = None THEN Stop
    ELSE add_credential(in.issuer, in.account, in.kind, in.period, counter, in.counter, FALSE, force)

(* One account must match.                                                  *)
WithTheMatch(query, Do(_)) ==
    LET hits == search(card, query, TRUE) IN
    IF Cardinality(hits) = 1 THEN \E c \in hits : Do(c) ELSE Stop

(* Mutant: the new name is not looked for.                                  *)
NameTakenUnchecked(name) == FALSE

NameTaken(name) == \E c \in card : c.name = name

accounts_rename(query, text, force) ==
    WithTheMatch(query, LAMBDA c :
        LET parts == SplitName(text)
            name  == format_id(parts.issuer, parts.account, c.kind, Parsed(c).period)
        IN  \/ (kind_of(c) = None \/ NameTaken(name)) /\ Stop
            \/ kind_of(c) # None /\ ~NameTaken(name) /\
                  \/ ~force /\ Stop
                  \/ ~NameFits(name) /\ Stop
                  \/ NameFits(name) /\ Submit([op |-> "rename", old |-> c.name, new |-> name]))

accounts_set_default(query, slot, enter) ==
    WithTheMatch(query, LAMBDA c :
        IF kind_of(c) # "HOTP" \/ (firmware < 3 /\ (slot = "long" \/ enter)) THEN Stop
        ELSE Submit([op |-> "set_default", slot |-> slot, name |-> c.name]))

accounts_delete(query, force) ==
    WithTheMatch(query, LAMBDA c :
        \/ ~force /\ Stop
        \/ /\ Begin /\ UNCHANGED failed
           /\ task' = [op |-> "delete", name |-> c.name]
           /\ kept' = kept \ {c.id})

accounts_list == Stop

accounts_code(query, single, show_hidden) ==
    LET hits == search(card, query, show_hidden) IN
    IF single /\ Cardinality(hits) # 1 THEN Stop
    ELSE IF hits = {} THEN Stop
    ELSE Submit([op |-> "code", rest |-> {c.name : c \in hits}, one_match |-> Cardinality(hits) = 1])

-----------------------------------------------------------------------------
(* The applet's answers.  A card command may fail before it is done, or be  *)
(* done and its answer lost.                                                *)

Finish == task' = NoTask

CardFails ==
    /\ task # NoTask
    /\ Finish
    /\ failed' = IF task.op = "add" THEN failed \cup {task.cred.id} ELSE failed
    /\ UNCHANGED <<firmware, card, default, now, codes, lost, shown, kept, commands>>

(* Mutant: the secret is printed whatever the answer.                       *)
AddCredentialTellsFirst(answered) ==
    /\ task.op = "add" /\ ~NameTaken(task.cred.name)
    /\ card' = card \cup {task.cred}
    /\ kept' = kept \cup {task.cred.id}
    /\ failed' = IF answered THEN failed ELSE failed \cup {task.cred.id}
    /\ shown' = IF task.cred.generated THEN shown \cup {task.cred.id} ELSE shown
    /\ Finish
    /\ UNCHANGED <<firmware, default, now, codes, lost, commands>>

(* The applet does not replace a credential; a generated secret is shown    *)
(* after its answer.                                                        *)
AddCredential(answered) ==
    /\ task.op = "add" /\ ~NameTaken(task.cred.name)
    /\ card' = card \cup {task.cred}
    /\ kept' = kept \cup {task.cred.id}
    /\ failed' = IF answered THEN failed ELSE failed \cup {task.cred.id}
    /\ shown' = IF task.cred.generated /\ answered THEN shown \cup {task.cred.id} ELSE shown
    /\ Finish
    /\ UNCHANGED <<firmware, default, now, codes, lost, commands>>

Named(name) == {c \in card : c.name = name}

(* Before 2.0 the applet replaces an existing destination.                  *)
RenameCredential ==
    /\ task.op = "rename"
    /\ firmware >= 2 => Named(task.new) = {}
    /\ card' = (card \ (Named(task.new) \cup Named(task.old)))
                 \cup {[c EXCEPT !.name = task.new] : c \in Named(task.old)}
    /\ Finish
    /\ UNCHANGED <<firmware, default, now, host, commands>>

DeleteCredential ==
    /\ task.op = "delete"
    /\ card' = card \ Named(task.name)
    /\ default' = [slot \in DOMAIN default |->
                     IF default[slot] \in {c.id : c \in Named(task.name)} THEN None ELSE default[slot]]
    /\ Finish
    /\ UNCHANGED <<firmware, now, host, commands>>

SetDefault ==
    /\ task.op = "set_default"
    /\ \E c \in Named(task.name) : default' = [default EXCEPT ![task.slot] = c.id]
    /\ Finish
    /\ UNCHANGED <<firmware, card, now, host, commands>>

-----------------------------------------------------------------------------
(* Codes.                                                                   *)

(* Mutant: one challenge for all accounts, as CALCULATE ALL would send.     *)
totp_challengeOfAll(timestamp, period) == timestamp \div DEFAULT_PERIOD

totp_challenge(timestamp, period) == timestamp \div period

(* What one calculation of c uses, and whether the applet agrees to it.     *)
Factor(c) == IF c.kind = "HOTP" THEN c.moving + 1 ELSE totp_challenge(now, Parsed(c).period)
Agrees(c) == IF c.kind = "HOTP" THEN c.moving < MaxCounter
             ELSE c.increasing => Factor(c) >= c.moving

(* The credential after the calculation.                                    *)
Moved(c) == IF c.kind = "HOTP" \/ c.increasing THEN [c EXCEPT !.moving = Factor(c)] ELSE c

CodeOf(c) == [id |-> c.id, kind |-> c.kind, period |-> c.period, factor |-> Factor(c), at |-> now]

Calculates(c) == kind_of(c) = "TOTP" \/ (kind_of(c) = "HOTP" /\ task.one_match)

(* Each row is out before the next calculation.                             *)
NextRow(name) ==
    IF task.rest = {name} THEN Finish
    ELSE task' = [task EXCEPT !.rest = @ \ {name}]

(* Rows that need no card, and rows that stop the command.                  *)
RowWithoutCode ==
    /\ task.op = "code"
    /\ \E name \in task.rest : \E c \in Named(name) :
         IF kind_of(c) = "HOTP" /\ ~task.one_match
         THEN NextRow(name)
         ELSE /\ kind_of(c) = None \/ (kind_of(c) = "TOTP" /\ Parsed(c).period = 0)
              /\ Finish
    /\ UNCHANGED <<firmware, card, default, now, host, commands>>

(* calculate_one: one credential, with the time step of its own period.     *)
Calculate(answered) ==
    /\ task.op = "code"
    /\ \E name \in task.rest : \E c \in Named(name) :
         /\ Calculates(c)
         /\ kind_of(c) = "TOTP" => Parsed(c).period # 0
         /\ Agrees(c)
         /\ card' = (card \ {c}) \cup {Moved(c)}
         /\ IF answered
            THEN codes' = codes \cup {CodeOf(c)} /\ NextRow(name) /\ UNCHANGED lost
            ELSE lost' = lost \cup {CodeOf(c)} /\ Finish /\ UNCHANGED codes
    /\ UNCHANGED <<firmware, default, now, shown, failed, kept, commands>>

(* A touch types the next code of the slot's default account.               *)
KeyboardTouch(slot) ==
    /\ \E c \in {d \in card : d.id = default[slot] /\ Agrees(d)} :
         /\ card' = (card \ {c}) \cup {Moved(c)}
         /\ codes' = codes \cup {CodeOf(c)}
    /\ UNCHANGED <<firmware, default, now, task, lost, shown, failed, kept, commands>>

-----------------------------------------------------------------------------
AccountsCommand ==
    /\ Ready
    /\ \/ \E in \in AddInput, force \in BOOLEAN : accounts_add(in, force)
       \/ \E in \in UriInput, force \in BOOLEAN : accounts_uri(in, force)
       \/ \E query \in Queries :
             \/ \E force \in BOOLEAN : accounts_delete(query, force)
             \/ \E name \in NewNames, force \in BOOLEAN : accounts_rename(query, name, force)
             \/ \E slot \in DOMAIN default, enter \in BOOLEAN :
                   accounts_set_default(query, slot, enter)
             \/ \E single, show_hidden \in BOOLEAN : accounts_code(query, single, show_hidden)
       \/ accounts_list

Next ==
    \/ Tick
    \/ ConnectFails
    \/ AccountsCommand
    \/ CardFails
    \/ \E answered \in BOOLEAN : AddCredential(answered) \/ Calculate(answered)
    \/ RenameCredential \/ DeleteCredential \/ SetDefault
    \/ RowWithoutCode
    \/ \E slot \in DOMAIN default : KeyboardTouch(slot)

Spec == Init /\ [][Next]_vars

-----------------------------------------------------------------------------
(* A time-based code is the one of the time it was asked at, under the      *)
(* period its account was added with, whatever it was named and renamed     *)
(* since; and no calculation moved a credential that refuses older steps    *)
(* beyond its own time step, after which it would refuse the right ones.    *)
TotpCodesRight ==
    /\ \A p \in codes \cup lost : p.kind = "TOTP" => p.factor = p.at \div p.period
    /\ \A c \in card : c.increasing => c.moving * c.period <= now

(* Every counter an account has used up, starting with the first one its    *)
(* issuer expects, and the time step a credential is at, is that of a code  *)
(* the user got or of a code whose answer was lost in a command that said   *)
(* it failed: no code is calculated and then forgotten.                     *)
CodesAccounted ==
    \A c \in card :
        LET factors == {p.factor : p \in {q \in codes \cup lost : q.id = c.id}}
        IN  /\ c.kind = "HOTP" => c.first..c.moving \subseteq factors
            /\ c.increasing /\ c.moving # c.first => c.moving \in factors

(* An account that was added, and that nobody asked to delete by a query    *)
(* only it matches, stays on the key, whatever is renamed to its name.      *)
NoAccountLost == kept \subseteq {c.id : c \in card}

(* A generated secret is shown for an account that is on the key, and an    *)
(* account whose generated secret was never shown is one whose add failed,  *)
(* so that its user knows to delete it.                                     *)
SecretShown ==
    /\ shown \cap failed = {}
    /\ \A c \in card : c.generated => c.id \in shown \cup failed

(* The issuer and account that the name of an account shows, written with   *)
(* the period it was added with, give its name: add's search for the name   *)
(* finds the account it would duplicate.  So it stays, when it is so of the *)
(* names that other software left (ConventionalNames).                      *)
NameReadBack == \A c \in card : NamedAsShown(c)
=============================================================================
