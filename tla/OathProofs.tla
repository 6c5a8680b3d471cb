----------------------------- MODULE OathProofs -----------------------------
(***************************************************************************)
(* OATH, for any hosts, passwords, device handles, names and accounts.     *)
(*                                                                         *)
(* Access: a command holds the card exclusively, so the applet's key       *)
(* changes only by the command's own step; what a keyring holds is         *)
(* compared with it before the command goes on.                            *)
(*                                                                         *)
(* Accounts: what a command read of the card still holds when it sends its *)
(* change, because the touches that happen meanwhile only move counters.   *)
(* What format_id writes, parse_name reads: the period of a name is the    *)
(* one its account was added with.                                         *)
(***************************************************************************)
EXTENDS OathAccess, OathAccounts, SequenceTheorems, WellFoundedInduction, TLAPS

-----------------------------------------------------------------------------
(* Access: what is true between the steps of a command.                     *)

AccessTypes ==
    /\ job \in Jobs
    /\ keyring \in [Hosts -> past \cup {Absent}]
    /\ lock \in past \cup {Absent}
    /\ key \in past \cup {Absent}

(* What a command knows at each of its steps.                               *)
Knows ==
    /\ pc # "idle" => result = "none"
    /\ pc = "select" => typed = job.given
    /\ pc = "validate" => typed # Absent
    /\ pc = "remember" => key = lock
    /\ pc = "keyring" => job.op # "use"
    /\ pc = "keyring" /\ job.op = "change" => lock = derive_key_bytes(job.new)
    /\ pc \in {"forget", "reset"} => job.op = pc

(* A command without a password has consulted the keyring when it goes on.  *)
Consulted ==
    pc \in {"prompt", "validate", "remember", "operate"} /\ job.op = "use" /\ job.given = Absent =>
        keyringFailed \/ lock = Absent \/ keyring[job.host] \in {Absent, lock}

AccessInv == AccessTypes /\ Knows /\ Consulted /\ StaleKeyNeverDenies /\ SuccessSettlesKeyring

-----------------------------------------------------------------------------
(* A new command knows nothing but what it was given.                       *)
LEMMA StartKeeps ==
    ASSUME AccessInv, Command
    PROVE  AccessInv'
<1>1. PICK op \in {"use", "change", "clear", "remember", "forget", "reset"}, h \in Hosts,
           given \in Passwords \cup {Absent}, new \in Passwords \cup {Absent}, r \in BOOLEAN :
        Start(op, h, given, new, r)
  BY DEF Command
<1>2. AccessTypes'
  BY <1>1 DEF AccessInv, AccessTypes, Start, Jobs
<1>3. Knows'
  BY <1>1 DEF Start, Knows
<1>4. Consulted' /\ StaleKeyNeverDenies' /\ SuccessSettlesKeyring'
  BY <1>1 DEF Start, Consulted, StaleKeyNeverDenies, SuccessSettlesKeyring
<1> QED BY <1>2, <1>3, <1>4 DEF AccessInv

(* Unlocking compares keys with the applet's and changes only the keyring.  *)
LEMMA UnlockingKeeps ==
    ASSUME AccessInv, Abort \/ Select \/ Prompt \/ Validate \/ Recall
    PROVE  AccessInv'
<1> USE DEF AccessInv, End, Go
<1>1. CASE Abort
  BY <1>1 DEF Abort, session, AccessTypes, Knows, Consulted, StaleKeyNeverDenies, SuccessSettlesKeyring
<1>2. CASE Select
  <2>1. AccessTypes' /\ Knows' /\ Consulted'
    BY <1>2 DEF Select, Unlocked, session, AccessTypes, Knows, Consulted
  <2>2. StaleKeyNeverDenies' /\ SuccessSettlesKeyring'
    BY <1>2 DEF Select, Unlocked, session, Knows, StaleKeyNeverDenies, SuccessSettlesKeyring
  <2> QED BY <2>1, <2>2
<1>3. CASE Prompt
  BY <1>3, OathAssumption DEF Prompt, AccessTypes, Knows, Consulted, StaleKeyNeverDenies,
     SuccessSettlesKeyring
<1>4. CASE Validate
  <2>1. AccessTypes' /\ Knows' /\ Consulted'
    BY <1>4 DEF Validate, AccessTypes, Knows, Consulted
  <2>2. StaleKeyNeverDenies' /\ SuccessSettlesKeyring'
    BY <1>4 DEF Validate, Knows, StaleKeyNeverDenies, SuccessSettlesKeyring, derive_key_bytes
  <2> QED BY <2>1, <2>2
<1>5. CASE Recall
  <2>1. AccessTypes' /\ Knows'
    BY <1>5 DEF Recall, AccessTypes, Knows, Jobs
  <2>2. Consulted'
    BY <1>5 DEF Recall, AccessTypes, Consulted, Jobs
  <2>3. StaleKeyNeverDenies' /\ SuccessSettlesKeyring'
    BY <1>5 DEF Recall, Knows, StaleKeyNeverDenies, SuccessSettlesKeyring
  <2> QED BY <2>1, <2>2, <2>3
<1> QED BY <1>1, <1>2, <1>3, <1>4, <1>5

(* The keyring receives only the applet's key or none.                      *)
LEMMA KeyringKeeps ==
    ASSUME AccessInv, Remember \/ UpdateKeyring
    PROVE  AccessInv'
<1> USE DEF AccessInv, End, Go, Store
<1>1. job.host \in Hosts
  BY DEF AccessTypes, Jobs
<1>2. CASE Remember
  <2>1. AccessTypes' /\ Knows' /\ Consulted'
    BY <1>1, <1>2 DEF Remember, session, AccessTypes, Knows, Consulted
  <2>2. StaleKeyNeverDenies' /\ SuccessSettlesKeyring'
    BY <1>1, <1>2 DEF Remember, session, AccessTypes, Knows, StaleKeyNeverDenies, SuccessSettlesKeyring
  <2> QED BY <2>1, <2>2
<1>3. CASE UpdateKeyring
  <2>1. NewKeyringKey = Absent \/ (NewKeyringKey = lock /\ lock \in past \cup {Absent})
    BY <1>3 DEF UpdateKeyring, NewKeyringKey, AccessTypes, Knows
  <2>2. AccessTypes' /\ Knows' /\ Consulted'
    BY <1>1, <1>3, <2>1 DEF UpdateKeyring, session, AccessTypes, Knows, Consulted
  <2>3. StaleKeyNeverDenies' /\ SuccessSettlesKeyring'
    BY <1>1, <1>3, <2>1 DEF UpdateKeyring, session, AccessTypes, Knows, StaleKeyNeverDenies,
       SuccessSettlesKeyring
  <2> QED BY <2>2, <2>3
<1> QED BY <1>2, <1>3

(* The operations: only these give the applet another key.                  *)
LEMMA OperationsKeep ==
    ASSUME AccessInv, Operate \/ ChangePassword \/ NoPasswordSupport \/ ClearPassword \/ Reset
    PROVE  AccessInv'
<1> USE DEF AccessInv, End, Go, Answered
<1>1. CASE Operate
  BY <1>1 DEF Operate, session, AccessTypes, Knows, Consulted, StaleKeyNeverDenies,
     SuccessSettlesKeyring, Settling
<1>2. CASE NoPasswordSupport
  BY <1>2 DEF NoPasswordSupport, session, AccessTypes, Knows, Consulted, StaleKeyNeverDenies,
     SuccessSettlesKeyring
<1>3. CASE ChangePassword
  <2>1. /\ pc = "operate" /\ job.op = "change"
        /\ lock' = derive_key_bytes(job.new) /\ past' = past \cup {lock'}
        /\ \/ pc' = "keyring" /\ result' = result
           \/ pc' = "idle" /\ result' = "failed"
        /\ UNCHANGED <<handle, keyring, job, key, typed, keyringFailed>>
    BY <1>3 DEF ChangePassword, session
  <2>2. AccessTypes'
    BY <2>1 DEF AccessTypes
  <2>3. derive_key_bytes(job.new)' = derive_key_bytes(job.new)
    BY <2>1 DEF derive_key_bytes
  <2>4. Knows'
    BY <2>1, <2>3 DEF Knows
  <2>5. Consulted' /\ StaleKeyNeverDenies' /\ SuccessSettlesKeyring'
    BY <2>1 DEF Knows, Consulted, StaleKeyNeverDenies, SuccessSettlesKeyring
  <2> QED BY <2>2, <2>4, <2>5
<1>4. CASE ClearPassword
  BY <1>4 DEF ClearPassword, session, AccessTypes, Knows, Consulted, StaleKeyNeverDenies,
     SuccessSettlesKeyring
<1>5. CASE Reset
  BY <1>5 DEF Reset, session, AccessTypes, Knows, Consulted, StaleKeyNeverDenies,
     SuccessSettlesKeyring
<1> QED BY <1>1, <1>2, <1>3, <1>4, <1>5

-----------------------------------------------------------------------------
(* The inductive invariant holds of every sequence of commands.             *)
LEMMA AccessInvariance == AccessSpec => []AccessInv
<1>1. AccessInit => AccessInv
  BY DEF AccessInit, AccessInv, AccessTypes, Knows, Consulted, StaleKeyNeverDenies, SuccessSettlesKeyring
<1>2. AccessInv /\ [AccessNext]_accessVars => AccessInv'
  <2>1. CASE UNCHANGED accessVars
    BY <2>1 DEF accessVars, AccessInv, AccessTypes, Knows, Consulted, StaleKeyNeverDenies, SuccessSettlesKeyring,
       Settling, derive_key_bytes
  <2> QED BY <2>1, StartKeeps, UnlockingKeeps, KeyringKeeps, OperationsKeep
          DEF AccessNext
<1> QED BY <1>1, <1>2, PTL DEF AccessSpec

(* A keyring never holds a key the applet has not had                       *)
(* (RememberedKeyWorked).                                                   *)
THEOREM OnlyWorkingKeysRemembered == AccessSpec => []RememberedKeyWorked
<1>1. AccessInv => RememberedKeyWorked
  BY DEF AccessInv, AccessTypes, RememberedKeyWorked
<1> QED BY <1>1, AccessInvariance, PTL

(* Only the password its user entered makes a command report a wrong one    *)
(* (StaleKeyNeverDenies).                                                   *)
THEOREM StaleKeysForgotten == AccessSpec => []StaleKeyNeverDenies
BY AccessInvariance, PTL DEF AccessInv

(* A success that concerned the remembered key leaves none that is stale    *)
(* (SuccessSettlesKeyring).                                                 *)
THEOREM KeyringSettled == AccessSpec => []SuccessSettlesKeyring
BY AccessInvariance, PTL DEF AccessInv

-----------------------------------------------------------------------------
(* Names. *)

\* The first position of a token in a name, or zero.
LEMMA FindIs ==
    ASSUME NEW S, NEW name \in Seq(S), NEW t
    PROVE  \/ Find(name, t) = 0 /\ \A j \in 1..Len(name) : name[j] # t
           \/ /\ Find(name, t) \in 1..Len(name) /\ name[Find(name, t)] = t
              /\ \A j \in 1..Len(name) : name[j] = t => Find(name, t) <= j
<1> DEFINE at == {i \in 1..Len(name) : name[i] = t}
<1>1. Find(name, t) = IF at # {} THEN Min(at) ELSE 0
  BY DEF Find, SelectInSeq
<1>2. CASE at = {}
  BY <1>1, <1>2
<1>3. CASE at # {}
  <2>1. \E x \in at : \A y \in at : ~(<<y, x>> \in OpToRel(<, Nat))
    <3>1. at \subseteq Nat
      OBVIOUS
    <3> HIDE DEF at
    <3> QED
      BY <1>3, <3>1, NatLessThanWellFounded, WFMin
  <2>2. PICK x \in at : \A y \in at : ~(y < x)
    <3>1. \A k, m \in Nat : k < m => <<k, m>> \in OpToRel(<, Nat)
      BY Zenon DEF OpToRel
    <3>2. at \subseteq Nat
      OBVIOUS
    <3> HIDE DEF at
    <3> QED
      BY <2>1, <3>1, <3>2, Zenon
  <2>3. \A y \in at : x <= y
    BY <2>2
  <2>4. Min(at) \in at /\ \A y \in at : Min(at) <= y
    BY <2>3 DEF Min
  <2> QED
    BY <1>1, <1>3, <2>4
<1> QED
  BY <1>2, <1>3

\* The part of a name before a position, and the part after it.
LEMMA HeadAndTail ==
    ASSUME NEW name \in Seq(Tokens), NEW i \in 1..Len(name)
    PROVE  /\ Head1(name, i) \in Seq(Tokens) /\ Len(Head1(name, i)) = i - 1
           /\ \A j \in 1..(i - 1) : Head1(name, i)[j] = name[j]
           /\ Tail1(name, i) \in Seq(Tokens) /\ Len(Tail1(name, i)) = Len(name) - i
           /\ \A j \in 1..(Len(name) - i) : Tail1(name, i)[j] = name[i + j]
<1>1. Len(name) \in Nat /\ \A j \in 1..Len(name) : name[j] \in Tokens
  BY LenProperties
<1>2. /\ SubSeq(name, 1, i - 1) \in Seq(Tokens)
      /\ Len(SubSeq(name, 1, i - 1)) = IF 1 <= i - 1 THEN i - 1 - 1 + 1 ELSE 0
      /\ \A j \in 1..(i - 1 - 1 + 1) : SubSeq(name, 1, i - 1)[j] = name[1 + j - 1]
  <2>1. 1 \in Int /\ i - 1 \in Int /\ \A j \in 1..(i - 1) : name[j] \in Tokens
    BY <1>1
  <2> QED
    BY <2>1, SubSeqProperties
<1>3. /\ SubSeq(name, i + 1, Len(name)) \in Seq(Tokens)
      /\ Len(SubSeq(name, i + 1, Len(name))) = IF i + 1 <= Len(name) THEN Len(name) - (i + 1) + 1 ELSE 0
      /\ \A j \in 1..(Len(name) - (i + 1) + 1) :
            SubSeq(name, i + 1, Len(name))[j] = name[i + 1 + j - 1]
  <2>1. i + 1 \in Int /\ Len(name) \in Int /\ \A j \in (i + 1)..Len(name) : name[j] \in Tokens
    BY <1>1
  <2> QED
    BY <2>1, SubSeqProperties
<1>4. /\ Len(SubSeq(name, 1, i - 1)) = i - 1
      /\ \A j \in 1..(i - 1) : SubSeq(name, 1, i - 1)[j] = name[j]
  BY <1>1, <1>2
<1>5. /\ Len(SubSeq(name, i + 1, Len(name))) = Len(name) - i
      /\ \A j \in 1..(Len(name) - i) : SubSeq(name, i + 1, Len(name))[j] = name[i + j]
  BY <1>1, <1>3
<1> QED
  BY <1>2, <1>3, <1>4, <1>5 DEF Head1, Tail1

\* A name with a period in front.
LEMMA WithPeriod ==
    ASSUME NEW p, NEW id \in Seq(Tokens), Numeral(p) \in Numerals
    PROVE  LET name == <<Numeral(p), Slash>> \o id IN
           /\ name \in Seq(Tokens) /\ HasPeriod(name) /\ name[1] = Numeral(p)
           /\ Tail1(name, 2) = id
<1> DEFINE front == <<Numeral(p), Slash>>
           name  == front \o id
<1>1. front \in Seq(Tokens) /\ Len(front) = 2 /\ front[1] = Numeral(p) /\ front[2] = Slash
  BY DEF Tokens
<1>2. Numeral(p) # Slash
  BY DEF Numeral, Slash
<1> HIDE DEF front
<1>3. /\ name \in Seq(Tokens) /\ Len(name) = 2 + Len(id) /\ Len(id) \in Nat
      /\ name[1] = Numeral(p) /\ name[2] = Slash
      /\ \A i \in 1..Len(id) : name[i + 2] = id[i]
  <2>1. Len(id) \in Nat /\ Len(name) = 2 + Len(id) /\ name \in Seq(Tokens)
    BY <1>1, ConcatProperties, LenProperties
  <2>2. \A i \in 1..(2 + Len(id)) : name[i] = IF i <= 2 THEN front[i] ELSE id[i - 2]
    <3>1. \A i \in 1..Len(front) + Len(id) :
             name[i] = IF i <= Len(front) THEN front[i] ELSE id[i - Len(front)]
      BY <1>1, ConcatProperties
    <3> HIDE DEF name
    <3> QED
      BY <1>1, <3>1
  <2> HIDE DEF name
  <2>3. name[1] = front[1] /\ name[2] = front[2]
    <3>1. 1 \in 1..(2 + Len(id)) /\ 2 \in 1..(2 + Len(id))
      BY <2>1
    <3> QED
      BY <2>2, <3>1
  <2>4. \A i \in 1..Len(id) : name[i + 2] = id[i]
    <3> TAKE i \in 1..Len(id)
    <3>1. i + 2 \in 1..(2 + Len(id)) /\ ~(i + 2 <= 2) /\ i + 2 - 2 = i
      BY <2>1
    <3> QED
      BY <2>2, <3>1
  <2> QED
    BY <1>1, <2>1, <2>3, <2>4
<1> HIDE DEF name
<1>4. Find(name, Slash) = 2
  <2>1. 2 \in 1..Len(name) /\ 1 \in 1..Len(name)
    BY <1>3
  <2>2. Find(name, Slash) \in 1..Len(name) /\ Find(name, Slash) <= 2
    BY <1>3, <2>1, FindIs
  <2>3. Find(name, Slash) # 1
    BY <1>2, <1>3, <2>1, FindIs
  <2> QED
    BY <1>3, <2>2, <2>3
<1>5. /\ Head1(name, 2) \in Seq(Tokens) /\ Len(Head1(name, 2)) = 1
      /\ Head1(name, 2)[1] = Numeral(p)
  <2>1. 2 \in 1..Len(name)
    BY <1>3
  <2>2. /\ Head1(name, 2) \in Seq(Tokens) /\ Len(Head1(name, 2)) = 2 - 1
        /\ \A j \in 1..(2 - 1) : Head1(name, 2)[j] = name[j]
    BY <1>3, <2>1, HeadAndTail
  <2>3. 1 \in 1..(2 - 1)
    OBVIOUS
  <2> QED
    BY <1>3, <2>2, <2>3
<1>6. AllDigits(Head1(name, 2))
  <2>1. DOMAIN Head1(name, 2) = {1} /\ Head1(name, 2) # << >>
    <3>1. DOMAIN Head1(name, 2) = 1..Len(Head1(name, 2))
      BY <1>5, LenProperties
    <3>2. 1..1 = {1}
      OBVIOUS
    <3> QED
      BY <1>5, <3>1, <3>2, EmptySeq
  <2> QED
    BY <1>5, <2>1 DEF AllDigits
<1>7. HasPeriod(name)
  BY <1>4, <1>6 DEF HasPeriod, NumericPrefix
<1>8. Tail1(name, 2) = id
  <2>1. 2 \in 1..Len(name)
    BY <1>3
  <2>2. /\ Tail1(name, 2) \in Seq(Tokens) /\ Len(Tail1(name, 2)) = Len(name) - 2
        /\ \A j \in 1..(Len(name) - 2) : Tail1(name, 2)[j] = name[2 + j]
    BY <1>3, <2>1, HeadAndTail
  <2>3. Len(Tail1(name, 2)) = Len(id) /\ \A j \in 1..Len(id) : Tail1(name, 2)[j] = id[j]
    BY <1>3, <2>2
  <2> QED
    BY <2>2, <2>3, SeqEqual
<1> QED
  BY <1>3, <1>7, <1>8 DEF name, front

(* The name without its period.                                             *)
Id(issuer, account) == IF issuer = << >> THEN account ELSE issuer \o <<Colon>> \o account

\* The issuer and the account of an identifier give it back.
LEMMA SplitAndJoin ==
    ASSUME NEW rest \in Seq(Tokens), NEW issuer, NEW account,
           issuer = IF Find(rest, Colon) > 1 THEN Head1(rest, Find(rest, Colon)) ELSE << >>,
           account = IF Find(rest, Colon) > 1 THEN Tail1(rest, Find(rest, Colon)) ELSE rest
    PROVE  /\ issuer \in Seq(Tokens) /\ account \in Seq(Tokens)
           /\ Id(issuer, account) = rest
<1>1. Len(rest) \in Nat
  BY LenProperties
<1>2. PICK i : /\ i = Find(rest, Colon)
               /\ i = 0 \/ (i \in 1..Len(rest) /\ rest[i] = Colon)
  BY FindIs
<1>3. CASE i > 1
  <2>1. i \in 1..Len(rest) /\ rest[i] = Colon /\ issuer = Head1(rest, i) /\ account = Tail1(rest, i)
    BY <1>2, <1>3
  <2>2. /\ issuer \in Seq(Tokens) /\ Len(issuer) = i - 1
        /\ \A j \in 1..(i - 1) : issuer[j] = rest[j]
        /\ account \in Seq(Tokens) /\ Len(account) = Len(rest) - i
        /\ \A j \in 1..(Len(rest) - i) : account[j] = rest[i + j]
    <3>1. /\ Head1(rest, i) \in Seq(Tokens) /\ Len(Head1(rest, i)) = i - 1
          /\ \A j \in 1..(i - 1) : Head1(rest, i)[j] = rest[j]
          /\ Tail1(rest, i) \in Seq(Tokens) /\ Len(Tail1(rest, i)) = Len(rest) - i
          /\ \A j \in 1..(Len(rest) - i) : Tail1(rest, i)[j] = rest[i + j]
      <4>1. i \in 1..Len(rest)
        BY <2>1
      <4> QED
        BY <4>1, HeadAndTail
    <3> QED
      BY <2>1, <3>1
  <2>3. issuer # << >>
    BY <1>1, <1>3, <2>1, <2>2, EmptySeq
  <2>mid. PICK mid : mid = issuer \o <<Colon>>
    OBVIOUS
  <2>all. PICK all : all = mid \o account
    OBVIOUS
  <2>4. /\ mid \in Seq(Tokens) /\ Len(mid) = i
        /\ \A j \in 1..i : mid[j] = rest[j]
    <3>1. <<Colon>> \in Seq(Tokens) /\ Len(<<Colon>>) = 1 /\ <<Colon>>[1] = Colon
      BY DEF Tokens
    <3>2. /\ mid \in Seq(Tokens) /\ Len(mid) = Len(issuer) + 1
          /\ \A j \in 1..Len(issuer) + 1 :
                mid[j] = IF j <= Len(issuer) THEN issuer[j] ELSE <<Colon>>[j - Len(issuer)]
      <4>1. /\ mid \in Seq(Tokens) /\ Len(mid) = Len(issuer) + Len(<<Colon>>)
            /\ \A j \in 1..Len(issuer) + Len(<<Colon>>) :
                  mid[j] = IF j <= Len(issuer) THEN issuer[j] ELSE <<Colon>>[j - Len(issuer)]
        BY <2>2, <2>mid, <3>1, ConcatProperties
      <4> QED
        BY <3>1, <4>1
    <3>3. Len(mid) = i
      BY <1>1, <2>1, <2>2, <3>2
    <3>4. \A j \in 1..i : mid[j] = rest[j]
      <4> TAKE j \in 1..i
      <4>1. CASE j <= i - 1
        <5>1. j \in 1..(i - 1) /\ j \in 1..Len(issuer) + 1 /\ j <= Len(issuer)
          BY <1>1, <2>1, <2>2, <4>1
        <5> QED
          BY <2>2, <3>2, <5>1
      <4>2. CASE j = i
        <5>1. j \in 1..Len(issuer) + 1 /\ ~(j <= Len(issuer)) /\ j - Len(issuer) = 1
          BY <1>1, <2>1, <2>2, <4>2
        <5> QED
          BY <2>1, <3>1, <3>2, <4>2, <5>1
      <4> QED
        BY <2>1, <4>1, <4>2
    <3> QED
      BY <3>2, <3>3, <3>4
  <2>both. mid \in Seq(Tokens) /\ account \in Seq(Tokens)
    BY <2>2, <2>4
  <2>5. /\ all \in Seq(Tokens) /\ Len(all) = Len(mid) + Len(account)
        /\ \A j \in 1..Len(mid) + Len(account) :
              all[j] = IF j <= Len(mid) THEN mid[j] ELSE account[j - Len(mid)]
    <3>1. /\ mid \o account \in Seq(Tokens) /\ Len(mid \o account) = Len(mid) + Len(account)
          /\ \A j \in 1..Len(mid) + Len(account) :
                (mid \o account)[j] = IF j <= Len(mid) THEN mid[j] ELSE account[j - Len(mid)]
      BY <2>both, ConcatProperties
    <3> QED
      BY <2>all, <3>1
  <2>6. Len(all) = Len(rest)
    BY <1>1, <2>1, <2>2, <2>4, <2>5
  <2>7. \A j \in 1..Len(all) : all[j] = rest[j]
    <3> TAKE j \in 1..Len(all)
    <3>1. j \in 1..Len(mid) + Len(account)
      BY <2>5
    <3>2. CASE j <= i
      <4>1. j \in 1..i
        BY <1>1, <2>1, <2>6, <3>2
      <4> QED
        BY <2>4, <2>5, <3>1, <3>2, <4>1
    <3>3. CASE ~(j <= i)
      <4>1. j - i \in 1..(Len(rest) - i) /\ i + (j - i) = j
        BY <1>1, <2>1, <2>6, <3>3
      <4>2. all[j] = account[j - i]
        BY <2>4, <2>5, <3>1, <3>3
      <4> QED
        BY <2>2, <4>1, <4>2
    <3> QED
      BY <3>2, <3>3
  <2>8. all = rest
    BY <2>5, <2>6, <2>7, SeqEqual
  <2> QED
    BY <2>2, <2>3, <2>8, <2>mid, <2>all DEF Id
<1>4. CASE ~(i > 1)
  BY <1>2, <1>4, EmptySeq DEF Id
<1> QED
  BY <1>3, <1>4

(* A name that shows its period, and the issuer and account it is made of.  *)
GoodName(name, kind, period) ==
    /\ name \in Seq(Tokens)
    /\ kind = "TOTP" => period \in Periods /\ parse_name(name, "TOTP").period = period
    /\ ConventionalNames /\ kind \in {"TOTP", "HOTP"} =>
          name = format_id(parse_name(name, kind).issuer, parse_name(name, kind).account, kind, period)

\* What parse_name returns.
LEMMA ParseParts ==
    ASSUME NEW name \in Seq(Tokens), NEW kind
    PROVE  LET timed == kind = "TOTP" /\ HasPeriod(name)
               rest  == IF timed THEN Tail1(name, 2) ELSE name
           IN  /\ kind = "TOTP" =>
                     parse_name(name, kind).period = IF timed THEN name[1][2] ELSE DEFAULT_PERIOD
               /\ rest \in Seq(Tokens)
               /\ parse_name(name, kind).issuer \in Seq(Tokens)
               /\ parse_name(name, kind).account \in Seq(Tokens)
               /\ Id(parse_name(name, kind).issuer, parse_name(name, kind).account) = rest
<1> DEFINE timed == kind = "TOTP" /\ HasPeriod(name)
           rest  == IF timed THEN Tail1(name, 2) ELSE name
           parsed == parse_name(name, kind)
<1>1. rest \in Seq(Tokens)
  <2>1. HasPeriod(name) => 2 \in 1..Len(name)
    <3>1. HasPeriod(name) => Find(name, Slash) = 2
      BY DEF HasPeriod
    <3> QED
      BY <3>1, FindIs
  <2> QED
    BY <2>1, HeadAndTail
<1>2. /\ parsed.issuer = IF Find(rest, Colon) > 1 THEN Head1(rest, Find(rest, Colon)) ELSE << >>
      /\ parsed.account = IF Find(rest, Colon) > 1 THEN Tail1(rest, Find(rest, Colon)) ELSE rest
      /\ kind = "TOTP" => parsed.period = IF timed THEN name[1][2] ELSE DEFAULT_PERIOD
  BY DEF parse_name
<1> HIDE DEF timed, rest, parsed
<1>3. /\ parsed.issuer \in Seq(Tokens) /\ parsed.account \in Seq(Tokens)
      /\ Id(parsed.issuer, parsed.account) = rest
  BY <1>1, <1>2, SplitAndJoin
<1> QED
  BY <1>1, <1>2, <1>3 DEF timed, rest, parsed

\* What format_id writes, parse_name reads.
LEMMA NamesAreGood ==
    ASSUME NEW issuer \in Seq(Tokens), NEW account \in Seq(Tokens),
           NEW kind \in {"TOTP", "HOTP"}, NEW period, kind = "TOTP" => period \in Periods
    PROVE  GoodName(format_id(issuer, account, kind, period), kind, period)
<1> DEFINE id == Id(issuer, account)
           name == format_id(issuer, account, kind, period)
           prefixed == kind = "TOTP" /\ (period # DEFAULT_PERIOD \/ NumericPrefix(id))
           parsed == parse_name(name, kind)
<1>1. id \in Seq(Tokens)
  <2>1. <<Colon>> \in Seq(Tokens)
    BY DEF Tokens
  <2>2. issuer \o <<Colon>> \in Seq(Tokens)
    BY <2>1, ConcatProperties
  <2>3. issuer \o <<Colon>> \o account \in Seq(Tokens)
    BY <2>2, ConcatProperties
  <2> QED
    BY <2>3 DEF Id
<1>2. name = IF prefixed THEN <<Numeral(period), Slash>> \o id ELSE id
  BY DEF format_id, Id
<1>3. \A i, a : format_id(i, a, kind, period) =
                  IF kind = "TOTP" /\ (period # DEFAULT_PERIOD \/ NumericPrefix(Id(i, a)))
                  THEN <<Numeral(period), Slash>> \o Id(i, a) ELSE Id(i, a)
  BY DEF format_id, Id
<1> HIDE DEF id, name
<1>4. CASE prefixed
  <2>1. Numeral(period) \in Numerals
    BY <1>4 DEF Numerals
  <2>2. /\ name \in Seq(Tokens) /\ HasPeriod(name) /\ name[1] = Numeral(period)
        /\ Tail1(name, 2) = id
    BY <1>1, <1>2, <1>4, <2>1, WithPeriod
  <2>3. parsed.period = name[1][2] /\ Id(parsed.issuer, parsed.account) = id
    BY <1>4, <2>2, ParseParts
  <2>4. Numeral(period)[2] = period
    BY DEF Numeral
  <2>5. name = format_id(parsed.issuer, parsed.account, kind, period)
    BY <1>2, <1>3, <1>4, <2>3
  <2> QED
    BY <1>4, <2>2, <2>3, <2>4, <2>5 DEF GoodName, name
<1>5. CASE ~prefixed
  <2>1. name = id
    BY <1>2, <1>5
  <2>2. kind = "TOTP" => ~HasPeriod(name) /\ period = DEFAULT_PERIOD
    BY <1>5, <2>1 DEF HasPeriod
  <2>3. /\ kind = "TOTP" => parsed.period = DEFAULT_PERIOD
        /\ Id(parsed.issuer, parsed.account) = id
    BY <1>1, <2>1, <2>2, ParseParts
  <2>4. name = format_id(parsed.issuer, parsed.account, kind, period)
    BY <1>3, <1>5, <2>1, <2>3
  <2> QED
    BY <1>1, <2>1, <2>2, <2>3, <2>4 DEF GoodName, name
<1> QED
  BY <1>4, <1>5

-----------------------------------------------------------------------------
(* The invariant of the accounts commands. *)

Credential(c) ==
    /\ c = [id |-> c.id, name |-> c.name, kind |-> c.kind, period |-> c.period, moving |-> c.moving,
            first |-> c.first, increasing |-> c.increasing, generated |-> c.generated]
    /\ c.id # None /\ GoodName(c.name, c.kind, c.period)
    /\ c.kind = "HOTP" => c.moving \in Nat
    /\ c.increasing => c.kind = "TOTP" /\ c.moving \in Nat

CardType ==
    /\ \A c \in card : Credential(c)
    /\ \A c, d \in card : c.id = d.id \/ c.name = d.name => c = d

(* A slot's default is a counter-based account on the card.                 *)
DefaultsHold ==
    /\ DOMAIN default = {"short", "long"}
    /\ \A slot \in DOMAIN default :
          /\ default[slot] = None \/ \E c \in card : c.id = default[slot]
          /\ \A c \in card : c.id = default[slot] => c.kind = "HOTP"

(* What a command asked of the card before it sends its change: it holds    *)
(* the card, and touches of the button change no names.                     *)
NewCredential(c) ==
    /\ Credential(c) /\ ~c.increasing
    /\ c.kind = "HOTP" => c.first = c.moving + 1
    /\ c.id \notin kept \cup failed \cup shown /\ \A d \in card : d.id # c.id

TaskHolds ==
    /\ task.op = "add" => NewCredential(task.cred)
    /\ task.op = "rename" =>
          \A c \in card : c.name # task.new
                          /\ (c.name = task.old => GoodName(task.new, c.kind, c.period))
    /\ task.op = "delete" => \A c \in card : c.name = task.name => c.id \notin kept
    /\ task.op = "set_default" =>
          /\ \A c \in card : c.name = task.name => c.kind = "HOTP"
          /\ task.slot \in {"short", "long"}
    /\ task.op = "code" => task = [op |-> "code", rest |-> task.rest, one_match |-> task.one_match]

AccountsInv ==
    /\ now \in Times
    /\ CardType /\ DefaultsHold /\ TaskHolds
    /\ TotpCodesRight /\ CodesAccounted /\ NoAccountLost /\ SecretShown


-----------------------------------------------------------------------------
(* What does not touch the card. *)

\* The constants as the proofs use them.
LEMMA Constants ==
    /\ Times \subseteq Nat /\ Periods \subseteq Nat /\ Counters \subseteq Nat
    /\ None \notin Ids /\ None # "TOTP" /\ None # "HOTP"
  BY NameAssumption, AccountsAssumption

\* What a good name shows of its period.
LEMMA ParsedPeriod ==
    ASSUME NEW c, Credential(c), c.kind = "TOTP"
    PROVE  Parsed(c).period = c.period /\ c.period \in Nat
<1>1. Parsed(c) = parse_name(c.name, "TOTP")
  BY Constants DEF Parsed, kind_of
<1> QED
  BY <1>1, Constants DEF Credential, GoodName

\* A step of the program alone.
LEMMA HostStep ==
    ASSUME AccountsInv, UNCHANGED <<card, default, now, codes, lost, shown, failed>>,
           kept' \subseteq kept, TaskHolds'
    PROVE  AccountsInv'
  BY DEF AccountsInv, CardType, DefaultsHold, TotpCodesRight, CodesAccounted, NoAccountLost,
         SecretShown

\* A command that is over has nothing to do.
LEMMA NoTaskHolds == task' = NoTask => TaskHolds'
  BY DEF NoTask, TaskHolds

\* A command that ends before it changes anything.
LEMMA StopKeeps == ASSUME AccountsInv, Stop PROVE AccountsInv'
  BY HostStep, NoTaskHolds DEF Stop, Begin

\* Time goes on.
LEMMA TickKeeps == ASSUME AccountsInv, Tick PROVE AccountsInv'
<1>1. /\ now' \in Times /\ now' > now
      /\ UNCHANGED <<card, default, task, codes, lost, shown, failed, kept>>
  BY DEF Tick, host
<1>2. TotpCodesRight'
  <2>1. \A p \in codes' \cup lost' : p.kind = "TOTP" => p.factor = p.at \div p.period
    BY <1>1 DEF AccountsInv, TotpCodesRight
  <2>2. ASSUME NEW c \in card, c.increasing PROVE c.moving * c.period <= now'
    <3>1. c.moving * c.period <= now /\ now \in Nat /\ now' \in Nat
      BY <1>1, <2>2, Constants DEF AccountsInv, TotpCodesRight
    <3>2. c.moving \in Nat /\ c.period \in Nat
      BY <2>2, ParsedPeriod DEF AccountsInv, CardType, Credential
    <3>3. c.moving * c.period \in Int
      BY <3>2
    <3> QED
      BY <1>1, <3>1, <3>3
  <2> QED
    BY <1>1, <2>1, <2>2 DEF TotpCodesRight
<1> QED
  BY <1>1, <1>2 DEF AccountsInv, CardType, DefaultsHold, TaskHolds, NewCredential, CodesAccounted,
                    NoAccountLost, SecretShown

-----------------------------------------------------------------------------
(* Commands. *)

\* The name of a counter-based account does not depend on a period.
LEMMA HotpName ==
    \A issuer, account, p, q :
        format_id(issuer, account, "HOTP", p) = format_id(issuer, account, "HOTP", q)
  BY DEF format_id

\* A new account is one nobody has heard of.
LEMMA AddCredentialCommand ==
    ASSUME AccountsInv, NEW issuer \in Issuers, NEW account \in Accounts,
           NEW kind \in {"TOTP", "HOTP"}, NEW period \in Periods, NEW counter, NEW first,
           kind = "HOTP" => counter \in Nat /\ first = counter + 1,
           NEW generated, NEW force,
           add_credential(issuer, account, kind, period, counter, first, generated, force)
    PROVE  AccountsInv'
<1> DEFINE name == format_id(issuer, account, kind, period)
           cred(id) == [id |-> id, name |-> name, kind |-> kind,
                        period |-> IF kind = "TOTP" THEN period ELSE 0,
                        moving |-> counter, first |-> first,
                        increasing |-> FALSE, generated |-> generated]
<1>1. GoodName(name, kind, IF kind = "TOTP" THEN period ELSE 0)
  <2>1. issuer \in Seq(Tokens) /\ account \in Seq(Tokens)
    BY AccountsAssumption
  <2>2. CASE kind = "TOTP"
    BY <2>1, <2>2, NamesAreGood
  <2>3. CASE kind = "HOTP"
    <3>1. GoodName(format_id(issuer, account, kind, 0), kind, 0)
      BY <2>1, <2>3, NamesAreGood
    <3> QED
      BY <2>3, <3>1, HotpName
  <2> QED
    BY <2>2, <2>3
<1> HIDE DEF name
<1>2. CASE Stop
  BY <1>2, StopKeeps
<1>3. ASSUME NEW id \in Fresh, Submit([op |-> "add", cred |-> cred(id)]) PROVE AccountsInv'
  <2>1. PICK c : c = cred(id)
    OBVIOUS
  <2>2. /\ c.id = id /\ c.name = name /\ c.kind = kind
        /\ c.period = IF kind = "TOTP" THEN period ELSE 0
        /\ c.moving = counter /\ c.first = first /\ c.increasing = FALSE
        /\ c.generated = generated
    BY <2>1
  <2>3. id # None /\ id \notin kept \cup failed \cup shown /\ \A d \in card : d.id # id
    BY Constants DEF Fresh
  <2>4. Credential(c)
    <3>1. c = [id |-> c.id, name |-> c.name, kind |-> c.kind, period |-> c.period,
               moving |-> c.moving, first |-> c.first, increasing |-> c.increasing,
               generated |-> c.generated]
      BY <2>1, <2>2
    <3>2. GoodName(c.name, c.kind, c.period)
      BY <1>1, <2>2
    <3> HIDE DEF cred
    <3> QED
      BY <2>2, <2>3, <3>1, <3>2 DEF Credential
  <2> HIDE DEF cred
  <2>5. NewCredential(c)
    BY <2>2, <2>3, <2>4 DEF NewCredential
  <2>6. /\ UNCHANGED <<card, default, now, codes, lost, shown, failed, kept>>
        /\ task' = [op |-> "add", cred |-> c]
    BY <1>3, <2>1 DEF Submit, Begin
  <2>7. task'.op = "add" /\ task'.cred = c
    BY <2>6
  <2>8. TaskHolds'
    BY <2>5, <2>6, <2>7 DEF TaskHolds, NewCredential
  <2> QED
    BY <2>6, <2>8, HostStep
<1> QED
  BY <1>2, <1>3 DEF add_credential, name

\* Adding, from arguments or from a URI.
LEMMA AddCommands ==
    ASSUME AccountsInv, NEW in \in AddInput, NEW force,
           accounts_add(in, force) \/ accounts_uri(in, force)
    PROVE  AccountsInv'
<1>1. /\ in.issuer \in Issuers /\ in.account \in Accounts /\ in.kind \in {"TOTP", "HOTP"}
      /\ in.period \in Periods /\ in.counter \in Nat
  BY Constants DEF AddInput
<1>2. CASE Stop
  BY <1>2, StopKeeps
<1>3. CASE accounts_add(in, force)
  <2>1. CASE add_credential(in.issuer, in.account, in.kind, in.period, in.counter,
                            in.counter + 1, in.secret = "generated", force)
    BY <1>1, <2>1, AddCredentialCommand
  <2> QED
    BY <1>2, <1>3, <2>1 DEF accounts_add
<1>4. CASE accounts_uri(in, force)
  <2> DEFINE counter == uri_initial_counter(in.kind, in.counter)
  <2>1. CASE /\ counter # None
             /\ add_credential(in.issuer, in.account, in.kind, in.period, counter, in.counter,
                               FALSE, force)
    <3>1. in.kind = "HOTP" => counter \in Nat /\ in.counter = counter + 1
      BY <1>1, <2>1 DEF uri_initial_counter
    <3> HIDE DEF counter
    <3> QED
      BY <1>1, <2>1, <3>1, AddCredentialCommand
  <2> QED
    BY <1>2, <1>4, <2>1 DEF accounts_uri
<1> QED
  BY <1>3, <1>4

\* A query matches credentials of the card.
LEMMA SearchFinds == \A query, hidden : search(card, query, hidden) \subseteq card
  BY DEF search

\* The parts of a new name are names.
LEMMA SplitParts ==
    ASSUME NEW text \in Seq(Tokens)
    PROVE  SplitName(text).issuer \in Seq(Tokens) /\ SplitName(text).account \in Seq(Tokens)
<1>1. PICK i : i = Find(text, Colon) /\ (i = 0 \/ i \in 1..Len(text))
  BY FindIs
<1>2. /\ SplitName(text).issuer = IF i = 0 THEN << >> ELSE Head1(text, i)
      /\ SplitName(text).account = Tail1(text, i)
  BY <1>1 DEF SplitName
<1>3. CASE i = 0
  <2>1. Tail1(text, 0) \in Seq(Tokens)
    <3>1. Len(text) \in Nat /\ \A j \in 1..Len(text) : text[j] \in Tokens
      BY LenProperties
    <3>2. SubSeq(text, 1, Len(text)) \in Seq(Tokens)
      BY <3>1, SubSeqProperties
    <3> QED
      BY <3>2 DEF Tail1
  <2> QED
    BY <1>2, <1>3, <2>1
<1>4. CASE i \in 1..Len(text)
  <2>1. Head1(text, i) \in Seq(Tokens) /\ Tail1(text, i) \in Seq(Tokens) /\ i # 0
    BY <1>4, HeadAndTail
  <2> QED
    BY <1>2, <2>1
<1> QED
  BY <1>1, <1>3, <1>4

\* Renaming goes on with a free name that shows what it should.
LEMMA RenameCommand ==
    ASSUME AccountsInv, NEW query, NEW text \in NewNames, NEW force,
           accounts_rename(query, text, force)
    PROVE  AccountsInv'
<1>1. CASE Stop
  BY <1>1, StopKeeps
<1>2. ASSUME NEW c \in card, NEW name, kind_of(c) # None, ~NameTaken(name),
             name = format_id(SplitName(text).issuer, SplitName(text).account, c.kind,
                              Parsed(c).period),
             Submit([op |-> "rename", old |-> c.name, new |-> name])
      PROVE  AccountsInv'
  <2>1. c.kind \in {"TOTP", "HOTP"} /\ Credential(c)
    BY <1>2 DEF kind_of, AccountsInv, CardType
  <2>2. SplitName(text).issuer \in Seq(Tokens) /\ SplitName(text).account \in Seq(Tokens)
    BY SplitParts, AccountsAssumption
  <2>3. GoodName(name, c.kind, c.period)
    <3>1. CASE c.kind = "TOTP"
      <4>1. Parsed(c).period = c.period /\ c.period \in Periods
        BY <2>1, <3>1, ParsedPeriod DEF Credential, GoodName
      <4> QED
        BY <1>2, <2>1, <2>2, <4>1, NamesAreGood
    <3>2. CASE c.kind = "HOTP"
      <4>1. name = format_id(SplitName(text).issuer, SplitName(text).account, "HOTP", c.period)
        BY <1>2, <3>2, HotpName
      <4> QED
        BY <2>2, <3>2, <4>1, NamesAreGood
    <3> QED
      BY <2>1, <3>1, <3>2
  <2>4. /\ UNCHANGED <<card, default, now, codes, lost, shown, failed, kept>>
        /\ task' = [op |-> "rename", old |-> c.name, new |-> name]
    BY <1>2 DEF Submit, Begin
  <2>5. task'.op = "rename" /\ task'.old = c.name /\ task'.new = name
    BY <2>4
  <2>6. \A d \in card : d.name # name /\ (d.name = c.name => d = c)
    BY <1>2 DEF NameTaken, AccountsInv, CardType
  <2>7. TaskHolds'
    BY <2>3, <2>4, <2>5, <2>6 DEF TaskHolds
  <2> QED
    BY <2>4, <2>7, HostStep
<1>3. \/ Stop
      \/ \E c \in card : \E name : /\ kind_of(c) # None /\ ~NameTaken(name)
                               /\ name = format_id(SplitName(text).issuer, SplitName(text).account,
                                                   c.kind, Parsed(c).period)
                               /\ Submit([op |-> "rename", old |-> c.name, new |-> name])
  BY SearchFinds DEF accounts_rename, WithTheMatch
<1> QED
  BY <1>1, <1>2, <1>3

\* A default is chosen among the counter-based accounts.
LEMMA SetDefaultCommand ==
    ASSUME AccountsInv, NEW query, NEW slot \in DOMAIN default, NEW enter,
           accounts_set_default(query, slot, enter)
    PROVE  AccountsInv'
<1>1. CASE Stop
  BY <1>1, StopKeeps
<1>2. ASSUME NEW c \in card, kind_of(c) = "HOTP",
             Submit([op |-> "set_default", slot |-> slot, name |-> c.name])
      PROVE  AccountsInv'
  <2>1. c.kind = "HOTP"
    BY <1>2, Constants DEF kind_of
  <2>2. /\ UNCHANGED <<card, default, now, codes, lost, shown, failed, kept>>
        /\ task' = [op |-> "set_default", slot |-> slot, name |-> c.name]
    BY <1>2 DEF Submit, Begin
  <2>3. task'.op = "set_default" /\ task'.slot = slot /\ task'.name = c.name
    BY <2>2
  <2>4. \A d \in card : d.name = c.name => d = c
    BY DEF AccountsInv, CardType
  <2>5. slot \in {"short", "long"}
    BY DEF AccountsInv, DefaultsHold
  <2>6. TaskHolds'
    BY <2>1, <2>2, <2>3, <2>4, <2>5 DEF TaskHolds
  <2> QED
    BY <2>2, <2>6, HostStep
<1>3. \/ Stop
      \/ \E c \in card : /\ kind_of(c) = "HOTP"
                         /\ Submit([op |-> "set_default", slot |-> slot, name |-> c.name])
  BY SearchFinds DEF accounts_set_default, WithTheMatch
<1> QED
  BY <1>1, <1>2, <1>3

\* The account to delete is the only one of its name.
LEMMA DeleteCommand ==
    ASSUME AccountsInv, NEW query, NEW force, accounts_delete(query, force)
    PROVE  AccountsInv'
<1>1. CASE Stop
  BY <1>1, StopKeeps
<1>2. ASSUME NEW c \in card, Begin, UNCHANGED failed, kept' = kept \ {c.id},
             task' = [op |-> "delete", name |-> c.name]
      PROVE  AccountsInv'
  <2>1. UNCHANGED <<card, default, now, codes, lost, shown, failed>>
    BY <1>2 DEF Begin
  <2>2. task'.op = "delete" /\ task'.name = c.name
    BY <1>2
  <2>3. \A d \in card : d.name = c.name => d.id \notin kept'
    BY <1>2 DEF AccountsInv, CardType
  <2>4. TaskHolds'
    BY <2>1, <2>2, <2>3 DEF TaskHolds
  <2>5. kept' \subseteq kept
    BY <1>2
  <2> QED
    BY <2>1, <2>4, <2>5, HostStep
<1>3. \/ Stop
      \/ \E c \in card : /\ Begin /\ UNCHANGED failed /\ kept' = kept \ {c.id}
                         /\ task' = [op |-> "delete", name |-> c.name]
  BY SearchFinds DEF accounts_delete, WithTheMatch
<1> QED
  BY <1>1, <1>2, <1>3

\* Codes are asked for one name after another.
LEMMA CodeCommand ==
    ASSUME AccountsInv, NEW query, NEW single, NEW hidden, accounts_code(query, single, hidden)
    PROVE  AccountsInv'
<1>1. CASE Stop
  BY <1>1, StopKeeps
<1>2. ASSUME NEW rest, NEW one, Submit([op |-> "code", rest |-> rest, one_match |-> one])
      PROVE  AccountsInv'
  <2>1. /\ UNCHANGED <<card, default, now, codes, lost, shown, failed, kept>>
        /\ task' = [op |-> "code", rest |-> rest, one_match |-> one]
    BY <1>2 DEF Submit, Begin
  <2>2. TaskHolds'
    BY <2>1 DEF TaskHolds
  <2> QED
    BY <2>1, <2>2, HostStep
<1> QED
  BY <1>1, <1>2 DEF accounts_code

\* Every command.
LEMMA CommandKeeps == ASSUME AccountsInv, AccountsCommand PROVE AccountsInv'
<1>1. UriInput \subseteq AddInput
  BY DEF UriInput
<1> QED
  BY <1>1, AddCommands, DeleteCommand, RenameCommand, SetDefaultCommand, CodeCommand, StopKeeps
     DEF AccountsCommand, accounts_list

-----------------------------------------------------------------------------
(* Codes. *)

\* A time step is not ahead of its time.
LEMMA Division ==
    ASSUME NEW t \in Nat, NEW p \in Nat, p # 0
    PROVE  t \div p \in Nat /\ (t \div p) * p <= t
  BY Z3T(20)

\* A credential that is calculated is one that a code can be calculated of.
Calculable(c) == c.kind = "HOTP" \/ (c.kind = "TOTP" /\ Parsed(c).period # 0)

\* What a calculation uses.
LEMMA FactorIs ==
    ASSUME AccountsInv, NEW c \in card, Calculable(c)
    PROVE  /\ Factor(c) \in Nat
           /\ c.kind = "HOTP" => Factor(c) = c.moving + 1
           /\ c.kind = "TOTP" => Factor(c) = now \div c.period /\ Factor(c) * c.period <= now
<1>1. Credential(c) /\ now \in Nat
  BY Constants DEF AccountsInv, CardType
<1>2. CASE c.kind = "HOTP"
  BY <1>1, <1>2 DEF Factor, Credential
<1>3. CASE c.kind = "TOTP"
  <2>1. Parsed(c).period = c.period /\ c.period \in Nat /\ c.period # 0
    BY <1>1, <1>3, ParsedPeriod DEF Calculable
  <2>2. Factor(c) = now \div c.period
    BY <1>3, <2>1 DEF Factor, totp_challenge
  <2> QED
    BY <1>1, <1>3, <2>1, <2>2, Division
<1> QED
  BY <1>2, <1>3 DEF Calculable

\* What a calculation leaves of the credential.
LEMMA MovedIs ==
    ASSUME AccountsInv, NEW c \in card, Calculable(c)
    PROVE  LET m == Moved(c) IN
           /\ m.id = c.id /\ m.name = c.name /\ m.kind = c.kind /\ m.period = c.period
           /\ m.first = c.first /\ m.increasing = c.increasing /\ m.generated = c.generated
           /\ Credential(m)
           /\ m.moving = IF c.kind = "HOTP" \/ c.increasing THEN Factor(c) ELSE c.moving
<1>1. Credential(c)
  BY DEF AccountsInv, CardType
<1>2. PICK f : f = Factor(c)
  OBVIOUS
<1>3. f \in Nat
  BY <1>2, FactorIs
<1>4. CASE c.kind = "HOTP" \/ c.increasing
  <2>1. PICK m : m = [c EXCEPT !.moving = f]
    OBVIOUS
  <2>2. /\ m.id = c.id /\ m.name = c.name /\ m.kind = c.kind /\ m.period = c.period
        /\ m.first = c.first /\ m.increasing = c.increasing /\ m.generated = c.generated
        /\ m.moving = f
        /\ m = [id |-> m.id, name |-> m.name, kind |-> m.kind, period |-> m.period,
                moving |-> m.moving, first |-> m.first, increasing |-> m.increasing,
                generated |-> m.generated]
    BY <1>1, <2>1 DEF Credential
  <2>3. Credential(m)
    BY <1>1, <1>3, <2>2 DEF Credential
  <2>4. Moved(c) = m
    BY <1>2, <1>4, <2>1 DEF Moved
  <2> QED
    BY <1>2, <1>4, <2>2, <2>3, <2>4
<1>5. CASE ~(c.kind = "HOTP" \/ c.increasing)
  BY <1>1, <1>5 DEF Moved
<1> QED
  BY <1>4, <1>5

\* A calculation, of a command or of a touch, whose code is got or lost.
LEMMA CalculationKeeps ==
    ASSUME AccountsInv, NEW c \in card, Calculable(c),
           card' = (card \ {c}) \cup {Moved(c)},
           codes' \cup lost' = codes \cup lost \cup {CodeOf(c)},
           UNCHANGED <<default, now, shown, failed, kept>>,
           UNCHANGED task \/ TaskHolds'
    PROVE  AccountsInv'
<1>1. PICK m : m = Moved(c)
  OBVIOUS
<1>2. /\ m.id = c.id /\ m.name = c.name /\ m.kind = c.kind /\ m.period = c.period
      /\ m.first = c.first /\ m.increasing = c.increasing /\ m.generated = c.generated
      /\ Credential(m)
      /\ m.moving = IF c.kind = "HOTP" \/ c.increasing THEN Factor(c) ELSE c.moving
  BY <1>1, MovedIs
<1>3. card' = (card \ {c}) \cup {m}
  BY <1>1
<1>4. CardType'
  BY <1>2, <1>3 DEF AccountsInv, CardType
<1>5. DefaultsHold'
  BY <1>2, <1>3 DEF AccountsInv, DefaultsHold
<1>6. TaskHolds'
  <2>1. CASE UNCHANGED task
    BY <1>2, <1>3, <2>1 DEF AccountsInv, TaskHolds, NewCredential
  <2> QED
    BY <2>1
<1>7. PICK q : q = CodeOf(c)
  OBVIOUS
<1>8. /\ q.id = c.id /\ q.kind = c.kind /\ q.period = c.period /\ q.factor = Factor(c)
      /\ q.at = now
  BY <1>7 DEF CodeOf
<1>9. TotpCodesRight'
  <2>1. ASSUME NEW p \in codes' \cup lost', p.kind = "TOTP" PROVE p.factor = p.at \div p.period
    <3>1. CASE p = q
      BY <1>8, <2>1, <3>1, FactorIs
    <3>2. CASE p \in codes \cup lost
      BY <2>1, <3>2 DEF AccountsInv, TotpCodesRight
    <3> QED
      BY <1>7, <3>1, <3>2
  <2>2. ASSUME NEW d \in card', d.increasing PROVE d.moving * d.period <= now'
    <3>1. CASE d = m
      <4>1. c.kind = "TOTP" /\ m.moving = Factor(c)
        BY <1>2, <2>2, <3>1 DEF AccountsInv, CardType, Credential
      <4> QED
        BY <1>2, <3>1, <4>1, FactorIs
    <3>2. CASE d \in card
      BY <2>2, <3>2 DEF AccountsInv, TotpCodesRight
    <3> QED
      BY <1>3, <3>1, <3>2
  <2> QED
    BY <2>1, <2>2 DEF TotpCodesRight
<1>10. CodesAccounted'
  <2> DEFINE Used(id) == {p.factor : p \in {r \in codes \cup lost : r.id = id}}
             UsedNow(id) == {p.factor : p \in {r \in codes' \cup lost' : r.id = id}}
  <2>1. \A id : Used(id) \subseteq UsedNow(id)
    OBVIOUS
  <2>2. Factor(c) \in UsedNow(c.id)
    BY <1>7, <1>8
  <2>3. \A d \in card : /\ d.kind = "HOTP" => d.first..d.moving \subseteq Used(d.id)
                        /\ d.increasing /\ d.moving # d.first => d.moving \in Used(d.id)
    BY DEF AccountsInv, CodesAccounted
  <2> HIDE DEF Used, UsedNow
  <2>4. ASSUME NEW d \in card'
        PROVE  /\ d.kind = "HOTP" => d.first..d.moving \subseteq UsedNow(d.id)
               /\ d.increasing /\ d.moving # d.first => d.moving \in UsedNow(d.id)
    <3>1. CASE d \in card
      BY <2>1, <2>3, <3>1
    <3>2. CASE d = m
      <4>1. CASE c.kind = "HOTP"
        <5>1. Factor(c) = c.moving + 1 /\ c.moving \in Nat /\ ~c.increasing
          BY <4>1, FactorIs DEF AccountsInv, CardType, Credential
        <5>2. \A i \in c.first..(c.moving + 1) : i \in c.first..c.moving \/ i = c.moving + 1
          BY <5>1
        <5>3. c.first..c.moving \subseteq UsedNow(c.id)
          BY <2>1, <2>3, <4>1
        <5> QED
          BY <1>2, <2>2, <3>2, <4>1, <5>1, <5>2, <5>3
      <4>2. CASE c.kind # "HOTP"
        BY <1>2, <2>1, <2>2, <2>3, <3>2, <4>2
      <4> QED
        BY <4>1, <4>2
    <3> QED
      BY <1>3, <3>1, <3>2
  <2> QED
    BY <2>4 DEF CodesAccounted, UsedNow
<1>11. NoAccountLost'
  BY <1>2, <1>3 DEF AccountsInv, NoAccountLost
<1>12. SecretShown'
  BY <1>2, <1>3 DEF AccountsInv, SecretShown
<1> QED
  BY <1>4, <1>5, <1>6, <1>9, <1>10, <1>11, <1>12 DEF AccountsInv

\* The rest of the rows of a code command.
LEMMA NextRowHolds ==
    ASSUME AccountsInv, task.op = "code", NEW name, NextRow(name)
    PROVE  TaskHolds'
<1>1. CASE task' = NoTask
  BY <1>1, NoTaskHolds
<1>2. CASE task' = [task EXCEPT !.rest = @ \ {name}]
  <2>1. task = [op |-> "code", rest |-> task.rest, one_match |-> task.one_match]
    BY DEF AccountsInv, TaskHolds
  <2>2. task' = [op |-> "code", rest |-> task.rest \ {name}, one_match |-> task.one_match]
    BY <1>2, <2>1
  <2> QED
    BY <2>2 DEF TaskHolds
<1> QED
  BY <1>1, <1>2 DEF NextRow, Finish

\* A row of a code command.
LEMMA CalculateKeeps ==
    ASSUME AccountsInv, NEW answered \in BOOLEAN, Calculate(answered) PROVE AccountsInv'
<1>1. PICK name \in task.rest, c \in card :
         /\ Calculates(c)
         /\ kind_of(c) = "TOTP" => Parsed(c).period # 0
         /\ card' = (card \ {c}) \cup {Moved(c)}
         /\ IF answered
            THEN codes' = codes \cup {CodeOf(c)} /\ NextRow(name) /\ UNCHANGED lost
            ELSE lost' = lost \cup {CodeOf(c)} /\ Finish /\ UNCHANGED codes
  BY DEF Calculate, Named
<1>2. UNCHANGED <<default, now, shown, failed, kept>> /\ task.op = "code"
  BY DEF Calculate
<1>3. Calculable(c)
  BY <1>1, Constants DEF Calculates, Calculable, kind_of
<1>4. codes' \cup lost' = codes \cup lost \cup {CodeOf(c)}
  BY <1>1
<1>5. TaskHolds'
  BY <1>1, <1>2, NextRowHolds, NoTaskHolds DEF Finish
<1> QED
  BY <1>1, <1>2, <1>3, <1>4, <1>5, CalculationKeeps

\* A touch calculates the code of a counter-based account.
LEMMA TouchKeeps ==
    ASSUME AccountsInv, NEW slot \in DOMAIN default, KeyboardTouch(slot) PROVE AccountsInv'
<1>1. PICK c \in card : /\ c.id = default[slot]
                        /\ card' = (card \ {c}) \cup {Moved(c)}
                        /\ codes' = codes \cup {CodeOf(c)}
  BY DEF KeyboardTouch
<1>2. UNCHANGED <<default, now, task, lost, shown, failed, kept>>
  BY DEF KeyboardTouch
<1>3. Calculable(c)
  BY <1>1 DEF AccountsInv, DefaultsHold, Calculable
<1>4. codes' \cup lost' = codes \cup lost \cup {CodeOf(c)}
  BY <1>1, <1>2
<1> QED
  BY <1>1, <1>2, <1>3, <1>4, CalculationKeeps

\* A row without a calculation.
LEMMA RowKeeps == ASSUME AccountsInv, RowWithoutCode PROVE AccountsInv'
<1>1. UNCHANGED <<card, default, now, codes, lost, shown, failed, kept>> /\ task.op = "code"
  BY DEF RowWithoutCode, host
<1>2. PICK name : NextRow(name) \/ Finish
  BY DEF RowWithoutCode
<1>3. TaskHolds'
  BY <1>1, <1>2, NextRowHolds, NoTaskHolds DEF Finish
<1> QED
  BY <1>1, <1>3, HostStep

-----------------------------------------------------------------------------
(* Changes of the card. *)

\* An answer is an error, or never comes.
LEMMA FailKeeps == ASSUME AccountsInv, CardFails PROVE AccountsInv'
<1>1. UNCHANGED <<card, default, now, codes, lost, shown, kept>> /\ task' = NoTask
  BY DEF CardFails, Finish
<1>2. SecretShown'
  <2>1. task.op = "add" => task.cred.id \notin shown
    BY DEF AccountsInv, TaskHolds, NewCredential
  <2> QED
    BY <1>1, <2>1 DEF CardFails, AccountsInv, SecretShown
<1>3. TaskHolds'
  BY <1>1, NoTaskHolds
<1> QED
  BY <1>1, <1>2, <1>3 DEF AccountsInv, CardType, DefaultsHold, TotpCodesRight, CodesAccounted,
                          NoAccountLost

\* The new account, its secret shown or its failure reported.
LEMMA AddKeeps ==
    ASSUME AccountsInv, NEW answered \in BOOLEAN, AddCredential(answered) PROVE AccountsInv'
<1>1. PICK n : n = task.cred
  OBVIOUS
<1>2. NewCredential(n)
  BY <1>1 DEF AddCredential, AccountsInv, TaskHolds
<1>3. /\ card' = card \cup {n} /\ kept' = kept \cup {n.id}
      /\ failed' = IF answered THEN failed ELSE failed \cup {n.id}
      /\ shown' = IF n.generated /\ answered THEN shown \cup {n.id} ELSE shown
      /\ UNCHANGED <<default, now, codes, lost>>
      /\ \A c \in card : c.name # n.name
  BY <1>1 DEF AddCredential, NameTaken
<1>4. TaskHolds'
  BY NoTaskHolds DEF AddCredential, Finish
<1>5. CardType'
  BY <1>2, <1>3 DEF AccountsInv, CardType, NewCredential
<1>6. DefaultsHold'
  BY <1>2, <1>3 DEF AccountsInv, DefaultsHold, NewCredential, Credential
<1>7. TotpCodesRight'
  BY <1>2, <1>3 DEF AccountsInv, TotpCodesRight, NewCredential
<1>8. CodesAccounted'
  <2>1. n.kind = "HOTP" => n.first..n.moving = {}
    BY <1>2 DEF NewCredential, Credential
  <2> QED
    BY <1>2, <1>3, <2>1 DEF AccountsInv, CodesAccounted, NewCredential
<1>9. NoAccountLost'
  BY <1>3 DEF AccountsInv, NoAccountLost
<1>10. SecretShown'
  BY <1>2, <1>3 DEF AccountsInv, SecretShown, NewCredential
<1> QED
  BY <1>3, <1>4, <1>5, <1>6, <1>7, <1>8, <1>9, <1>10 DEF AccountsInv

\* Only the name of the one account of the old name changes.
LEMMA RenameKeeps == ASSUME AccountsInv, RenameCredential PROVE AccountsInv'
<1>1. /\ \A c \in card : c.name # task.new
                         /\ (c.name = task.old => GoodName(task.new, c.kind, c.period))
      /\ task' = NoTask /\ UNCHANGED <<default, now, codes, lost, shown, failed, kept>>
  BY DEF RenameCredential, AccountsInv, TaskHolds, Finish, host
<1>2. card' = (card \ Named(task.old)) \cup {[c EXCEPT !.name = task.new] : c \in Named(task.old)}
  BY <1>1 DEF RenameCredential, Named
<1>3. TaskHolds'
  BY <1>1, NoTaskHolds
<1>4. CASE Named(task.old) = {}
  <2>1. card' = card
    BY <1>2, <1>4
  <2> QED
    BY <1>1, <1>3, <2>1, HostStep
<1>5. ASSUME NEW c \in card, c.name = task.old PROVE AccountsInv'
  <2>1. Named(task.old) = {c}
    BY <1>5 DEF Named, AccountsInv, CardType
  <2>2. Credential(c) /\ \A d \in card : d.name # task.new
    BY <1>1 DEF AccountsInv, CardType
  <2>3. PICK m : m = [c EXCEPT !.name = task.new]
    OBVIOUS
  <2>4. /\ m.id = c.id /\ m.name = task.new /\ m.kind = c.kind /\ m.period = c.period
        /\ m.first = c.first /\ m.increasing = c.increasing /\ m.generated = c.generated
        /\ m.moving = c.moving
        /\ m = [id |-> m.id, name |-> m.name, kind |-> m.kind, period |-> m.period,
                moving |-> m.moving, first |-> m.first, increasing |-> m.increasing,
                generated |-> m.generated]
    BY <2>2, <2>3 DEF Credential
  <2>5. card' = (card \ {c}) \cup {m}
    BY <1>2, <2>1, <2>3
  <2>6. Credential(m)
    BY <1>1, <1>5, <2>2, <2>4 DEF Credential
  <2>7. CardType'
    BY <2>2, <2>4, <2>5, <2>6 DEF AccountsInv, CardType
  <2>8. DefaultsHold'
    BY <1>1, <2>4, <2>5 DEF AccountsInv, DefaultsHold
  <2>9. TotpCodesRight'
    BY <1>1, <2>4, <2>5 DEF AccountsInv, TotpCodesRight
  <2>10. CodesAccounted'
    BY <1>1, <2>4, <2>5 DEF AccountsInv, CodesAccounted
  <2>11. NoAccountLost'
    BY <1>1, <2>4, <2>5 DEF AccountsInv, NoAccountLost
  <2>12. SecretShown'
    BY <1>1, <2>4, <2>5 DEF AccountsInv, SecretShown
  <2> QED
    BY <1>1, <1>3, <2>7, <2>8, <2>9, <2>10, <2>11, <2>12 DEF AccountsInv
<1> QED
  BY <1>4, <1>5 DEF Named

\* An account that is deleted is nobody's default, and was asked to be deleted.
LEMMA DeleteKeeps == ASSUME AccountsInv, DeleteCredential PROVE AccountsInv'
<1>1. /\ \A c \in card : c.name = task.name => c.id \notin kept
      /\ task' = NoTask /\ UNCHANGED <<now, codes, lost, shown, failed, kept>>
  BY DEF DeleteCredential, AccountsInv, TaskHolds, Finish, host
<1>2. /\ card' = {c \in card : c.name # task.name}
      /\ DOMAIN default' = DOMAIN default
      /\ \A slot \in DOMAIN default :
            default'[slot] = IF \E c \in card : c.name = task.name /\ default[slot] = c.id
                             THEN None ELSE default[slot]
  BY DEF DeleteCredential, Named
<1>3. TaskHolds'
  BY <1>1, NoTaskHolds
<1>4. CardType'
  BY <1>2 DEF AccountsInv, CardType
<1>5. DefaultsHold'
  BY <1>2 DEF AccountsInv, DefaultsHold, CardType, Credential
<1>6. TotpCodesRight'
  BY <1>1, <1>2 DEF AccountsInv, TotpCodesRight
<1>7. CodesAccounted'
  BY <1>1, <1>2 DEF AccountsInv, CodesAccounted
<1>8. NoAccountLost'
  BY <1>1, <1>2 DEF AccountsInv, NoAccountLost
<1>9. SecretShown'
  BY <1>1, <1>2 DEF AccountsInv, SecretShown
<1> QED
  BY <1>1, <1>3, <1>4, <1>5, <1>6, <1>7, <1>8, <1>9 DEF AccountsInv

\* The default is the account the command looked up.
LEMMA DefaultKeeps == ASSUME AccountsInv, SetDefault PROVE AccountsInv'
<1>1. /\ \A c \in card : c.name = task.name => c.kind = "HOTP"
      /\ task.slot \in {"short", "long"}
      /\ task' = NoTask /\ UNCHANGED <<card, now, codes, lost, shown, failed, kept>>
  BY DEF SetDefault, AccountsInv, TaskHolds, Finish, host
<1>2. PICK c \in card : c.name = task.name /\ default' = [default EXCEPT ![task.slot] = c.id]
  BY DEF SetDefault, Named
<1>3. DefaultsHold'
  <2>1. /\ DOMAIN default' = DOMAIN default
        /\ \A slot \in DOMAIN default :
              default'[slot] = IF slot = task.slot THEN c.id ELSE default[slot]
    BY <1>2
  <2>2. \A d \in card : d.id = c.id => d.kind = "HOTP"
    BY <1>1, <1>2 DEF AccountsInv, CardType
  <2> QED
    BY <1>1, <2>1, <2>2 DEF AccountsInv, DefaultsHold
<1>4. TaskHolds'
  BY <1>1, NoTaskHolds
<1> QED
  BY <1>1, <1>3, <1>4 DEF AccountsInv, CardType, TotpCodesRight, CodesAccounted, NoAccountLost,
                          SecretShown

-----------------------------------------------------------------------------
(* The accounts commands keep their invariant. *)

\* A credential of other software is one this program can use.
LEMMA OthersAreCredentials ==
    ASSUME NEW cards \in Existing, NEW c \in cards, OfOtherSoftware(c)
    PROVE  Credential(c) /\ ~c.generated
<1>1. /\ c = [id |-> c.id, name |-> c.name, kind |-> c.kind, period |-> c.period,
              moving |-> c.moving, first |-> c.first, increasing |-> c.increasing,
              generated |-> FALSE]
      /\ c.id # None /\ c.name \in Seq(Tokens)
      /\ c.kind = "TOTP" => c.period \in Periods /\ c.period = Parsed(c).period
      /\ c.kind = "HOTP" => c.moving \in Nat
      /\ c.increasing => c.kind = "TOTP" /\ c.moving \in Nat
  BY DEF OfOtherSoftware
<1>2. c.generated = FALSE
  BY <1>1
<1>3. GoodName(c.name, c.kind, c.period)
  <2>1. CASE c.kind \in {"TOTP", "HOTP"}
    <3>1. Parsed(c) = parse_name(c.name, c.kind)
      BY <2>1, Constants DEF Parsed, kind_of
    <3>2. ConventionalNames =>
             c.name = format_id(Parsed(c).issuer, Parsed(c).account, c.kind, c.period)
      BY <2>1 DEF ConventionalNames, NamedAsShown
    <3> QED
      BY <1>1, <2>1, <3>1, <3>2 DEF GoodName
  <2>2. CASE c.kind \notin {"TOTP", "HOTP"}
    BY <1>1, <2>2 DEF GoodName
  <2> QED
    BY <2>1, <2>2
<1> QED
  BY <1>1, <1>2, <1>3 DEF Credential

LEMMA AccountsInitially == Init => AccountsInv
<1> SUFFICES ASSUME Init PROVE AccountsInv
  OBVIOUS
<1>1. /\ \A c \in card : OfOtherSoftware(c)
      /\ \A c, d \in card : c.id = d.id \/ c.name = d.name => c = d
      /\ now \in Times
  BY AccountsAssumption DEF Init
<1>2. /\ default = [slot \in {"short", "long"} |-> None]
      /\ task = NoTask /\ codes = {} /\ lost = {} /\ shown = {} /\ failed = {}
      /\ kept = {c.id : c \in card}
  BY DEF Init
<1>3. \A c \in card : Credential(c) /\ ~c.generated
  BY <1>1, OthersAreCredentials DEF Init
<1>4. CardType
  BY <1>1, <1>3 DEF CardType
<1>5. DefaultsHold
  BY <1>2, <1>3 DEF DefaultsHold, Credential
<1>6. TaskHolds
  BY <1>2 DEF TaskHolds, NoTask
<1>7. TotpCodesRight
  BY <1>1, <1>2 DEF TotpCodesRight, OfOtherSoftware
<1>8. CodesAccounted
  <2>1. ASSUME NEW c \in card, c.kind = "HOTP" PROVE c.first..c.moving = {}
    BY <1>1, <2>1 DEF OfOtherSoftware
  <2>2. ASSUME NEW c \in card, c.increasing PROVE c.moving = c.first
    BY <1>1, <2>2 DEF OfOtherSoftware
  <2> QED
    BY <2>1, <2>2 DEF CodesAccounted
<1>9. NoAccountLost
  BY <1>2 DEF NoAccountLost
<1>10. SecretShown
  BY <1>2, <1>3 DEF SecretShown
<1> QED
  BY <1>1, <1>4, <1>5, <1>6, <1>7, <1>8, <1>9, <1>10 DEF AccountsInv

LEMMA AccountsStep == AccountsInv /\ [Next]_vars => AccountsInv'
<1> SUFFICES ASSUME AccountsInv, [Next]_vars PROVE AccountsInv'
  OBVIOUS
<1>1. CASE Tick
  BY <1>1, TickKeeps
<1>2. CASE ConnectFails
  BY <1>2, StopKeeps DEF ConnectFails
<1>3. CASE AccountsCommand
  BY <1>3, CommandKeeps
<1>4. CASE CardFails
  BY <1>4, FailKeeps
<1>5. CASE \E answered \in BOOLEAN : AddCredential(answered) \/ Calculate(answered)
  BY <1>5, AddKeeps, CalculateKeeps
<1>6. CASE RenameCredential \/ DeleteCredential \/ SetDefault
  BY <1>6, RenameKeeps, DeleteKeeps, DefaultKeeps
<1>7. CASE RowWithoutCode
  BY <1>7, RowKeeps
<1>8. CASE \E slot \in DOMAIN default : KeyboardTouch(slot)
  BY <1>8, TouchKeeps
<1>9. CASE UNCHANGED vars
  BY <1>9, HostStep DEF vars, AccountsInv, TaskHolds, NewCredential
<1> QED
  BY <1>1, <1>2, <1>3, <1>4, <1>5, <1>6, <1>7, <1>8, <1>9 DEF Next

LEMMA AccountsInvariance == Spec => []AccountsInv
  BY AccountsInitially, AccountsStep, PTL DEF Spec

(* Every time-based code is the one of its time and of the period its        *)
(* account was added with, and no calculation takes a credential that        *)
(* refuses older steps beyond the clock (totp_challenge, calculate_one).     *)
THEOREM CodesOfTheirTime == Spec => []TotpCodesRight
  BY AccountsInvariance, PTL DEF AccountsInv

(* Every counter used up since an account's first one is that of a code the  *)
(* user got or of a command that said it failed (calculate_one, the rows of  *)
(* accounts code, and touches of the button).                                *)
THEOREM NoCodeForgotten == Spec => []CodesAccounted
  BY AccountsInvariance, PTL DEF AccountsInv

(* Adding, renaming and calculating lose no account that nobody asked to     *)
(* delete (accounts rename before firmware 2.0 in particular).               *)
THEOREM AccountsStay == Spec => []NoAccountLost
  BY AccountsInvariance, PTL DEF AccountsInv

(* No generated secret is shown of an add that failed, and every account on  *)
(* the key with a generated secret is one whose secret was shown or whose    *)
(* add was reported as failed (accounts add --generate).                     *)
THEOREM SecretsShown == Spec => []SecretShown
  BY AccountsInvariance, PTL DEF AccountsInv

(* The issuer, account and period of any name on the key, read by            *)
(* parse_name, are written as that name by format_id, when it is so of the   *)
(* names that were there at first.                                           *)
THEOREM NamesReadBack ==
    ASSUME ConventionalNames PROVE Spec => []NameReadBack
<1>1. AccountsInv => NameReadBack
  <2> SUFFICES ASSUME AccountsInv, NEW c \in card, c.kind \in {"TOTP", "HOTP"}
               PROVE  c.name = format_id(Parsed(c).issuer, Parsed(c).account, c.kind, c.period)
    BY DEF NameReadBack, NamedAsShown
  <2>1. Parsed(c) = parse_name(c.name, c.kind)
    BY Constants DEF Parsed, kind_of
  <2> QED
    BY <2>1 DEF AccountsInv, CardType, Credential, GoodName
<1> QED
  BY <1>1, AccountsInvariance, PTL
=============================================================================
