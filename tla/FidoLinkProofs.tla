--------------------------- MODULE FidoLinkProofs ---------------------------
(***************************************************************************)
(* For any readers and cards, coming and going: a command works on the     *)
(* only CanoKey that fits, a FIDO link leads to the device asked for, a    *)
(* list misses nothing that stayed in place, and nothing is retried that   *)
(* was done.                                                               *)
(*                                                                         *)
(* The argument is an account of the readers: while they are visited, each *)
(* CanoKey that has stayed in place is in a reader still to visit, held,   *)
(* or (in a listing) passed over for a reason.                             *)
(***************************************************************************)
EXTENDS FidoLink, FiniteSetTheorems, WellFoundedInduction, TLAPS

Types ==
    /\ inReader \in [Readers -> Cards \cup {None}]
    /\ steady \subseteq Present
    /\ left \subseteq Readers
    /\ DOMAIN targets \subseteq Readers

(* Nothing is selected, done or spent before the readers are visited.       *)
Before ==
    /\ pc = "idle" => args = NoArgs
    /\ pc = "hid" => args.op # "list"
    /\ args.op = "list" => pc = "scan"
    /\ pc \in {"idle", "hid"} => skipped = {}
    /\ pc = "scan" /\ args.op # "list" => skipped = {}
    /\ pc \in {"idle", "hid", "scan"} => target = None /\ done = 0 /\ spent = 0

Account ==
    pc = "scan" /\ (args.op = "list" \/ args.named = None) =>
        \A r \in Readers :
            /\ inReader[r] \in steady \cap CanoKeys /\ r \notin skipped
            /\ args.named # None => r \in args.named
            => r \in left \/ (r \in DOMAIN targets /\ targets[r] = inReader[r])

(* One PIN try, and one execution, in an attempt that can be repeated.      *)
Attempts ==
    /\ done \in Nat /\ RetriedOnce
    /\ pc \in {"selected", "prompt", "verified"} =>
          spent = 0 /\ (done = 0 \/ args.op = "info")
    /\ pc = "executed" /\ pin = "none" => spent = 0

Links ==
    /\ args.named # None => args.device = None
    /\ pc = "hid" => \A c \in interfaces :
          c \in CanoKeys /\ (args.device # None => HidSerialOf[c] = args.device)
    /\ pc \in {"selected", "prompt", "verified", "executed"} =>
          target \in Readers /\ Matches(chosen)
    /\ pc # "linked" => link = None

IInv == Types /\ Before /\ Account /\ Attempts /\ Links
        /\ SelectionIsUnambiguous /\ LinkAsAsked

-----------------------------------------------------------------------------
(* The reader visited next is one still to visit.                           *)
LEMMA NextReader ==
    ASSUME Types, left # {}
    PROVE  reader \in left /\ reader \in Readers
<1>1. left \subseteq Nat
  BY SelectionAssumption DEF Types
<1>2. PICK n \in left : \A m \in left : <<m, n>> \notin OpToRel(<, Nat)
  BY <1>1, NatLessThanWellFounded, WFMin
<1>3. \A k, m \in Nat : k < m => <<k, m>> \in OpToRel(<, Nat)
  BY Zenon DEF OpToRel
<1>4. \A m \in left : ~(m < n)
  BY <1>1, <1>2, <1>3, Zenon
<1>5. \A m \in left : n <= m
  BY <1>1, <1>4
<1> QED BY <1>5 DEF reader, Min, Types

(* Cards come and go; what has stayed in place becomes less.                *)
LEMMA EnvironmentKeepsIInv ==
    ASSUME IInv, Environment, Unlinked
    PROVE  IInv'
<1> USE DEF IInv
<1>1. /\ UNCHANGED <<args, pc, left, targets, target, skipped, tries, pin, spent, done>>
      /\ UNCHANGED <<interfaces, link>>
  BY DEF Environment, Insert, Remove, selection, Unlinked
<1>2. /\ inReader' \in [Readers -> Cards \cup {None}]
      /\ steady' \subseteq steady /\ steady' \subseteq Present'
      /\ \A r \in Readers : inReader'[r] \in steady' => inReader'[r] = inReader[r]
  <2>1. CASE \E r \in Readers : Remove(r)
    BY <2>1, SelectionAssumption DEF Remove, Types, Present
  <2>2. CASE \E r \in Readers, c \in Cards : Insert(r, c)
    BY <2>2, SelectionAssumption DEF Insert, Types, Present
  <2> QED BY <2>1, <2>2 DEF Environment
<1>3. Types'
  BY <1>1, <1>2 DEF Types
<1>4. Account'
  BY <1>1, <1>2 DEF Account
<1>5. Before' /\ Attempts'
  BY <1>1 DEF Before, Attempts, RetriedOnce
<1>6. Links' /\ LinkAsAsked'
  BY <1>1 DEF Links, LinkAsAsked, Matches, chosen
<1>7. SelectionIsUnambiguous'
  BY <1>1, <1>2 DEF SelectionIsUnambiguous, Matches
<1> QED BY <1>3, <1>4, <1>5, <1>6, <1>7

(* A command that ends leaves nothing.                                      *)
LEMMA EndKeepsIInv ==
    ASSUME IInv, EndSelection, done' = 0, spent' = 0, link' = None
    PROVE  IInv'
<1>1. Types'
  BY DEF IInv, Types, EndSelection, NoTargets
<1>2. Before' /\ Account' /\ Attempts' /\ Links'
  BY DEF EndSelection, Before, Account, Attempts, RetriedOnce, Links, NoArgs
<1>3. SelectionIsUnambiguous' /\ LinkAsAsked'
  BY DEF EndSelection, SelectionIsUnambiguous, LinkAsAsked
<1> QED BY <1>1, <1>2, <1>3 DEF IInv

(* PC/SC reports every reader that holds a card.                            *)
LEMMA ListingKeepsIInv ==
    ASSUME IInv, ListReaders, pc \in {"idle", "hid"}, UNCHANGED <<done, spent, link>>,
           args'.named # None => args'.device = None
    PROVE  IInv'
<1>1. Types'
  BY DEF IInv, Types, ListReaders, Present
<1>2. Before' /\ Attempts' /\ Links'
  BY DEF IInv, ListReaders, Before, Attempts, RetriedOnce, Links
<1>3. Account'
  BY SelectionAssumption DEF IInv, Types, ListReaders, Account
<1>4. SelectionIsUnambiguous' /\ LinkAsAsked'
  BY DEF IInv, ListReaders, Before, Links, SelectionIsUnambiguous, LinkAsAsked
<1> QED BY <1>1, <1>2, <1>3, <1>4 DEF IInv

(* A command looks for interfaces, or lists the readers.                    *)
LEMMA BeginKeepsIInv ==
    ASSUME IInv,
           \/ \E op \in Ops, device \in Serials \cup {None},
                 named \in (SUBSET Readers) \cup {None} : Begin(op, device, named) /\ Unlinked
           \/ \E device \in Serials \cup {None},
                 named \in (SUBSET Readers) \cup {None} : BeginFido(device, named)
    PROVE  IInv'
<1>1. CASE ListReaders
  BY <1>1, ListingKeepsIInv DEF Begin, BeginFido, Start, Arguments, Unlinked
<1>2. CASE ~ListReaders
  <2>1. PICK device \in Serials \cup {None} :
          /\ pc = "idle" /\ ListInterfaces(device) /\ args'.device = device
          /\ args'.named = None /\ args'.op = "fido" /\ UNCHANGED <<spent, done, link>>
    BY <1>2 DEF Begin, BeginFido, Start, Arguments
  <2>2. Types'
    BY <2>1 DEF IInv, Types, ListInterfaces, Present
  <2>3. Before' /\ Account' /\ Attempts' /\ Links'
    BY <2>1 DEF IInv, ListInterfaces, Before, Account, Attempts, RetriedOnce, Links
  <2>4. SelectionIsUnambiguous' /\ LinkAsAsked'
    BY <2>1 DEF IInv, ListInterfaces, Before, Links, SelectionIsUnambiguous, LinkAsAsked
  <2> QED BY <2>2, <2>3, <2>4 DEF IInv
<1> QED BY <1>1, <1>2

-----------------------------------------------------------------------------
(* A reader is passed over without a CanoKey, or for a reason.              *)
LEMMA PassKeepsIInv ==
    ASSUME IInv, pc = "scan", UNCHANGED <<spent, done, link>>,
           left' = left \ {reader},
           UNCHANGED <<inReader, args, pc, targets, target, steady>>,
           skipped' = skipped \/ (args.op = "list" /\ skipped' = skipped \cup {reader}),
           \/ inReader[reader] \notin CanoKeys
           \/ args.named # None /\ reader \notin args.named
           \/ reader \in skipped'
    PROVE  IInv'
<1>1. Types'
  BY DEF IInv, Types, Present
<1>2. Before' /\ Attempts' /\ Links'
  BY DEF IInv, Before, Attempts, RetriedOnce, Links
<1>3. Account'
  BY DEF IInv, Account
<1>4. SelectionIsUnambiguous' /\ LinkAsAsked'
  BY DEF IInv, Before, Links, SelectionIsUnambiguous, LinkAsAsked
<1> QED BY <1>1, <1>2, <1>3, <1>4 DEF IInv

(* The CanoKey in the reader is held.                                       *)
LEMMA HoldKeepsIInv ==
    ASSUME IInv, pc = "scan", left # {}, Hold, UNCHANGED <<spent, done, link>>
    PROVE  IInv'
<1>1. reader \in Readers
  BY NextReader DEF IInv
<1>2. Types'
  BY <1>1 DEF IInv, Types, Hold, Visited, Present
<1>3. Before' /\ Attempts' /\ Links'
  BY DEF IInv, Hold, Before, Attempts, RetriedOnce, Links
<1>4. Account'
  BY DEF IInv, Hold, Visited, card, Account
<1>5. SelectionIsUnambiguous' /\ LinkAsAsked'
  BY DEF IInv, Hold, Before, Links, SelectionIsUnambiguous, LinkAsAsked
<1> QED BY <1>2, <1>3, <1>4, <1>5 DEF IInv

(* The one candidate is selected only when every reader has been visited.   *)
LEMMA SelectKeepsIInv ==
    ASSUME IInv, SelectCandidate, UNCHANGED <<spent, done, link>>
    PROVE  IInv'
<1> DEFINE candidates == {r \in DOMAIN targets : Matches(targets[r])}
<1>1. /\ pc = "scan" /\ args.op # "list" /\ args.named = None /\ left = {}
      /\ Select(candidates)
  BY DEF SelectCandidate
<1>2. CASE Cardinality(candidates) # 1
  BY <1>1, <1>2, EndKeepsIInv DEF Select, IInv, Before, Links
<1>3. CASE Cardinality(candidates) = 1
  <2>1. candidates \in SUBSET Readers
    BY DEF IInv, Types
  <2>2. IsFiniteSet(candidates)
    BY <2>1, FS_Subset, SelectionAssumption
  <2>3. PICK x : candidates = {x}
    BY <1>3, <2>2, FS_Singleton
  <2>4. /\ target' = x /\ pc' = "selected" /\ x \in candidates
        /\ UNCHANGED <<inReader, args, left, targets, steady, skipped>>
    BY <1>1, <1>3, <2>3 DEF Select
  <2>5. x \in Readers /\ Matches(targets[x])
    BY <2>1, <2>4
  <2>6. Types'
    BY <2>4 DEF IInv, Types, Present
  <2>7. Before' /\ Account' /\ Attempts'
    BY <1>1, <2>4 DEF IInv, Before, Account, Attempts, RetriedOnce
  <2>8. Links' /\ LinkAsAsked'
    BY <1>1, <2>4, <2>5 DEF IInv, Links, LinkAsAsked, chosen, Matches
  <2>9. SelectionIsUnambiguous'
    <3> SUFFICES ASSUME NEW c \in steady \cap CanoKeys, Matches(c)
                 PROVE  c = targets[x]
      BY <2>4 DEF SelectionIsUnambiguous, Matches
    <3>1. PICK r \in Readers : inReader[r] = c
      BY DEF IInv, Types, Present
    <3>2. r \in DOMAIN targets /\ targets[r] = c
      BY <1>1, <3>1 DEF IInv, Account, Before
    <3>3. r \in candidates
      BY <3>2
    <3> QED BY <2>3, <3>2, <3>3
  <2> QED BY <2>6, <2>7, <2>8, <2>9 DEF IInv
<1> QED BY <1>2, <1>3

(* A reader named by the user.                                              *)
LEMMA VisitNamedKeepsIInv ==
    ASSUME IInv, VisitNamed, UNCHANGED <<spent, done, link>>
    PROVE  IInv'
<1>1. CASE EndSelection
  BY <1>1, EndKeepsIInv DEF VisitNamed, IInv, Before, Links
<1>2. CASE ~EndSelection
  <2>1. PICK r \in left :
          /\ pc = "scan" /\ args.op # "list" /\ args.named # None
          /\ targets' = [s \in {r} |-> inReader[r]]
          /\ target' = r /\ left' = {} /\ pc' = "selected"
          /\ UNCHANGED <<inReader, args, steady, skipped>>
    BY <1>2 DEF VisitNamed
  <2>2. Types' /\ r \in Readers
    BY <2>1 DEF IInv, Types, Present
  <2>3. Before' /\ Account' /\ Attempts'
    BY <2>1 DEF IInv, Before, Account, Attempts, RetriedOnce
  <2>4. Links' /\ LinkAsAsked' /\ SelectionIsUnambiguous'
    BY <2>1, <2>2 DEF IInv, Links, LinkAsAsked, SelectionIsUnambiguous, chosen, Matches
  <2> QED BY <2>2, <2>3, <2>4 DEF IInv
<1> QED BY <1>1, <1>2

(* One step of a selection or a listing.                                    *)
LEMMA ScanKeepsIInv ==
    ASSUME IInv, Scan, Unlinked
    PROVE  IInv'
<1>1. UNCHANGED <<spent, done, link>>
  BY DEF Scan, Unlinked
<1>2. CASE VisitCandidate
  <2>1. pc = "scan" /\ left # {} /\ args.named = None
    BY <1>2 DEF VisitCandidate
  <2>2. CASE card \notin CanoKeys /\ Pass
    BY <1>1, <2>1, <2>2, PassKeepsIInv DEF Pass, Visited, card
  <2>3. CASE Unreadable
    BY <1>1, <2>1, <2>3, EndKeepsIInv DEF Unreadable, IInv, Before, Links
  <2> QED BY <1>1, <1>2, <2>1, <2>2, <2>3, HoldKeepsIInv DEF VisitCandidate
<1>3. CASE VisitListed
  <2>1. pc = "scan" /\ left # {} /\ args.op = "list"
    BY <1>3 DEF VisitListed
  <2>2. CASE Hold
    BY <1>1, <2>1, <2>2, HoldKeepsIInv
  <2>3. CASE (Filtered \/ card \notin CanoKeys) /\ Pass
    BY <1>1, <2>1, <2>3, PassKeepsIInv DEF Pass, Visited, card, Filtered
  <2>4. CASE /\ Visited
             /\ skipped' = skipped \cup {reader}
             /\ UNCHANGED <<inReader, args, pc, targets, target, steady>>
    BY <1>1, <2>1, <2>4, PassKeepsIInv DEF Visited
  <2> QED BY <1>3, <2>2, <2>3, <2>4 DEF VisitListed
<1>4. CASE ShowList
  BY <1>1, <1>4, EndKeepsIInv DEF ShowList, IInv, Before, Links
<1> QED BY <1>1, <1>2, <1>3, <1>4, SelectKeepsIInv, VisitNamedKeepsIInv DEF Scan

-----------------------------------------------------------------------------
(* The steps of an attempt keep to one execution and one PIN try.           *)
LEMMA AttemptsKeepIInv ==
    ASSUME IInv, Unlinked,
           Refused \/ EnterAdminPin \/ VerifyRight \/ VerifyWrong \/ Execute \/ FactoryReset
    PROVE  IInv'
<1>1. /\ pc \in {"selected", "prompt", "verified", "executed"}
      /\ pc' \in {"selected", "prompt", "verified", "executed"}
      /\ UNCHANGED <<inReader, args, left, targets, target, steady, skipped, interfaces, link>>
  BY DEF Refused, EnterAdminPin, VerifyRight, VerifyWrong, Execute, FactoryReset, Continue,
     Verifying, Unlinked
<1>2. Types' /\ Before'
  BY <1>1 DEF IInv, Types, Before, Present
<1>3. Account' /\ Links'
  BY <1>1 DEF IInv, Account, Links, chosen, Matches
<1>4. SelectionIsUnambiguous' /\ LinkAsAsked'
  BY <1>1 DEF IInv, SelectionIsUnambiguous, LinkAsAsked, Matches
<1>5. Attempts'
  <2> USE <1>1 DEF IInv, Attempts, RetriedOnce, Continue
  <2>1. CASE Refused
    BY <2>1 DEF Refused, NeedsAdminPin
  <2>2. CASE EnterAdminPin
    BY <2>2 DEF EnterAdminPin
  <2>3. CASE VerifyRight \/ VerifyWrong
    BY <2>3 DEF VerifyRight, VerifyWrong, Verifying
  <2>4. CASE Execute
    BY <2>4 DEF Execute
  <2>5. CASE FactoryReset
    BY <2>5 DEF FactoryReset
  <2> QED BY <2>1, <2>2, <2>3, <2>4, <2>5
<1> QED BY <1>2, <1>3, <1>4, <1>5 DEF IInv

(* The link is the interface opened or the card selected.                   *)
LEMMA LinkKeepsIInv ==
    ASSUME IInv, OpenHid \/ LinkPcsc
    PROVE  IInv'
<1>1. /\ pc' = "linked" /\ pc \in {"hid", "selected", "executed"}
      /\ UNCHANGED <<inReader, args, left, targets, target, steady, skipped, interfaces>>
      /\ UNCHANGED <<pin, spent, done>>
  BY DEF OpenHid, LinkPcsc, Continue
<1>2. Types' /\ Account' /\ Links'
  BY <1>1 DEF IInv, Types, Present, Account, Links
<1>3. Before' /\ Attempts' /\ SelectionIsUnambiguous'
  BY <1>1 DEF IInv, Before, Attempts, RetriedOnce, SelectionIsUnambiguous, Matches
<1>4. LinkAsAsked'
  <2>1. CASE OpenHid
    BY <1>1, <2>1, LinkAssumption DEF OpenHid, IInv, Before, Links, LinkAsAsked
  <2>2. CASE LinkPcsc
    BY <1>1, <2>2, SelectionAssumption DEF LinkPcsc, IInv, Links, LinkAsAsked, chosen, Matches
  <2> QED BY <2>1, <2>2
<1> QED BY <1>2, <1>3, <1>4 DEF IInv

(* Every step of a command and of its environment.                          *)
LEMMA StepKeepsIInv == IInv /\ [LinkNext]_linkVars => IInv'
<1> SUFFICES ASSUME IInv, [LinkNext]_linkVars PROVE IInv'
  OBVIOUS
<1>1. CASE UNCHANGED linkVars
  BY <1>1 DEF linkVars, vars, selectionVars, selection, IInv, Types, Present, Before, Account,
     Attempts, RetriedOnce, Links, chosen, Matches, SelectionIsUnambiguous, LinkAsAsked
<1>2. CASE FallBack
  BY <1>2, ListingKeepsIInv DEF FallBack, IInv, Links
<1>3. CASE EndLink
  BY <1>3, EndKeepsIInv DEF EndLink, Finish
<1> QED BY <1>1, <1>2, <1>3, BeginKeepsIInv, EnvironmentKeepsIInv, ScanKeepsIInv,
       AttemptsKeepIInv, LinkKeepsIInv DEF LinkNext

(* The inductive invariant holds of every behaviour.                        *)
LEMMA Invariance == LinkSpec => []IInv
<1>1. LinkInit => IInv
  <2> SUFFICES ASSUME LinkInit PROVE IInv
    OBVIOUS
  <2>1. Types
    BY DEF LinkInit, Init, SelectionInit, Types, NoTargets
  <2>2. Before /\ Account /\ Attempts /\ Links
    BY DEF LinkInit, Init, SelectionInit, Before, Account, Attempts, RetriedOnce, Links, NoArgs
  <2>3. SelectionIsUnambiguous /\ LinkAsAsked
    BY DEF LinkInit, Init, SelectionInit, SelectionIsUnambiguous, LinkAsAsked
  <2> QED BY <2>1, <2>2, <2>3 DEF IInv
<1> QED BY <1>1, StepKeepsIInv, PTL DEF LinkSpec

-----------------------------------------------------------------------------
(* A command works on the only CanoKey that fits, among those that stayed   *)
(* in their readers (SelectionIsUnambiguous).                               *)
THEOREM NoOtherCanoKeyFits == LinkSpec => []SelectionIsUnambiguous
BY Invariance, PTL DEF IInv

(* A FIDO command talks to the device asked for, over HID or PC/SC          *)
(* (LinkAsAsked).                                                           *)
THEOREM LinkedAsAsked == LinkSpec => []LinkAsAsked
BY Invariance, PTL DEF IInv

(* No operation is carried out twice, and one PIN try is spent at most      *)
(* (RetriedOnce).                                                           *)
THEOREM NothingDoneTwice == LinkSpec => []RetriedOnce
<1>1. IInv => RetriedOnce
  BY DEF IInv, Attempts
<1> QED BY <1>1, Invariance, PTL

(* A list shows every matching CanoKey that stayed in place and could be    *)
(* read (ListingComplete).                                                  *)
THEOREM ListsAreComplete == LinkSpec => ListingComplete
<1>1. ASSUME IInv, [LinkNext]_linkVars, args.op = "list", pc' = "idle",
             selectionVars' # selectionVars
      PROVE  left = {} /\ pc = "scan"
  <2>1. pc = "scan"
    BY <1>1 DEF IInv, Before
  <2>2. ShowList
    BY <1>1, <2>1 DEF LinkNext, linkVars, vars, Begin, Start, Arguments, BeginFido, OpenHid,
       FallBack, LinkPcsc, EndLink, Scan, VisitCandidate, SelectCandidate, VisitNamed, VisitListed,
       Hold, Pass, Environment, Insert, Remove, selection, Refused, EnterAdminPin, VerifyRight,
       VerifyWrong, Verifying, Execute, FactoryReset
  <2> QED BY <2>1, <2>2 DEF ShowList
<1>2. IInv /\ [LinkNext]_linkVars =>
        [args.op = "list" /\ pc' = "idle" =>
            \A r \in Readers :
               /\ inReader[r] \in steady \cap CanoKeys
               /\ r \notin skipped /\ (args.named # None => r \in args.named)
               => r \in DOMAIN targets]_selectionVars
  BY <1>1 DEF IInv, Account
<1> QED BY <1>2, Invariance, PTL DEF LinkSpec, ListingComplete
=============================================================================
