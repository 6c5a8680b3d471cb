--------------------------- MODULE CardSelection ---------------------------
(***************************************************************************)
(* Which CanoKey a command works on (commands/mod.rs, single_target), and  *)
(* which ones `ckman list` shows (targets_matching_reader).                *)
(*                                                                         *)
(* Both visit the readers PC/SC reported, in order, while cards come and   *)
(* go and other processes hold cards exclusively.  Listing is best effort; *)
(* selection must account for every candidate.                             *)
(***************************************************************************)
EXTENDS Naturals, FiniteSets, FiniteSetsExt

CONSTANTS
    Readers,    \* numbered in PC/SC order
    Cards,
    CanoKeys,   \* the cards that are CanoKeys
    SerialOf,   \* the serial number a CanoKey reports, or None
    Serials,    \* values of --device
    None

ASSUME SelectionAssumption ==
    /\ Readers \subseteq Nat /\ IsFiniteSet(Readers) /\ None \notin Readers
    /\ CanoKeys \subseteq Cards /\ None \notin Cards
    /\ SerialOf \in [CanoKeys -> Serials \cup {None}] /\ None \notin Serials

VARIABLES
    inReader,  \* the card in each reader
    args,      \* the operation, --device and the readers --reader matches
    pc,
    left,      \* readers still to visit
    targets,   \* the cards connected and probed so far, by reader
    alive,     \* of these, the readers whose card has stayed in place
    target,    \* the reader selected
    steady,    \* cards in place ever since the readers were listed
    skipped    \* readers in which something could not be read

selection == <<args, pc, left, targets, target, skipped>>
selectionVars == <<inReader, selection, alive, steady>>

NoTargets == [r \in {} |-> None]
NoArgs    == [op |-> "none", device |-> None, named |-> None]
Present   == {inReader[r] : r \in Readers} \ {None}

SelectionInit ==
    /\ inReader \in [Readers -> Cards \cup {None}]
    /\ \A r, s \in Readers : r # s /\ inReader[r] # None => inReader[r] # inReader[s]
    /\ args = NoArgs /\ pc = "idle"
    /\ left = {} /\ targets = NoTargets /\ alive = {} /\ target = None
    /\ steady = {} /\ skipped = {}

-----------------------------------------------------------------------------
(* The readers. *)

Insert(r, c) ==
    /\ inReader[r] = None /\ c \notin Present
    /\ inReader' = [inReader EXCEPT ![r] = c]
    /\ UNCHANGED <<selection, alive, steady>>

(* The connection to a removed card is dead, although ckman still holds it. *)
Remove(r) ==
    /\ inReader[r] # None
    /\ inReader' = [inReader EXCEPT ![r] = None]
    /\ alive' = alive \ {r}
    /\ steady' = steady \ {inReader[r]}
    /\ UNCHANGED selection

-----------------------------------------------------------------------------
(* Visiting readers. *)

(* PC/SC lists every reader with a card, and perhaps empty ones.            *)
ListReaders ==
    /\ left' \in {L \in SUBSET Readers : \A r \in Readers : inReader[r] # None => r \in L}
    /\ pc' = "scan"
    /\ steady' = Present
    /\ UNCHANGED <<inReader, targets, alive, target, skipped>>

Arguments(op, device, named) ==
    /\ pc = "idle"
    /\ device = None \/ named = None
    /\ args' = [op |-> op, device |-> device, named |-> named]

Start(op, device, named) == Arguments(op, device, named) /\ ListReaders

EndSelection ==
    /\ args' = NoArgs /\ pc' = "idle"
    /\ left' = {} /\ targets' = NoTargets /\ alive' = {} /\ target' = None
    /\ steady' = {} /\ skipped' = {}
    /\ UNCHANGED inReader

reader == Min(left)
card   == inReader[reader]

Matches(c) == args.device # None => SerialOf[c] = args.device

Visited == left' = left \ {reader}

(* The reader answered that it holds no card, or the card is another one.   *)
Pass ==
    /\ Visited
    /\ UNCHANGED <<inReader, args, pc, targets, alive, target, steady, skipped>>

Hold ==
    /\ card \in CanoKeys
    /\ Visited
    /\ targets' = [r \in DOMAIN targets \cup {reader} |->
                      IF r = reader THEN card ELSE targets[r]]
    /\ alive' = alive \cup {reader}
    /\ UNCHANGED <<inReader, args, pc, target, steady, skipped>>

(* Mutant: best effort here too.                                            *)
UnreadablePassed == Pass

(* The card is held by another process, the reader is gone, the card does   *)
(* not answer the probe: it could be another CanoKey.                       *)
Unreadable == EndSelection

VisitCandidate ==
    /\ pc = "scan" /\ args.op # "list" /\ args.named = None /\ left # {}
    /\ \/ card \notin CanoKeys /\ Pass
       \/ Hold
       \/ Unreadable

Select(candidates) ==
    IF Cardinality(candidates) = 1
    THEN /\ target' = CHOOSE r \in candidates : TRUE
         /\ pc' = "selected"
         /\ UNCHANGED <<inReader, args, left, targets, alive, steady, skipped>>
    ELSE EndSelection

SelectCandidate ==
    /\ pc = "scan" /\ args.op # "list" /\ args.named = None /\ left = {}
    /\ Select({r \in DOMAIN targets : Matches(targets[r])})

(* --reader: exactly one reader may match, and nothing is passed over.      *)
VisitNamed ==
    LET matching == left \cap args.named IN
    /\ pc = "scan" /\ args.op # "list" /\ args.named # None
    /\ \/ EndSelection
       \/ /\ Cardinality(matching) = 1
          /\ \E r \in matching :
                /\ inReader[r] \in CanoKeys
                /\ targets' = [s \in {r} |-> inReader[r]]
                /\ alive' = {r} /\ target' = r
          /\ left' = {} /\ pc' = "selected"
          /\ UNCHANGED <<inReader, args, steady, skipped>>

Filtered == args.named # None /\ reader \notin args.named

(* Mutant: an unreadable card ends the listing.                             *)
VisitListedStrict ==
    /\ pc = "scan" /\ args.op = "list" /\ left # {}
    /\ \/ (Filtered \/ card \notin CanoKeys) /\ Pass
       \/ ~Filtered /\ (Hold \/ EndSelection)

VisitListed ==
    /\ pc = "scan" /\ args.op = "list" /\ left # {}
    /\ \/ Filtered /\ Pass
       \/ ~Filtered /\ card \notin CanoKeys /\ Pass
       \/ ~Filtered /\ Hold
       \/ /\ ~Filtered
          /\ Visited
          /\ skipped' = skipped \cup {reader}
          /\ UNCHANGED <<inReader, args, pc, targets, alive, target, steady>>

ShowList ==
    /\ pc = "scan" /\ args.op = "list" /\ left = {}
    /\ EndSelection

-----------------------------------------------------------------------------
(* Properties. *)

(* mod.rs:142, "Selection must account for every candidate": without        *)
(* --reader a command never works on one CanoKey while another one that     *)
(* fits has been in a reader all the time, whatever could not be read and   *)
(* came and went.                                                           *)
SelectionIsUnambiguous ==
    target # None /\ args.named = None =>
        \A c \in steady \cap CanoKeys : Matches(c) => c = targets[target]

(* mod.rs:73, "an unrelated or unavailable card must not prevent listing    *)
(* the other readers": a list has every matching CanoKey that stayed in     *)
(* place, except in the readers that failed.                                *)
ListingComplete ==
    [][args.op = "list" /\ pc' = "idle" =>
          \A r \in Readers :
             /\ inReader[r] \in steady \cap CanoKeys
             /\ r \notin skipped /\ (args.named # None => r \in args.named)
             => r \in DOMAIN targets]_selectionVars
=============================================================================
