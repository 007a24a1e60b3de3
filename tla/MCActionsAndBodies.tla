------------------------- MODULE MCActionsAndBodies -------------------------
(***************************************************************************)
(* IntegrationActions and SkillBodies for TLC: what a call of a connected   *)
(* app relies on, and the text of a skill it works by.  The two share no    *)
(* state, so that it is enough that one of them, `side`, moves in a         *)
(* behaviour: with the text no app is connected, with the calls there is no *)
(* text.                                                                    *)
(***************************************************************************)
EXTENDS IntegrationActions, TLC

CONSTANTS Writers, Facts, Attempts, Threshold, Cap, MaxVersion, MaxFaults

VARIABLES side, kind, skill, r2, body, writer, acked, raced, faults

Bodies == INSTANCE SkillBodies WITH row <- skill, cache <- body, call <- writer

(* A skill has a version, an append is tried, and Null is none of the data. *)
ASSUME BodiesAssumption ==
    /\ MaxVersion \in Nat \ {0} /\ Attempts \in Nat \ {0}
    /\ Null \notin Facts \cup Nat \cup Bodies!Body \cup Bodies!Call

bodies == <<kind, skill, r2, body, writer, acked, raced, faults>>

NoBodies ==
    /\ kind = Null /\ skill = Null /\ r2 = Null /\ body = Null /\ writer = Null
    /\ acked = Null /\ raced = Null /\ faults = Null

SideInit ==
    /\ Init
    /\ \/ side = "calls" /\ NoBodies
       \/ side = "bodies" /\ Found = {} /\ Bodies!Init

(* Bound: the answer of a call is read at once.  Nothing but SweepIsTrue    *)
(* looks at it, so that the steps it is read after make no difference.      *)
AnswersAreRead == \A c \in Callers : call[c].at = "done" => call'[c] = Idle

CallsMove == side = "calls" /\ Next /\ AnswersAreRead /\ UNCHANGED <<side, bodies>>

BodiesMove == side = "bodies" /\ Bodies!Next /\ UNCHANGED <<side, vars>>

SideSpec == SideInit /\ [][CallsMove \/ BodiesMove]_<<side, vars, bodies>>

(* SkillBodies' Remembered: what was reported as written is in the text the *)
(* next turn reads (app/memory/append.py, app/memory/compaction.py).        *)
Remembered == side = "bodies" => Bodies!Remembered

(* Accounts, slots for writers and facts are alike. *)
Symmetry == Permutations(Accounts) \cup Permutations(Writers) \cup Permutations(Facts)
=============================================================================
