--------------------------- MODULE MCTeamAndSkills ---------------------------
(***************************************************************************)
(* SkillInstalls and Membership for TLC: what members and administrators   *)
(* do in the workspace.  The two share no state, so that it is enough that  *)
(* one of them, `side`, moves in a behaviour; on the side of the skills     *)
(* Membership's variables hold nothing.                                     *)
(***************************************************************************)
EXTENDS SkillInstalls, TLC

CONSTANTS People, Orgs, MaxChanges

VARIABLES side, slack, roster, account, user, oldest, org, role, requests, changes,
          started, failed, alone, badge

Team == INSTANCE Membership WITH call <- requests, begun <- started, faults <- failed

(* Null is no person, no organization and no call. *)
ASSUME TeamNullAssumption == Null \notin People \cup Orgs \cup Team!Call

team == <<slack, roster, account, user, oldest, org, role, requests, changes,
          started, failed, alone, badge>>

SideInit ==
    /\ Init
    /\ \/ side = "team" /\ Team!Init
       \/ /\ side = "skills"
          /\ slack = Null /\ roster = Null /\ account = Null /\ user = Null /\ oldest = Null
          /\ org = Null /\ role = Null /\ requests = Null /\ changes = Null
          /\ started = Null /\ failed = Null /\ alone = Null /\ badge = Null

SkillsMove == side = "skills" /\ Next /\ UNCHANGED <<side, team>>

TeamMoves == side = "team" /\ Team!Next /\ UNCHANGED <<side, vars>>

SideSpec == SideInit /\ [][SkillsMove \/ TeamMoves]_<<side, vars, team>>

(* Membership's OneOrg: one organization is made for the workspace          *)
(* (app/api/team.py:4).                                                     *)
OneOrg == side = "team" => Team!OneOrg

Symmetry == Permutations(Users) \cup Permutations(Names) \cup Permutations(Calls)
=============================================================================
