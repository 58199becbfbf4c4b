--------------------------- MODULE Administration ---------------------------
(***************************************************************************)
(* The records the admin endpoints change: virtual keys with the requests  *)
(* that use them, and a team.  They share no state, and one behaviour      *)
(* works on one of them: the other stands still.                           *)
(***************************************************************************)
EXTENDS VirtualKeys

CONSTANTS Users, Roles, Limits

VARIABLES onTeam, team, tasks, asked, torn, deleted

teams == <<team, tasks, asked, torn, deleted>>

T == INSTANCE Teams WITH adm <- tasks

AdminInit == Init /\ T!Init /\ onTeam \in BOOLEAN

AdminNext ==
    \/ ~onTeam /\ Next /\ UNCHANGED <<onTeam, teams>>
    \/ onTeam /\ T!Next /\ UNCHANGED <<onTeam, vars>>

AdminSpec == AdminInit /\ [][AdminNext]_<<onTeam, vars, teams>>

-----------------------------------------------------------------------------
(* Properties: those of VirtualKeys, and of Teams.                         *)

\* Members are lost only to changes of members written over one another.
MembersAsAsked == T!MembersAsAsked

\* No team comes back but by an operation that had found it.
DeletedTeamStaysAway == T!DeletedTeamStaysAway
=============================================================================
