------------------------------- MODULE Teams -------------------------------
(***************************************************************************)
(* One team: auth/teams.py under the admin endpoints of routes/teams.py.   *)
(*                                                                         *)
(* The record is one Redis hash, its members one JSON field of it that is  *)
(* read, changed and written back.  HSET makes the hash it is given fields *)
(* for, so a write that comes after a deletion makes a record with those   *)
(* fields only.  The records of organisations are created, updated and     *)
(* deleted in the same steps and have no members.                          *)
(***************************************************************************)
EXTENDS Naturals

CONSTANTS
    Users,
    Roles,
    Limits,     \* what stands for the fields that update_team writes
    None,       \* the role of a user who is not a member, the limit of a team
                \* without one, the user of no operation
    Admins      \* concurrently running admin handlers (slots, reused)

VARIABLES
    team,     \* gateway:team:<id>
    adm,      \* admin handlers between their read and their write
    asked,    \* history: the members the completed operations asked for
    torn,     \* history: a change of members was written over another
    deleted   \* history: deleted, since then neither created nor written to by
              \* an operation that had begun before

vars == <<team, adm, asked, torn, deleted>>

Members == [Users -> Roles \union {None}]
Nobody == [u \in Users |-> None]
Absent == [there |-> FALSE, limit |-> None, members |-> Nobody]

\* members: the new list; limit: the new fields; stale: history, what the
\* operation read has been written or deleted since.
Task == [op : {"none", "update", "members"}, members : Members, limit : Limits \union {None},
         user : Users \union {None}, role : Roles \union {None}, stale : BOOLEAN]

NoTask == [op |-> "none", members |-> Nobody, limit |-> None, user |-> None, role |-> None,
           stale |-> FALSE]

TypeOK ==
    /\ team \in [there : BOOLEAN, limit : Limits \union {None}, members : Members]
    /\ adm \in [Admins -> Task]
    /\ asked \in Members
    /\ torn \in BOOLEAN
    /\ deleted \in BOOLEAN

Init ==
    /\ team = Absent
    /\ adm = [a \in Admins |-> NoTask]
    /\ asked = Nobody
    /\ torn = FALSE
    /\ deleted = FALSE

\* The tasks when a has ended and made the operations ops stale.
Ended(a, ops) ==
    [b \in Admins |-> IF b = a THEN NoTask
                      ELSE [adm[b] EXCEPT !.stale = @ \/ adm[b].op \in ops]]

-----------------------------------------------------------------------------
(* Operations.                                                             *)

\* create_team: one HSET of all fields, whatever there was.
CreateTeam(a) ==
    /\ adm[a].op = "none"
    /\ \E l \in Limits \union {None} :
          team' = [there |-> TRUE, limit |-> l, members |-> Nobody]
    /\ adm' = Ended(a, {"members"})
    /\ asked' = Nobody
    /\ torn' = FALSE
    /\ deleted' = FALSE

DeleteTeam(a) ==
    /\ adm[a].op = "none"
    /\ team' = Absent
    /\ adm' = Ended(a, {"members", "update"})
    /\ asked' = Nobody
    /\ torn' = FALSE
    /\ deleted' = (deleted \/ team.there)

\* Mutant: update_team does not ask whether the team exists.
BeginUpdateAnyway(a) ==
    /\ adm[a].op = "none"
    /\ \E l \in Limits :
          adm' = [adm EXCEPT ![a] = [NoTask EXCEPT !.op = "update", !.limit = l]]
    /\ UNCHANGED <<team, asked, torn, deleted>>

\* update_team asks whether the team exists; a field can be set, not taken away.
BeginUpdate(a) ==
    /\ adm[a].op = "none"
    /\ team.there
    /\ \E l \in Limits :
          adm' = [adm EXCEPT ![a] = [NoTask EXCEPT !.op = "update", !.limit = l,
                                                   !.members = team.members]]
    /\ UNCHANGED <<team, asked, torn, deleted>>

\* Mutant: the whole record is written back.
UpdateTeamWhole(a) ==
    /\ adm[a].op = "update"
    /\ team' = [there |-> TRUE, limit |-> adm[a].limit, members |-> adm[a].members]
    /\ adm' = Ended(a, {})
    /\ deleted' = (deleted /\ ~adm[a].stale)
    /\ UNCHANGED <<asked, torn>>

UpdateTeam(a) ==
    /\ adm[a].op = "update"
    /\ team' = [team EXCEPT !.there = TRUE, !.limit = adm[a].limit]
    /\ adm' = Ended(a, {})
    /\ deleted' = (deleted /\ ~adm[a].stale)
    /\ UNCHANGED <<asked, torn>>

\* add_team_member reads the record, and adds the user or changes the role;
\* remove_team_member takes the user off the list.
ReadMembers(a) ==
    /\ adm[a].op = "none"
    /\ team.there
    /\ \E u \in Users, role \in Roles \union {None} :
          adm' = [adm EXCEPT ![a] = [NoTask EXCEPT
              !.op = "members", !.user = u, !.role = role,
              !.members = [team.members EXCEPT ![u] = role]]]
    /\ UNCHANGED <<team, asked, torn, deleted>>

WriteMembers(a) ==
    /\ adm[a].op = "members"
    /\ team' = [team EXCEPT !.there = TRUE, !.members = adm[a].members]
    /\ adm' = Ended(a, {"members"})
    /\ asked' = [asked EXCEPT ![adm[a].user] = adm[a].role]
    /\ torn' = (torn \/ adm[a].stale)
    /\ deleted' = (deleted /\ ~adm[a].stale)

\* The write raises, or the process dies before it.
Lost(a) ==
    /\ adm[a].op # "none"
    /\ adm' = [adm EXCEPT ![a] = NoTask]
    /\ UNCHANGED <<team, asked, torn, deleted>>

Next == \E a \in Admins :
    \/ CreateTeam(a) \/ DeleteTeam(a) \/ BeginUpdate(a) \/ UpdateTeam(a)
    \/ ReadMembers(a) \/ WriteMembers(a) \/ Lost(a)

Spec == Init /\ [][Next]_vars

-----------------------------------------------------------------------------
(* Properties.                                                             *)

\* As long as no change of members was read before and written after another
\* write of members (teams.py:121-131), the list is what the changes in the order
\* of their writes make of it; updates of other fields never disturb it.
MembersAsAsked == team.there /\ ~torn => team.members = asked

\* A deleted team stays deleted until it is created again, unless an update or a
\* change of members that had found it is written after the deletion: HSET would
\* make a team without a name, and without any limit but those just written.
DeletedTeamStaysAway == deleted => ~team.there
=============================================================================
