------------------------------ MODULE GroupHub ------------------------------
(***************************************************************************)
(* The GroupHub of one node, for one of the groups it hosts: members and   *)
(* their roles, outstanding invitations, the shadow and candidate chosen   *)
(* for failover, and the copy of all that in the node's state.db.          *)
(*                                                                         *)
(* Requests come from any node in any order, as often as the network       *)
(* repeats or delays them.  A request from another node is followed by     *)
(* assign_shadow (handle_incoming_group); one from the hub node itself is  *)
(* not (handle_command and handle_local_group_payload).                    *)
(***************************************************************************)
EXTENDS Integers, FiniteSets, Functions

CONSTANTS
  Nodes,
  Hub,             \* the node that hosts the group
  Rank,            \* the order of the node ids' strings
  MaxMembers,      \* MAX_GROUP_MEMBERS
  LocalCommands,   \* TRUE: the user of the hub node takes part in the group
  MaxGrants,       \* bound: invitations per node
  MaxRestarts      \* bound: restarts of the hub node

VARIABLES
  group,           \* HubGroup: members and roles, invited_set, shadow, candidate
  createdBy,       \* GroupInfo::created_by
  inviteOnly,      \* GroupInfo::invite_only
  saved,           \* the group's row of table hub_groups
  grants,          \* history: times each node has been invited
  joins,           \* history: times each node has been admitted
  adminLeft,       \* history: an admin has left of their own accord
  restarts         \* history: restarts of the hub node

vars == <<group, createdBy, inviteOnly, saved, grants, joins, adminLeft, restarts>>

None == "none"

ASSUME GroupAssumption ==
  /\ IsFiniteSet(Nodes)
  /\ Hub \in Nodes
  /\ None \notin Nodes
  /\ Rank \in [Nodes -> Nat]
  /\ \A m, n \in Nodes : Rank[m] = Rank[n] => m = n
  /\ MaxMembers \in Nat \ {0}
  /\ LocalCommands \in BOOLEAN
  /\ MaxGrants \in Nat
  /\ MaxRestarts \in Nat

\* The nodes that send requests to this hub.
Requesters == IF LocalCommands THEN Nodes ELSE Nodes \ {Hub}

Roles == {"admin", "member"}

NoMembers == [n \in {} |-> "member"]

\* No entry in GroupHub::groups: a group without members is removed from it.
NoGroup == [members |-> NoMembers, invited |-> {}, shadow |-> None, candidate |-> None]

Members(g) == DOMAIN g.members

\* The parts of struct HubGroup and its GroupInfo that requests read or change.
IsGroup(g) ==
  /\ DOMAIN g = {"members", "invited", "shadow", "candidate"}
  /\ Members(g) \subseteq Nodes
  /\ g.members \in [Members(g) -> Roles]
  /\ g.invited \subseteq Nodes
  /\ g.shadow \in (Nodes \ {Hub}) \cup {None}
  /\ g.candidate \in (Nodes \ {Hub}) \cup {None}

Exists(g) == Members(g) # {}

IsAdmin(g, n) == n \in Members(g) /\ g.members[n] = "admin"

Admins(g) == {n \in Members(g) : g.members[n] = "admin"}

IsFull(g) == Cardinality(Members(g)) >= MaxMembers

WithRole(g, n, role) ==
  [g EXCEPT !.members = [m \in DOMAIN @ \cup {n} |-> IF m = n THEN role ELSE @[m]]]

Without(g, n) == [g EXCEPT !.members = Restrict(@, DOMAIN @ \ {n})]

-----------------------------------------------------------------------------
(* The handlers, as what they make of the group *)

\* handle_create
Created(creator, initial) ==
  [members |-> [n \in {creator} |-> "admin"], invited |-> initial,
   shadow |-> None, candidate |-> None]

\* handle_join admits n.  A member that joins again only gets a Sync.
MayJoin(g, n) ==
  /\ Exists(g)
  /\ n \notin Members(g)
  /\ inviteOnly => n = createdBy \/ n \in g.invited
  /\ ~IsFull(g)

\* Mutant: an invitation is not used up.
JoinedKeepingInvite(g, n) == WithRole(g, n, "member")

\* An admission uses up the invitation.
Joined(g, n) == [WithRole(g, n, "member") EXCEPT !.invited = @ \ {n}]

\* handle_leave
Left(g, n) == IF Exists(Without(g, n)) THEN Without(g, n) ELSE NoGroup

\* kick_member: the target need not be a member, and keeps its invitation.
MayKick(g, admin, target) == Exists(g) /\ IsAdmin(g, admin) /\ admin # target

\* Mutant: no last-admin protection.
MaySetRoleUnprotected(g, admin, target, role) ==
  /\ Exists(g)
  /\ IsAdmin(g, admin)
  /\ target \in Members(g)
  /\ g.members[target] # role

\* update_member_role: the only admin cannot be demoted.
MaySetRole(g, admin, target, role) ==
  /\ Exists(g)
  /\ IsAdmin(g, admin)
  /\ target \in Members(g)
  /\ g.members[target] # role
  /\ role = "member" => Cardinality(Admins(g)) > 1

\* invite_member
MayInvite(g, admin, target) ==
  Exists(g) /\ IsAdmin(g, admin) /\ target \notin Members(g) /\ ~IsFull(g)

Invited(g, target) == [g EXCEPT !.invited = @ \cup {target}]

-----------------------------------------------------------------------------
(* Shadow election *)

Lowest(S) ==
  IF S = {} THEN None ELSE CHOOSE n \in S : \A m \in S : Rank[n] <= Rank[m]

\* The members but the hub, in the order of their ids: the first two.
First(g) == Lowest(Members(g) \ {Hub})

Second(g) == Lowest(Members(g) \ {Hub, First(g)})

\* Mutant: keeps a shadow once it has one.
AssignShadowOnce(g) ==
  IF ~Exists(g) \/ g.shadow # None THEN g
  ELSE [g EXCEPT !.shadow = First(g), !.candidate = Second(g)]

\* assign_shadow.  Without anybody to choose from, candidate_id stays as it was.
AssignShadow(g) ==
  IF ~Exists(g) THEN g
  ELSE [g EXCEPT !.shadow = First(g), !.candidate = IF First(g) = None THEN @ ELSE Second(g)]

\* What is left of the group when `from`'s request has made it g.
Handled(from, g) == IF from = Hub THEN g ELSE AssignShadow(g)

-----------------------------------------------------------------------------
Init ==
  /\ group = NoGroup
  /\ createdBy = None
  /\ inviteOnly = FALSE
  /\ saved = NoGroup
  /\ grants = [n \in Nodes |-> 0]
  /\ joins = [n \in Nodes |-> 0]
  /\ adminLeft = FALSE
  /\ restarts = 0

\* GroupPayload::Create.  The id is fresh: the group is created once.
Create(from, initial, inv) ==
  /\ createdBy = None
  /\ MaxGrants > 0
  /\ createdBy' = from
  /\ inviteOnly' = inv
  /\ group' = Handled(from, Created(from, initial))
  /\ grants' = [n \in Nodes |-> IF n \in initial THEN 1 ELSE 0]
  /\ UNCHANGED <<saved, joins, adminLeft, restarts>>

\* GroupPayload::Join.  Admissions are counted where they take an invitation.
Join(from) ==
  /\ createdBy # None
  /\ group' = Handled(from, IF MayJoin(group, from) THEN Joined(group, from) ELSE group)
  /\ joins' = IF MayJoin(group, from) /\ inviteOnly /\ from # createdBy
              THEN [joins EXCEPT ![from] = @ + 1] ELSE joins
  /\ UNCHANGED <<createdBy, inviteOnly, saved, grants, adminLeft, restarts>>

\* GroupPayload::Leave: no check that the node is a member.
Leave(from) ==
  /\ createdBy # None
  /\ group' = Handled(from, Left(group, from))
  /\ adminLeft' = (adminLeft \/ IsAdmin(group, from))
  /\ UNCHANGED <<createdBy, inviteOnly, saved, grants, joins, restarts>>

\* GroupPayload::KickMember
Kick(from, target) ==
  /\ createdBy # None
  /\ group' = Handled(from, IF MayKick(group, from, target) THEN Without(group, target) ELSE group)
  /\ UNCHANGED <<createdBy, inviteOnly, saved, grants, joins, adminLeft, restarts>>

\* GroupPayload::UpdateMemberRole
SetRole(from, target, role) ==
  /\ createdBy # None
  /\ group' = Handled(from, IF MaySetRole(group, from, target, role)
                            THEN WithRole(group, target, role) ELSE group)
  /\ UNCHANGED <<createdBy, inviteOnly, saved, grants, joins, adminLeft, restarts>>

\* GroupPayload::InviteMember
Invite(from, target) ==
  /\ createdBy # None
  /\ grants[target] < MaxGrants
  /\ group' = Handled(from, IF MayInvite(group, from, target)
                            THEN Invited(group, target) ELSE group)
  /\ grants' = IF MayInvite(group, from, target)
               THEN [grants EXCEPT ![target] = @ + 1] ELSE grants
  /\ UNCHANGED <<createdBy, inviteOnly, saved, joins, adminLeft, restarts>>

\* save_state, every 30s: GroupHub::snapshot replaces the rows of hub_groups.
\* (Only a restart reads them: a save after the last one is left out.)
SaveState ==
  /\ restarts < MaxRestarts
  /\ saved' = group
  /\ UNCHANGED <<group, createdBy, inviteOnly, grants, joins, adminLeft, restarts>>

\* The node dies and starts again: GroupHub::restore.  What happened to the
\* group since the last save is undone.
Restart ==
  /\ restarts < MaxRestarts
  /\ restarts' = restarts + 1
  /\ group' = saved
  /\ UNCHANGED <<createdBy, inviteOnly, saved, grants, joins, adminLeft>>

Next ==
  \/ \E n \in Requesters, initial \in SUBSET Nodes, inv \in BOOLEAN : Create(n, initial, inv)
  \/ \E n \in Requesters : Join(n)
  \/ \E n \in Requesters : Leave(n)
  \/ \E n \in Requesters, t \in Nodes : Kick(n, t)
  \/ \E n \in Requesters, t \in Nodes, role \in Roles : SetRole(n, t, role)
  \/ \E n \in Requesters, t \in Nodes : Invite(n, t)
  \/ SaveState
  \/ Restart

Spec == Init /\ [][Next]_vars

-----------------------------------------------------------------------------
(* Properties *)

\* The types of the group, of its saved copy and of the histories.
TypeOK ==
  /\ IsGroup(group)
  /\ createdBy \in Nodes \cup {None}
  /\ inviteOnly \in BOOLEAN
  /\ IsGroup(saved)
  /\ grants \in [Nodes -> 0..MaxGrants]
  /\ joins \in [Nodes -> Nat]
  /\ adminLeft \in BOOLEAN
  /\ restarts \in 0..MaxRestarts

\* "Last-admin protection": through every sequence of kicks, role changes, joins
\* and restarts from an old snapshot, a group that exists has an admin, unless
\* an admin has left it of their own accord (handle_leave has no such check).
AdminRemains ==
  Exists(group) /\ ~adminLeft => Admins(group) # {}

\* An invitation to an invite-only group admits once: who has left or has been
\* kicked comes back only on a further invitation (or as the creator), save for
\* the one invitation a restart may bring back from the snapshot.
OneAdmissionPerInvitation ==
  \A n \in Nodes : joins[n] <= grants[n] + restarts

\* MAX_GROUP_MEMBERS: however invitations, joins and restarts interleave, the
\* group never has more members than that.
WithinCapacity == Cardinality(Members(group)) <= MaxMembers

\* assign_shadow "deterministic election (lowest NodeId among members, excluding
\* the hub itself)": the shadow and the candidate are the two lowest members.
ShadowIsLowestMember ==
  Exists(group) => group.shadow = First(group) /\ group.candidate = Second(group)
=============================================================================
