--------------------------- MODULE GroupHubProofs ---------------------------
(***************************************************************************)
(* Proofs of the safety properties of GroupHub, for any set of nodes and   *)
(* any capacity.  Each property is inductive once it is stated of the      *)
(* saved copy of the group as well, which a restart brings back.           *)
(***************************************************************************)
EXTENDS GroupHub, FiniteSetTheorems, WellFoundedInduction, TLAPS

\* Nothing exists before the group is created.
Fresh ==
  createdBy = None => group = NoGroup /\ saved = NoGroup /\ joins = [n \in Nodes |-> 0]

HasAdmin(g) == Exists(g) /\ ~adminLeft => Admins(g) # {}

Fits(g) == Cardinality(Members(g)) <= MaxMembers

\* An outstanding invitation is an admission that has not been made yet.
InvitationsCounted ==
  \A n \in Nodes : joins[n] + (IF n \in group.invited THEN 1 ELSE 0) <= grants[n] + restarts

Elected(g) ==
  /\ Hub \notin Members(g)
  /\ Exists(g) => g.shadow = First(g) /\ g.candidate = Second(g)

IInv ==
  /\ TypeOK
  /\ Fresh
  /\ HasAdmin(group) /\ HasAdmin(saved)
  /\ Fits(group) /\ Fits(saved)
  /\ InvitationsCounted
  /\ ~LocalCommands => Elected(group) /\ Elected(saved)

-----------------------------------------------------------------------------
(* What the handlers make of a group *)

\* A non-empty set of natural numbers has a least element.
LEMMA LeastNatural ==
  ASSUME NEW S, S \subseteq Nat, S # {}
  PROVE  \E x \in S : \A y \in S : x <= y
<1>1. \E x \in S : \A y \in S : ~(<<y, x>> \in OpToRel(<, Nat))
  BY NatLessThanWellFounded, WFMin
<1>2. \A x, y \in S : ~(<<y, x>> \in OpToRel(<, Nat)) => x <= y
  BY DEF OpToRel
<1> QED BY <1>1, <1>2

\* Lowest chooses an element of a non-empty set of nodes.
LEMMA LowestInSet ==
  ASSUME NEW S, S \subseteq Nodes, S # {}
  PROVE  Lowest(S) \in S
<1> DEFINE R == {Rank[n] : n \in S}
<1>1. R \subseteq Nat /\ R # {}
  BY GroupAssumption
<1>2. PICK r \in R : \A q \in R : r <= q
  BY Zenon, <1>1, LeastNatural
<1>3. \E n \in S : \A m \in S : Rank[n] <= Rank[m]
  BY <1>2
<1> QED BY <1>3 DEF Lowest

\* The shadow and the candidate are nodes other than the hub, or none.
LEMMA FirstSecondType ==
  ASSUME NEW g, Members(g) \subseteq Nodes
  PROVE  /\ First(g) \in (Nodes \ {Hub}) \cup {None}
         /\ Second(g) \in (Nodes \ {Hub}) \cup {None}
         /\ Exists(g) /\ Hub \notin Members(g) => First(g) # None
<1>1. First(g) \in (Members(g) \ {Hub}) \cup {None}
  BY LowestInSet DEF First, Lowest
<1>2. Second(g) \in (Members(g) \ {Hub}) \cup {None}
  BY LowestInSet DEF Second, Lowest
<1>3. Exists(g) /\ Hub \notin Members(g) => First(g) # None
  BY LowestInSet, GroupAssumption DEF First, Exists
<1> QED BY <1>1, <1>2, <1>3

\* assign_shadow changes neither members nor invitations, and elects.
LEMMA AssignShadowStep ==
  ASSUME NEW g, IsGroup(g)
  PROVE  /\ IsGroup(AssignShadow(g))
         /\ AssignShadow(g).members = g.members
         /\ AssignShadow(g).invited = g.invited
         /\ Hub \notin Members(g) => Elected(AssignShadow(g))
<1> DEFINE s == AssignShadow(g)
<1>1. CASE ~Exists(g)
  BY <1>1 DEF AssignShadow, Elected
<1>2. CASE Exists(g)
  <2>1. First(g) \in (Nodes \ {Hub}) \cup {None} /\ Second(g) \in (Nodes \ {Hub}) \cup {None}
    BY FirstSecondType DEF IsGroup
  <2>2. /\ DOMAIN s = DOMAIN g
        /\ s.members = g.members
        /\ s.invited = g.invited
        /\ s.shadow = First(g)
        /\ s.candidate = IF First(g) = None THEN g.candidate ELSE Second(g)
    BY <1>2 DEF AssignShadow, IsGroup
  <2>3. Members(s) = Members(g) /\ First(s) = First(g) /\ Second(s) = Second(g)
    BY <2>2 DEF Members, First, Second
  <2>4. IsGroup(s)
    BY SMTT(30), <2>1, <2>2, <2>3 DEF IsGroup
  <2>5. Hub \notin Members(g) => Elected(s)
    BY SMTT(30), <1>2, <2>2, <2>3, FirstSecondType DEF Elected, IsGroup
  <2> QED BY <2>2, <2>4, <2>5
<1> QED BY <1>1, <1>2

\* The same of a request: the members and the invitations are what its handler
\* made of them, and a request from another node ends in an election.
LEMMA HandledStep ==
  ASSUME NEW g, NEW from, IsGroup(g)
  PROVE  /\ IsGroup(Handled(from, g))
         /\ Handled(from, g).members = g.members
         /\ Handled(from, g).invited = g.invited
         /\ from # Hub /\ Hub \notin Members(g) => Elected(Handled(from, g))
BY AssignShadowStep DEF Handled

\* A group with a member more, or with a member in another role.
LEMMA WithRoleStep ==
  ASSUME NEW g, IsGroup(g), NEW n \in Nodes, NEW role \in Roles
  PROVE  /\ IsGroup(WithRole(g, n, role))
         /\ Members(WithRole(g, n, role)) = Members(g) \cup {n}
         /\ WithRole(g, n, role).members[n] = role
         /\ \A m \in Members(g) \ {n} : WithRole(g, n, role).members[m] = g.members[m]
         /\ WithRole(g, n, role).invited = g.invited
<1> DEFINE w == WithRole(g, n, role)
           f == [m \in Members(g) \cup {n} |-> IF m = n THEN role ELSE g.members[m]]
<1>1. w = [g EXCEPT !.members = f]
  BY DEF WithRole, Members
<1>2. /\ w.members = f
      /\ w.invited = g.invited
      /\ w.shadow = g.shadow
      /\ w.candidate = g.candidate
      /\ DOMAIN w = DOMAIN g
  BY <1>1 DEF IsGroup
<1>3. Members(w) = Members(g) \cup {n}
  BY <1>2 DEF Members
<1>4. f \in [Members(g) \cup {n} -> Roles]
  BY DEF IsGroup
<1>5. IsGroup(w)
  BY SMTT(30), <1>2, <1>3, <1>4 DEF IsGroup
<1> QED BY <1>2, <1>3, <1>5

\* A group with a member less.
LEMMA WithoutStep ==
  ASSUME NEW g, IsGroup(g), NEW n
  PROVE  /\ IsGroup(Without(g, n))
         /\ Members(Without(g, n)) = Members(g) \ {n}
         /\ \A m \in Members(g) \ {n} : Without(g, n).members[m] = g.members[m]
         /\ Without(g, n).invited = g.invited
<1> DEFINE w == Without(g, n)
           f == [m \in Members(g) \ {n} |-> g.members[m]]
<1>1. w = [g EXCEPT !.members = f]
  BY DEF Without, Restrict, Members
<1>2. /\ w.members = f
      /\ w.invited = g.invited
      /\ w.shadow = g.shadow
      /\ w.candidate = g.candidate
      /\ DOMAIN w = DOMAIN g
  BY <1>1 DEF IsGroup
<1>3. Members(w) = Members(g) \ {n}
  BY <1>2 DEF Members
<1>4. IsGroup(w)
  BY SMTT(30), <1>2, <1>3 DEF IsGroup
<1> QED BY <1>2, <1>3, <1>4

\* No group is a group.
LEMMA NoGroupType == IsGroup(NoGroup) /\ Members(NoGroup) = {} /\ ~Exists(NoGroup)
BY DEF IsGroup, NoGroup, NoMembers, Members, Exists, Roles

\* Fewer members still fit.
LEMMA SubsetFits ==
  ASSUME NEW g, NEW g2, IsGroup(g), Fits(g), Members(g2) \subseteq Members(g)
  PROVE  Fits(g2)
<1>1. IsFiniteSet(Members(g))
  BY GroupAssumption, FS_Subset DEF IsGroup
<1>2. /\ Cardinality(Members(g2)) <= Cardinality(Members(g))
      /\ Cardinality(Members(g2)) \in Nat
      /\ Cardinality(Members(g)) \in Nat
  BY SMTT(30), <1>1, FS_Subset, FS_CardinalityType
<1> QED BY <1>2, GroupAssumption DEF Fits

\* Whether a group has an admin and fits depends on its members alone.
LEMMA SameMembers ==
  ASSUME NEW g, NEW g2, g2.members = g.members
  PROVE  /\ HasAdmin(g) => HasAdmin(g2)
         /\ Fits(g) => Fits(g2)
         /\ Members(g2) = Members(g)
BY DEF HasAdmin, Fits, Members, Exists, Admins

-----------------------------------------------------------------------------
(* The inductive invariant *)

\* The invariant holds when nothing exists yet.
LEMMA InitIInv == Init => IInv
<1> SUFFICES ASSUME Init PROVE IInv
  OBVIOUS
<1>1. TypeOK
  <2>1. IsGroup(group) /\ IsGroup(saved)
    BY NoGroupType DEF Init
  <2>2. /\ grants \in [Nodes -> 0..MaxGrants]
        /\ joins \in [Nodes -> Nat]
        /\ restarts \in 0..MaxRestarts
    BY GroupAssumption DEF Init
  <2> QED BY Zenon, <2>1, <2>2 DEF Init, TypeOK
<1>2. Fits(NoGroup)
  BY NoGroupType, FS_EmptySet, GroupAssumption DEF Fits
<1>3. HasAdmin(NoGroup)
  BY NoGroupType DEF HasAdmin
<1>4. Elected(NoGroup)
  BY NoGroupType DEF Elected
<1>5. InvitationsCounted
  BY SMTT(30) DEF InvitationsCounted, Init, NoGroup
<1> QED BY SMTT(30), <1>1, <1>2, <1>3, <1>4, <1>5 DEF Init, IInv, Fresh

\* A request preserves the invariant when the group g that its handler returns
\* does; assign_shadow, which may follow, does no harm.
LEMMA RequestStep ==
  ASSUME IInv, NEW from \in Requesters, NEW g, IsGroup(g),
         group' = Handled(from, g),
         createdBy' # None, createdBy' \in Nodes, inviteOnly' \in BOOLEAN,
         saved' = saved, restarts' = restarts,
         grants' \in [Nodes -> 0..MaxGrants], joins' \in [Nodes -> Nat],
         adminLeft' \in BOOLEAN, adminLeft => adminLeft',
         Exists(g) /\ ~adminLeft' => Admins(g) # {},
         Fits(g),
         Members(g) \subseteq Members(group) \cup {from},
         \A n \in Nodes :
           joins'[n] + (IF n \in g.invited THEN 1 ELSE 0) <= grants'[n] + restarts
  PROVE  IInv'
<1>1. /\ IsGroup(group')
      /\ group'.members = g.members
      /\ group'.invited = g.invited
      /\ from # Hub /\ Hub \notin Members(g) => Elected(group')
  BY SMTT(30), HandledStep
<1>2. TypeOK'
  <2>1. IsGroup(group)'
    BY SMTT(30), <1>1 DEF IsGroup, Members
  <2>2. IsGroup(saved)' /\ (restarts \in 0..MaxRestarts)'
    BY SMTT(30) DEF IInv, TypeOK, IsGroup, Members
  <2> QED BY SMTT(30), <2>1, <2>2 DEF TypeOK
<1>3. Fits(group') /\ Members(group') = Members(g)
  BY SMTT(30), <1>1, SameMembers
<1>4. HasAdmin(group)'
  BY SMTT(30), <1>1, <1>3 DEF HasAdmin, Exists, Admins, Members
<1>5. HasAdmin(saved)'
  BY DEF IInv, HasAdmin
<1>6. InvitationsCounted'
  BY SMTT(30), <1>1 DEF InvitationsCounted
<1>7. ~LocalCommands => Elected(group')
  BY SMTT(30), <1>1 DEF IInv, Elected, Requesters
<1> QED BY SMTT(30), <1>2, <1>3, <1>4, <1>5, <1>6, <1>7 DEF IInv, Fresh

\* handle_create
LEMMA CreateIInv ==
  ASSUME IInv, NEW from \in Requesters, NEW initial \in SUBSET Nodes, NEW inv \in BOOLEAN,
         Create(from, initial, inv)
  PROVE  IInv'
<1> DEFINE g == Created(from, initial)
<1>1. from \in Nodes /\ from # None
  BY GroupAssumption DEF Requesters
<1>2. /\ g.members = [n \in {from} |-> "admin"]
      /\ Members(g) = {from}
      /\ g.invited = initial
  BY DEF Created, Members
<1>3. IsGroup(g)
  BY SMTT(30), <1>1, <1>2 DEF IsGroup, Created, Roles
<1>4. Admins(g) # {}
  BY SMTT(30), <1>2 DEF Admins
<1>5. Fits(g)
  <2>1. Cardinality({from}) = 1
    BY FS_Singleton
  <2> QED BY SMTT(30), <1>2, <2>1, GroupAssumption DEF Fits
<1>6. grants' \in [Nodes -> 0..MaxGrants]
  BY GroupAssumption DEF Create
<1>7. joins = [n \in Nodes |-> 0] /\ joins' = joins
  BY DEF Create, IInv, Fresh
<1>8. \A n \in Nodes :
        joins'[n] + (IF n \in g.invited THEN 1 ELSE 0) <= grants'[n] + restarts
  <2>1. restarts \in Nat
    BY GroupAssumption DEF IInv, TypeOK
  <2>2. \A n \in Nodes : joins'[n] = 0 /\ grants'[n] = IF n \in initial THEN 1 ELSE 0
    BY <1>7 DEF Create
  <2> QED BY SMTT(30), <1>2, <2>1, <2>2
<1> QED BY ZenonT(30), <1>1, <1>2, <1>3, <1>4, <1>5, <1>6, <1>7, <1>8, RequestStep DEF Create, IInv, TypeOK

\* handle_join: an admission spends the invitation that counted for it.
LEMMA JoinIInv ==
  ASSUME IInv, NEW from \in Requesters, Join(from)
  PROVE  IInv'
<1> DEFINE g == IF MayJoin(group, from) THEN Joined(group, from) ELSE group
           w == WithRole(group, from, "member")
<1>1. from \in Nodes /\ createdBy \in Nodes
  BY DEF Requesters, Join, IInv, TypeOK
<1>2. IsGroup(group) /\ joins \in [Nodes -> Nat] /\ grants \in [Nodes -> 0..MaxGrants]
      /\ restarts \in Nat
  BY GroupAssumption DEF IInv, TypeOK
<1>3. joins' \in [Nodes -> Nat]
  BY SMTT(30), <1>1, <1>2 DEF Join
<1>4. CASE ~MayJoin(group, from)
  <2>1. g = group /\ joins' = joins
    BY SMTT(30), <1>4 DEF Join
  <2> QED BY ZenonT(30), <1>1, <1>2, <1>3, <2>1, RequestStep
          DEF Join, IInv, TypeOK, HasAdmin, InvitationsCounted
<1>5. CASE MayJoin(group, from)
  <2>1. /\ IsGroup(w)
        /\ Members(w) = Members(group) \cup {from}
        /\ \A m \in Members(group) \ {from} : w.members[m] = group.members[m]
        /\ w.invited = group.invited
    BY ZenonT(30), SMTT(30), <1>1, <1>2, WithRoleStep DEF Roles
  <2>2. g = [w EXCEPT !.invited = w.invited \ {from}]
    BY <1>5 DEF Joined
  <2>3. /\ g.members = w.members
        /\ g.invited = group.invited \ {from}
        /\ Members(g) = Members(group) \cup {from}
        /\ IsGroup(g)
    BY <2>1, <2>2 DEF IsGroup, Members
  <2>4. Exists(g) /\ ~adminLeft => Admins(g) # {}
    BY SMTT(30), ZenonT(30), <1>5, <2>1, <2>3 DEF IInv, HasAdmin, Admins, MayJoin
  <2>5. Fits(g)
    <3>1. IsFiniteSet(Members(group))
      BY SMTT(30), <1>2, GroupAssumption, FS_Subset DEF IsGroup
    <3>2. Cardinality(Members(group)) \in Nat /\ Cardinality(Members(group)) < MaxMembers
      BY SMTT(30), <1>5, <3>1, FS_CardinalityType, GroupAssumption DEF MayJoin, IsFull
    <3>3. Cardinality(Members(g)) = Cardinality(Members(group)) + 1
      BY SMTT(30), <1>5, <2>3, <3>1, FS_AddElement DEF MayJoin
    <3> QED BY <3>2, <3>3, GroupAssumption DEF Fits
  <2>6. \A n \in Nodes :
          joins'[n] + (IF n \in g.invited THEN 1 ELSE 0) <= grants'[n] + restarts
    <3> SUFFICES ASSUME NEW n \in Nodes
                 PROVE  joins'[n] + (IF n \in g.invited THEN 1 ELSE 0) <= grants'[n] + restarts
      BY SMTT(30)
    <3>1. joins[n] + (IF n \in group.invited THEN 1 ELSE 0) <= grants[n] + restarts
      BY SMTT(30) DEF IInv, InvitationsCounted
    <3>2. grants'[n] = grants[n] /\ joins[n] \in Nat /\ grants[n] \in Nat
      BY SMTT(30), <1>2, GroupAssumption DEF Join
    <3>3. CASE n # from
      <4>1. joins'[n] = joins[n]
        BY SMTT(30), <1>2, <3>3 DEF Join
      <4> QED BY SMTT(30), <2>3, <3>1, <3>3, <4>1, <3>2
    <3>4. CASE n = from
      <4>1. joins'[n] = joins[n] \/ (n \in group.invited /\ joins'[n] = joins[n] + 1)
        BY SMTT(30), <1>2, <1>5, <3>4 DEF Join, MayJoin
      <4>2. n \notin g.invited
        BY <2>3, <3>4
      <4> QED BY SMTT(30), <1>2, <3>1, <3>2, <4>1, <4>2
    <3> QED BY SMTT(30), <3>3, <3>4
  <2> QED BY ZenonT(30), <1>1, <1>2, <1>3, <2>3, <2>4, <2>5, <2>6, RequestStep DEF Join, IInv, TypeOK
<1> QED BY SMTT(30), <1>4, <1>5

\* handle_leave
LEMMA LeaveIInv ==
  ASSUME IInv, NEW from \in Requesters, Leave(from)
  PROVE  IInv'
<1> DEFINE w == Without(group, from)
<1>1. /\ IsGroup(w)
      /\ Members(w) = Members(group) \ {from}
      /\ \A m \in Members(group) \ {from} : w.members[m] = group.members[m]
      /\ w.invited = group.invited
  BY WithoutStep DEF IInv, TypeOK
<1>2. adminLeft' \in BOOLEAN /\ (adminLeft => adminLeft')
  BY SMTT(30) DEF Leave, IInv, TypeOK
<1>3. /\ createdBy' # None /\ createdBy' \in Nodes /\ inviteOnly' \in BOOLEAN
      /\ joins' = joins /\ grants' = grants /\ saved' = saved /\ restarts' = restarts
      /\ joins \in [Nodes -> Nat] /\ grants \in [Nodes -> 0..MaxGrants] /\ restarts \in Nat
  BY SMTT(30), GroupAssumption DEF Leave, IInv, TypeOK
<1>4. CASE Exists(w)
  <2>1. Left(group, from) = w
    BY <1>4 DEF Left
  <2>2. Exists(w) /\ ~adminLeft' => Admins(w) # {}
    BY ZenonT(30), <1>1 DEF Leave, IInv, HasAdmin, Admins, IsAdmin, Exists
  <2>3. Fits(w)
    BY SMTT(30), <1>1, SubsetFits DEF IInv, TypeOK
  <2> QED BY ZenonT(30), <1>1, <1>2, <1>3, <2>1, <2>2, <2>3, RequestStep
          DEF Leave, IInv, InvitationsCounted
<1>5. CASE ~Exists(w)
  <2>1. Left(group, from) = NoGroup
    BY SMTT(30), <1>5 DEF Left
  <2>2. Fits(NoGroup)
    BY SMTT(30), NoGroupType, SubsetFits DEF IInv, TypeOK
  <2>3. \A n \in Nodes :
          joins'[n] + (IF n \in NoGroup.invited THEN 1 ELSE 0) <= grants'[n] + restarts
    <3> SUFFICES ASSUME NEW n \in Nodes PROVE joins[n] <= grants[n] + restarts
      BY SMTT(30), <1>3 DEF NoGroup
    <3>1. joins[n] + (IF n \in group.invited THEN 1 ELSE 0) <= grants[n] + restarts
      BY DEF IInv, InvitationsCounted
    <3> QED BY SMTT(30), <1>3, <3>1, GroupAssumption
  <2> QED BY ZenonT(30), <1>2, <1>3, <2>1, <2>2, <2>3, NoGroupType, RequestStep DEF Leave
<1> QED BY SMTT(30), <1>4, <1>5

\* kick_member: the admin who kicks somebody else stays.
LEMMA KickIInv ==
  ASSUME IInv, NEW from \in Requesters, NEW target \in Nodes, Kick(from, target)
  PROVE  IInv'
<1> DEFINE w == Without(group, target)
           g == IF MayKick(group, from, target) THEN w ELSE group
<1>1. /\ IsGroup(w)
      /\ Members(w) = Members(group) \ {target}
      /\ \A m \in Members(group) \ {target} : w.members[m] = group.members[m]
      /\ w.invited = group.invited
  BY SMTT(30), WithoutStep DEF IInv, TypeOK
<1>2. IsGroup(g) /\ g.invited = group.invited /\ Members(g) \subseteq Members(group)
  BY SMTT(30), <1>1 DEF IInv, TypeOK
<1>3. Exists(g) /\ ~adminLeft => Admins(g) # {}
  <2>1. CASE MayKick(group, from, target)
    BY SMTT(30), <1>1, <2>1 DEF MayKick, IsAdmin, Admins
  <2>2. CASE ~MayKick(group, from, target)
    BY SMTT(30), <2>2 DEF IInv, HasAdmin
  <2> QED BY SMTT(30), <2>1, <2>2
<1>4. Fits(g)
  BY SMTT(30), <1>2, SubsetFits DEF IInv, TypeOK
<1> QED BY ZenonT(30), <1>2, <1>3, <1>4, RequestStep DEF Kick, IInv, TypeOK, InvitationsCounted

\* update_member_role: a demotion leaves another admin.
LEMMA SetRoleIInv ==
  ASSUME IInv, NEW from \in Requesters, NEW target \in Nodes, NEW role \in Roles,
         SetRole(from, target, role)
  PROVE  IInv'
<1> DEFINE w == WithRole(group, target, role)
           g == IF MaySetRole(group, from, target, role) THEN w ELSE group
<1>1. /\ IsGroup(w)
      /\ Members(w) = Members(group) \cup {target}
      /\ w.members[target] = role
      /\ \A m \in Members(group) \ {target} : w.members[m] = group.members[m]
      /\ w.invited = group.invited
  BY SMTT(30), WithRoleStep DEF IInv, TypeOK
<1>2. IsGroup(g) /\ g.invited = group.invited /\ Members(g) = Members(group)
  BY ZenonT(30), <1>1 DEF IInv, TypeOK, MaySetRole
<1>3. Exists(g) /\ ~adminLeft => Admins(g) # {}
  <2>1. CASE ~MaySetRole(group, from, target, role)
    BY SMTT(30), <2>1 DEF IInv, HasAdmin
  <2>2. CASE MaySetRole(group, from, target, role) /\ role = "admin"
    BY ZenonT(30), <1>1, <2>2 DEF Admins
  <2>3. CASE MaySetRole(group, from, target, role) /\ role = "member"
    <3>1. Cardinality(Admins(group)) > 1
      BY <2>3 DEF MaySetRole
    <3>2. ~(Admins(group) \subseteq {target})
      <4>1. SUFFICES ASSUME Admins(group) \subseteq {target} PROVE FALSE
        OBVIOUS
      <4>2. IsFiniteSet({target}) /\ Cardinality({target}) = 1
        BY ZenonT(30), FS_Singleton
      <4>3. Cardinality(Admins(group)) <= 1
        BY <4>1, <4>2, FS_Subset
      <4>4. Cardinality(Admins(group)) \in Nat
        BY SMTT(30), <4>1, <4>2, FS_Subset, FS_CardinalityType
      <4> QED BY SMTT(30), <3>1, <4>3, <4>4
    <3> QED BY ZenonT(30), <1>1, <2>3, <3>2 DEF Admins
  <2> QED BY SMTT(30), <2>1, <2>2, <2>3 DEF Roles
<1>4. Fits(g)
  BY <1>2, SubsetFits DEF IInv, TypeOK
<1> QED BY ZenonT(30), <1>2, <1>3, <1>4, RequestStep DEF SetRole, IInv, TypeOK, InvitationsCounted

\* invite_member
LEMMA InviteIInv ==
  ASSUME IInv, NEW from \in Requesters, NEW target \in Nodes, Invite(from, target)
  PROVE  IInv'
<1> DEFINE g == IF MayInvite(group, from, target) THEN Invited(group, target) ELSE group
<1>1. IsGroup(group) /\ joins \in [Nodes -> Nat] /\ grants \in [Nodes -> 0..MaxGrants]
      /\ restarts \in Nat
  BY GroupAssumption DEF IInv, TypeOK
<1>2. IsGroup(g) /\ g.members = group.members
  BY SMTT(30), <1>1 DEF IsGroup, Invited, Members
<1>3. grants' \in [Nodes -> 0..MaxGrants]
  <2>1. grants[target] \in 0..MaxGrants /\ grants[target] < MaxGrants
    BY SMTT(30), <1>1 DEF Invite
  <2>2. grants[target] + 1 \in 0..MaxGrants
    BY SMTT(30), <2>1, GroupAssumption
  <2> QED BY SMTT(30), <1>1, <2>2 DEF Invite
<1>4. \A n \in Nodes :
        joins'[n] + (IF n \in g.invited THEN 1 ELSE 0) <= grants'[n] + restarts
  <2> SUFFICES ASSUME NEW n \in Nodes
               PROVE  joins'[n] + (IF n \in g.invited THEN 1 ELSE 0) <= grants'[n] + restarts
    BY SMTT(30)
  <2>1. joins[n] + (IF n \in group.invited THEN 1 ELSE 0) <= grants[n] + restarts
    BY SMTT(30) DEF IInv, InvitationsCounted
  <2>2. joins'[n] = joins[n] /\ joins[n] \in Nat /\ grants[n] \in Nat
    BY SMTT(30), <1>1, GroupAssumption DEF Invite
  <2>3. \/ grants'[n] = grants[n] /\ (n \in g.invited => n \in group.invited)
        \/ grants'[n] = grants[n] + 1
    BY SMTT(30), <1>1 DEF Invite, Invited, IsGroup
  <2> QED BY SMTT(30), <1>1, <2>1, <2>2, <2>3
<1>5. HasAdmin(g) /\ Fits(g) /\ Members(g) = Members(group)
  BY SMTT(30), <1>2, SameMembers DEF IInv
<1> QED BY ZenonT(30), <1>2, <1>3, <1>4, <1>5, RequestStep DEF Invite, IInv, TypeOK, HasAdmin

\* Saving copies what holds of the group to its row.
LEMMA SaveStateIInv ==
  ASSUME IInv, SaveState
  PROVE  IInv'
<1>1. /\ group' = group /\ saved' = group /\ createdBy' = createdBy
      /\ inviteOnly' = inviteOnly /\ grants' = grants /\ joins' = joins
      /\ adminLeft' = adminLeft /\ restarts' = restarts
  BY SMTT(30) DEF SaveState
<1>2. TypeOK' /\ Fresh' /\ InvitationsCounted'
  BY ZenonT(30), <1>1 DEF IInv, TypeOK, Fresh, InvitationsCounted, IsGroup, Members
<1>3. HasAdmin(group)' /\ HasAdmin(saved)'
  BY SMTT(30), <1>1 DEF IInv, HasAdmin
<1>4. Fits(group') /\ Fits(saved') /\ (~LocalCommands => Elected(group') /\ Elected(saved'))
  BY SMTT(30), <1>1 DEF IInv
<1> QED BY SMTT(30), <1>2, <1>3, <1>4 DEF IInv

\* A restart may bring one invitation of each node back from the row.
LEMMA RestartIInv ==
  ASSUME IInv, Restart
  PROVE  IInv'
<1>1. /\ group' = saved /\ saved' = saved /\ createdBy' = createdBy
      /\ inviteOnly' = inviteOnly /\ grants' = grants /\ joins' = joins
      /\ adminLeft' = adminLeft /\ restarts' = restarts + 1
  BY SMTT(30) DEF Restart
<1>2. restarts \in Nat /\ restarts' \in 0..MaxRestarts
  BY SMTT(30), GroupAssumption DEF IInv, TypeOK, Restart
<1>3. TypeOK'
  <2>1. IsGroup(group)' /\ IsGroup(saved)'
    BY ZenonT(30), <1>1 DEF IInv, TypeOK, IsGroup, Members
  <2> QED BY SMTT(30), <1>1, <1>2, <2>1 DEF IInv, TypeOK
<1>4. InvitationsCounted'
  <2> SUFFICES ASSUME NEW n \in Nodes
               PROVE  joins[n] + (IF n \in saved.invited THEN 1 ELSE 0) <= grants[n] + (restarts + 1)
    BY SMTT(30), <1>1 DEF InvitationsCounted
  <2>1. joins[n] + (IF n \in group.invited THEN 1 ELSE 0) <= grants[n] + restarts
    BY DEF IInv, InvitationsCounted
  <2>2. joins[n] \in Nat /\ grants[n] \in Nat
    BY GroupAssumption DEF IInv, TypeOK
  <2> QED BY SMTT(30), <1>2, <2>1, <2>2
<1>5. HasAdmin(group)' /\ HasAdmin(saved)'
  BY <1>1 DEF IInv, HasAdmin
<1>6. Fresh'
  BY <1>1 DEF IInv, Fresh
<1>7. Fits(group') /\ Fits(saved') /\ (~LocalCommands => Elected(group') /\ Elected(saved'))
  BY <1>1 DEF IInv
<1> QED BY SMTT(30), <1>3, <1>4, <1>5, <1>6, <1>7 DEF IInv

\* The hub's invariant is inductive: every request from any node, every save and
\* every restart of the hub preserves it.
THEOREM Invariance == Spec => []IInv
<1>1. ASSUME IInv, [Next]_vars PROVE IInv'
  <2> USE <1>1
  <2>1. CASE \E n \in Requesters, initial \in SUBSET Nodes, inv \in BOOLEAN :
               Create(n, initial, inv)
    BY <2>1, CreateIInv
  <2>2. CASE \E n \in Requesters : Join(n)
    BY <2>2, JoinIInv
  <2>3. CASE \E n \in Requesters : Leave(n)
    BY <2>3, LeaveIInv
  <2>4. CASE \E n \in Requesters, t \in Nodes : Kick(n, t)
    BY <2>4, KickIInv
  <2>5. CASE \E n \in Requesters, t \in Nodes, role \in Roles : SetRole(n, t, role)
    BY <2>5, SetRoleIInv
  <2>6. CASE \E n \in Requesters, t \in Nodes : Invite(n, t)
    BY <2>6, InviteIInv
  <2>7. CASE SaveState
    BY <2>7, SaveStateIInv
  <2>8. CASE Restart
    BY SMTT(30), <2>8, RestartIInv
  <2>9. CASE UNCHANGED vars
    BY SMTT(30), ZenonT(30), <2>9 DEF vars, IInv, TypeOK, Fresh, HasAdmin, InvitationsCounted, IsGroup, Members
  <2> QED BY SMTT(30), <2>1, <2>2, <2>3, <2>4, <2>5, <2>6, <2>7, <2>8, <2>9 DEF Next
<1> QED BY InitIInv, <1>1, PTL DEF Spec

\* Type correctness of the hub's group and of its saved copy.
THEOREM TypeCorrectness == Spec => []TypeOK
<1>1. IInv => TypeOK
  BY DEF IInv
<1> QED BY <1>1, Invariance, PTL

\* update_member_role and kick_member never leave a group without an admin.
THEOREM AdminsRemain == Spec => []AdminRemains
<1>1. IInv => AdminRemains
  BY DEF IInv, HasAdmin, AdminRemains
<1> QED BY <1>1, Invariance, PTL

\* handle_join admits a node to an invite-only group once per invitation.
THEOREM AdmissionsAreInvited == Spec => []OneAdmissionPerInvitation
<1>1. ASSUME IInv PROVE OneAdmissionPerInvitation
  <2> SUFFICES ASSUME NEW n \in Nodes PROVE joins[n] <= grants[n] + restarts
    BY DEF OneAdmissionPerInvitation
  <2>1. joins[n] + (IF n \in group.invited THEN 1 ELSE 0) <= grants[n] + restarts
    BY <1>1 DEF IInv, InvitationsCounted
  <2>2. joins[n] \in Nat /\ grants[n] \in Nat /\ restarts \in Nat
    BY <1>1, GroupAssumption DEF IInv, TypeOK
  <2> QED BY <2>1, <2>2
<1> QED BY <1>1, Invariance, PTL

\* handle_join never takes a group past MAX_GROUP_MEMBERS.
THEOREM CapacityHolds == Spec => []WithinCapacity
<1>1. IInv => WithinCapacity
  BY DEF IInv, Fits, WithinCapacity
<1> QED BY <1>1, Invariance, PTL

\* When every request comes over the network, handle_incoming_group keeps the
\* shadow and the candidate the two lowest members, also across restarts.
THEOREM ShadowsAreElected == ~LocalCommands => (Spec => []ShadowIsLowestMember)
<1> SUFFICES ASSUME ~LocalCommands PROVE Spec => []ShadowIsLowestMember
  OBVIOUS
<1>1. IInv => ShadowIsLowestMember
  BY DEF IInv, Elected, ShadowIsLowestMember
<1> QED BY <1>1, Invariance, PTL
=============================================================================
