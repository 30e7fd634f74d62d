------------------------------ MODULE Failover ------------------------------
(***************************************************************************)
(* Failover of a group's hub: the hub names a shadow after each request,   *)
(* the shadow pings the hub, and after enough missed pings or reports it   *)
(* makes itself the hub and tells the members it knows (HubMigration).     *)
(*                                                                         *)
(* The runtime sends pings and reads pongs but never counts a missed ping: *)
(* record_ping_failure is called by the tests alone, and no code sends     *)
(* HubUnreachable.  With Watchdog both happen, as the tests drive them.    *)
(***************************************************************************)
EXTENDS Integers, FiniteSets

CONSTANTS
  Peers,           \* the nodes but the hub
  Hub,             \* the node that hosts the group
  Rank,            \* the order of the node ids' strings
  Initial,         \* the peers that are members at the start
  Watchdog,        \* TRUE: missed pings are counted and members report
  Threshold,       \* SHADOW_PING_FAILURE_THRESHOLD
  Limits,          \* bound: how often each event happens
  MaxKinds         \* bound: how many of the events happen in one behaviour

VARIABLES
  hubUp,           \* the hub's runtime is running
  members,         \* GroupInfo::members at the hub
  savedMembers,    \* the same in the hub's table hub_groups
  hubOf,           \* each peer's GroupInfo::hub_relay_id, None: not in the group
  savedHub,        \* the same in the peer's table groups
  shadow,          \* GroupManager::shadow_state of each peer
  waiting,         \* the peers with a ping that has not been answered
  net,             \* group payloads on their way
  named,           \* history: the peers that the hub has named as its shadow
  count            \* history: the events so far

vars == <<hubUp, members, savedMembers, hubOf, savedHub, shadow, waiting, net, named, count>>

None == "none"

Events == {"crash", "return", "restart", "loss", "join", "leave", "late", "report"}

ASSUME FailoverAssumption ==
  /\ IsFiniteSet(Peers)
  /\ Hub \notin Peers
  /\ None \notin Peers \cup {Hub}
  /\ Rank \in [Peers -> Nat]
  /\ \A m, n \in Peers : Rank[m] = Rank[n] => m = n
  /\ Initial \subseteq Peers
  /\ Watchdog \in BOOLEAN
  /\ Threshold \in Nat \ {0, 1}
  /\ Limits \in [Events -> Nat]
  /\ MaxKinds \in Nat

\* A ShadowState: the members to take over, and the signals that the hub is down.
Signals(ms, failures, reports) ==
  [members |-> ms, failures |-> failures, reports |-> reports]

\* No entry in shadow_state.
NoShadow == Signals({}, -1, 0)

ShadowState == [members: SUBSET Peers, failures: Nat \cup {-1}, reports: Nat]

IsShadow(n) == shadow[n] # NoShadow

\* GroupPayload, as far as failover is concerned: requests to a hub, and what is
\* sent to a member.
Payload ==
  [kind: {"join", "leave", "ping"}, from: Peers, to: Peers \cup {Hub}, members: {{}}]
  \cup [kind: {"sync", "shadowSync", "pong", "unreachable", "migration"},
        from: Peers \cup {Hub}, to: Peers, members: SUBSET Peers]

Msg(kind, from, to) == [kind |-> kind, from |-> from, to |-> to, members |-> {}]

\* Makes event e happen, within the bounds.
Happens(e) ==
  /\ count[e] < Limits[e]
  /\ Cardinality({f \in Events : count[f] > 0} \cup {e}) <= MaxKinds
  /\ count' = [count EXCEPT ![e] = @ + 1]

\* A node that leads the group: the hub, or a peer that promoted itself.
Leads(n) == IF n = Hub THEN hubUp ELSE hubOf[n] = n

-----------------------------------------------------------------------------
(* The hub *)

Lowest(S) == {n \in S : \A m \in S : Rank[n] <= Rank[m]}

\* Mutant: every member is made a shadow.
ShadowSyncToAll(ms) ==
  {[kind |-> "shadowSync", from |-> Hub, to |-> n, members |-> ms] : n \in ms}

\* assign_shadow: the lowest member is sent the members.
ShadowSync(ms) ==
  {[kind |-> "shadowSync", from |-> Hub, to |-> n, members |-> ms] : n \in Lowest(ms)}

\* A request m has made the members ms: answer it and name the shadow.
HubHandles(m, ms, answer) ==
  /\ hubUp
  /\ members # {}
  /\ m \in net
  /\ m.to = Hub
  /\ members' = ms
  /\ named' = named \cup Lowest(ms)
  /\ net' = (net \ {m}) \cup answer \cup ShadowSync(ms)
  /\ UNCHANGED <<hubUp, savedMembers, hubOf, savedHub, shadow, waiting, count>>

\* handle_join: a new member, or one that joins again, gets a Sync.
HubJoin(m) ==
  /\ m.kind = "join"
  /\ HubHandles(m, members \cup {m.from}, {Msg("sync", Hub, m.from)})

\* handle_leave.  The group goes with its last member.
HubLeave(m) ==
  /\ m.kind = "leave"
  /\ HubHandles(m, members \ {m.from}, {})

\* handle_hub_ping: members only.
HubPing(m) ==
  /\ hubUp
  /\ members # {}
  /\ m \in net
  /\ m.kind = "ping"
  /\ m.to = Hub
  /\ net' = (net \ {m}) \cup (IF m.from \in members THEN {Msg("pong", Hub, m.from)} ELSE {})
  /\ UNCHANGED <<hubUp, members, savedMembers, hubOf, savedHub, shadow, waiting, named, count>>

\* A node that does not run, or whose GroupHub does not have the group (a promoted
\* peer's never does), does not answer.
Ignored(m) ==
  /\ m \in net
  /\ m.kind \in {"join", "leave", "ping"}
  /\ m.to = Hub => ~hubUp \/ members = {}
  /\ net' = net \ {m}
  /\ UNCHANGED <<hubUp, members, savedMembers, hubOf, savedHub, shadow, waiting, named, count>>

HubSave ==
  /\ hubUp
  /\ savedMembers' = members
  /\ UNCHANGED <<hubUp, members, hubOf, savedHub, shadow, waiting, net, named, count>>

HubCrash ==
  /\ hubUp
  /\ Happens("crash")
  /\ hubUp' = FALSE
  /\ UNCHANGED <<members, savedMembers, hubOf, savedHub, shadow, waiting, net, named>>

HubReturn ==
  /\ ~hubUp
  /\ Happens("return")
  /\ hubUp' = TRUE
  /\ members' = savedMembers
  /\ UNCHANGED <<savedMembers, hubOf, savedHub, shadow, waiting, net, named>>

-----------------------------------------------------------------------------
(* The peers *)

\* accept_invite
JoinGroup(n) ==
  /\ hubOf[n] = None
  /\ Happens("join")
  /\ net' = net \cup {Msg("join", n, Hub)}
  /\ UNCHANGED <<hubUp, members, savedMembers, hubOf, savedHub, shadow, waiting, named>>

\* leave_group
LeaveGroup(n) ==
  /\ hubOf[n] # None
  /\ Happens("leave")
  /\ hubOf' = [hubOf EXCEPT ![n] = None]
  /\ shadow' = [shadow EXCEPT ![n] = NoShadow]
  /\ net' = net \cup {Msg("leave", n, hubOf[n])}
  /\ UNCHANGED <<hubUp, members, savedMembers, savedHub, waiting, named>>

\* handle_group_sync: the hub's GroupInfo replaces the peer's.
RecvSync(m) ==
  /\ m \in net
  /\ m.kind = "sync"
  /\ hubOf' = [hubOf EXCEPT ![m.to] = Hub]
  /\ net' = net \ {m}
  /\ UNCHANGED <<hubUp, members, savedMembers, savedHub, shadow, waiting, named, count>>

\* handle_shadow_sync: a peer without the group ignores it.  config_version is
\* stored and not compared.
RecvShadowSync(m) ==
  /\ m \in net
  /\ m.kind = "shadowSync"
  /\ shadow' = IF hubOf[m.to] = None THEN shadow
               ELSE [shadow EXCEPT ![m.to] = Signals(m.members, 0, 0)]
  /\ net' = net \ {m}
  /\ UNCHANGED <<hubUp, members, savedMembers, hubOf, savedHub, waiting, named, count>>

\* tick_shadow_ping
ShadowPing(n) ==
  /\ IsShadow(n)
  /\ hubOf[n] # None
  /\ net' = net \cup {Msg("ping", n, hubOf[n])}
  /\ waiting' = waiting \cup {n}
  /\ UNCHANGED <<hubUp, members, savedMembers, hubOf, savedHub, shadow, named, count>>

\* reset_ping_failures
RecvPong(m) ==
  /\ m \in net
  /\ m.kind = "pong"
  /\ waiting' = waiting \ {m.to}
  /\ shadow' = IF IsShadow(m.to)
               THEN [shadow EXCEPT ![m.to] = Signals(@.members, 0, 0)] ELSE shadow
  /\ net' = net \ {m}
  /\ UNCHANGED <<hubUp, members, savedMembers, hubOf, savedHub, named, count>>

\* should_promote
ShouldPromote(s) ==
  \/ s.failures >= Threshold
  \/ s.failures >= 1 /\ s.failures + s.reports >= 2

\* Mutant: the filter of the recipients is the wrong way round.
FollowersInverted(n, s) == s.members \cap {n}

\* The recipients of HubMigration.
Followers(n, s) == s.members \ {n}

\* Mutant: forgets to make n the hub of its own copy of the group.
SignalForgetful(n, s, sent) ==
  /\ shadow' = [shadow EXCEPT ![n] = IF ShouldPromote(s) THEN NoShadow ELSE s]
  /\ net' = sent
  /\ UNCHANGED hubOf

\* Peer n's shadow state becomes s, and n promotes itself if that is enough:
\* promote_to_primary.  `sent` is what is left of the messages.
Signal(n, s, sent) ==
  IF ShouldPromote(s)
  THEN /\ shadow' = [shadow EXCEPT ![n] = NoShadow]
       /\ hubOf' = IF hubOf[n] = None THEN hubOf ELSE [hubOf EXCEPT ![n] = n]
       /\ net' = sent \cup (IF hubOf[n] = None THEN {}
                            ELSE {Msg("migration", n, q) : q \in Followers(n, s)})
  ELSE /\ shadow' = [shadow EXCEPT ![n] = s]
       /\ net' = sent
       /\ UNCHANGED hubOf

\* record_ping_failure
RecordPingFailure(n) ==
  /\ Watchdog
  /\ IsShadow(n)
  /\ n \in waiting
  /\ waiting' = waiting \ {n}
  /\ LET s == shadow[n]
     IN  Signal(n, Signals(s.members, s.failures + 1, s.reports), net)
  /\ UNCHANGED <<hubUp, members, savedMembers, savedHub, named>>

\* A ping stays unanswered because the hub is down.
MissedPing(n) ==
  /\ ~hubUp
  /\ RecordPingFailure(n)
  /\ UNCHANGED count

\* The ping or its pong is lost or late, and the hub is up.
LatePing(n) ==
  /\ hubUp
  /\ Happens("late")
  /\ RecordPingFailure(n)

\* A member whose request stays unanswered, rightly or wrongly, sends
\* HubUnreachable to a shadow.
Report(n, s) ==
  /\ Watchdog
  /\ hubOf[n] = Hub
  /\ n # s
  /\ Happens("report")
  /\ net' = net \cup {Msg("unreachable", n, s)}
  /\ UNCHANGED <<hubUp, members, savedMembers, hubOf, savedHub, shadow, waiting, named>>

\* handle_hub_unreachable
RecvUnreachable(m) ==
  /\ m \in net
  /\ m.kind = "unreachable"
  /\ IF IsShadow(m.to)
     THEN LET s == shadow[m.to]
          IN  Signal(m.to, Signals(s.members, s.failures, s.reports + 1), net \ {m})
     ELSE net' = net \ {m} /\ UNCHANGED <<shadow, hubOf>>
  /\ UNCHANGED <<hubUp, members, savedMembers, savedHub, waiting, named, count>>

\* handle_hub_migration
RecvMigration(m) ==
  /\ m \in net
  /\ m.kind = "migration"
  /\ hubOf' = IF hubOf[m.to] = None THEN hubOf ELSE [hubOf EXCEPT ![m.to] = m.from]
  /\ net' = net \ {m}
  /\ UNCHANGED <<hubUp, members, savedMembers, savedHub, shadow, waiting, named, count>>

PeerSave(n) ==
  /\ savedHub' = [savedHub EXCEPT ![n] = hubOf[n]]
  /\ UNCHANGED <<hubUp, members, savedMembers, hubOf, shadow, waiting, net, named, count>>

\* The peer dies and starts again: shadow_state is not saved, and rejoin_groups
\* sends a Join to the hub of the snapshot.
PeerRestart(n) ==
  /\ Happens("restart")
  /\ hubOf' = [hubOf EXCEPT ![n] = savedHub[n]]
  /\ shadow' = [shadow EXCEPT ![n] = NoShadow]
  /\ waiting' = waiting \ {n}
  /\ net' = net \cup {Msg("join", n, h) : h \in {savedHub[n]} \ {None, n}}
  /\ UNCHANGED <<hubUp, members, savedMembers, savedHub, named>>

Lose(m) ==
  /\ m \in net
  /\ Happens("loss")
  /\ net' = net \ {m}
  /\ UNCHANGED <<hubUp, members, savedMembers, hubOf, savedHub, shadow, waiting, named>>

-----------------------------------------------------------------------------
\* The members have joined, and the last request has just been handled.
Init ==
  /\ hubUp = TRUE
  /\ members = Initial
  /\ savedMembers = Initial
  /\ hubOf = [n \in Peers |-> IF n \in Initial THEN Hub ELSE None]
  /\ savedHub = hubOf
  /\ shadow = [n \in Peers |-> NoShadow]
  /\ waiting = {}
  /\ net = ShadowSync(Initial)
  /\ named = Lowest(Initial)
  /\ count = [e \in Events |-> 0]

\* Something that is on its way arrives.
Receive(m) ==
  \/ HubJoin(m)
  \/ HubLeave(m)
  \/ HubPing(m)
  \/ Ignored(m)
  \/ RecvSync(m)
  \/ RecvShadowSync(m)
  \/ RecvPong(m)
  \/ RecvUnreachable(m)
  \/ RecvMigration(m)

Next ==
  \/ \E m \in net : Receive(m)
  \/ HubSave
  \/ HubCrash
  \/ HubReturn
  \/ \E n \in Peers : JoinGroup(n)
  \/ \E n \in Peers : LeaveGroup(n)
  \/ \E n \in Peers : ShadowPing(n)
  \/ \E n \in Peers : MissedPing(n)
  \/ \E n \in Peers : LatePing(n)
  \/ \E n, s \in Peers : Report(n, s)
  \/ \E n \in Peers : PeerSave(n)
  \/ \E n \in Peers : PeerRestart(n)
  \/ \E m \in net : Lose(m)

Spec == Init /\ [][Next]_vars

\* Every node reads what has reached it, and the 3s interval of the shadow's pings
\* and of their timeouts keeps firing.
Fairness ==
  /\ \A n \in Peers \cup {Hub} : WF_vars(\E m \in net : m.to = n /\ Receive(m))
  /\ \A n \in Peers : WF_vars(ShadowPing(n)) /\ WF_vars(MissedPing(n))

FairSpec == Spec /\ Fairness

-----------------------------------------------------------------------------
(* Properties *)

\* The types of the hub's and the peers' state and of the network.
TypeOK ==
  /\ hubUp \in BOOLEAN
  /\ members \subseteq Peers
  /\ savedMembers \subseteq Peers
  /\ hubOf \in [Peers -> Peers \cup {Hub, None}]
  /\ savedHub \in [Peers -> Peers \cup {Hub, None}]
  /\ shadow \in [Peers -> ShadowState]
  /\ \A n \in Peers : IsShadow(n) => shadow[n].failures \in 0..Threshold - 1
  /\ waiting \subseteq Peers
  /\ net \subseteq Payload
  /\ named \subseteq Peers
  /\ count \in [Events -> Nat]

\* At most one ping has been missed while the hub was up, and if so no member has
\* reported the hub.
FewFalseAlarms ==
  count["late"] = 0 \/ (count["late"] = 1 /\ count["report"] = 0)

\* "Deterministic election prevents split-brain": as long as the hub has named one
\* shadow only and does not come back, no two nodes lead the group at a time,
\* whatever is lost or restarted and however members join and leave.  One late
\* pong, or any number of false reports, does not make a shadow take over.
OneLeader ==
  (\A p, q \in named : p = q) /\ count["return"] = 0 /\ FewFalseAlarms =>
    \A p, q \in Peers \cup {Hub} : Leads(p) /\ Leads(q) => p = q

\* "Auto-promotes on 2 missed pings": when the hub is down and stays down a shadow
\* takes over, unless it restarts or leaves.
Promotes ==
  \A n \in Peers :
    IsShadow(n) /\ hubOf[n] # None /\ ~hubUp
      ~> (\/ hubUp
          \/ \E q \in Peers : Leads(q)
          \/ count["restart"] > 0
          \/ count["leave"] > 0)

\* The hub has named one shadow and nothing but its own crash has happened.
OnlyCrash ==
  (\A p, q \in named : p = q) /\ \A e \in Events \ {"crash", "report"} : count[e] = 0

\* HubMigration: when nothing but the crash happens, every member comes to follow
\* the peer that promoted itself.
Followed ==
  \A p \in Peers, n \in Initial :
    Leads(p) ~> hubOf[n] = p \/ ~OnlyCrash
=============================================================================
