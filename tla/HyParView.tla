------------------------------ MODULE HyParView ------------------------------
(***************************************************************************)
(* The swarm membership of a gossip topic (tom-gossip, proto/hyparview.rs) *)
(* over the connections of its actor (net.rs).  Every node keeps a small   *)
(* active view, the peers it is connected to, and a passive view, peers it *)
(* falls back on.                                                          *)
(*                                                                         *)
(* A handler is an operator from an outcome to the set of outcomes it may  *)
(* have, one for each random choice: the node's state, and what it hands   *)
(* to the actor in order.  The views are sets; peer data is left out.      *)
(***************************************************************************)
EXTENDS Integers, FiniteSets, FiniteSetsExt, Sequences, SequencesExt

CONSTANTS
  Nodes,
  ActiveCapacity,          \* active_view_capacity
  PassiveCapacity,         \* passive_view_capacity
  ActiveWalk,              \* active_random_walk_length
  PassiveWalk,             \* passive_random_walk_length
  ShuffleWalk,             \* shuffle_random_walk_length
  ShuffleActive,           \* shuffle_active_view_count
  ShufflePassive,          \* shuffle_passive_view_count
  Contacts,                \* the peers a node is told to join, of each node
  MaxJoins,                \* bound: join commands of a node
  MaxShuffles,             \* bound: shuffles
  MaxFailures,             \* bound: nodes that crash or quit
  MaxBusy                  \* bound: messages on their way when a command or a fault comes

VARIABLES
  up,                      \* the nodes whose process runs
  swarm,                   \* the nodes that have the topic
  node,                    \* hyparview::State of each node
  timers,                  \* how many PendingNeighborRequest timers, for each peer
  chan,                    \* chan[p][n]: what is on its way from p to n
  link,                    \* link[n][p]: PeerState of p at n
  joins,                   \* how often each node was told to join
  shuffles,
  failures

vars == <<up, swarm, node, timers, chan, link, joins, shuffles, failures>>

ASSUME HyParViewAssumption ==
  /\ IsFiniteSet(Nodes)
  /\ ActiveCapacity \in Nat \ {0}
  /\ PassiveCapacity \in Nat \ {0}
  /\ {ActiveWalk, PassiveWalk, ShuffleWalk, ShuffleActive, ShufflePassive} \subseteq Nat
  /\ Contacts \in [Nodes -> SUBSET Nodes]
  /\ \A n \in Nodes : n \notin Contacts[n]
  /\ {MaxJoins, MaxShuffles, MaxFailures, MaxBusy} \subseteq Nat

\* The messages
Join == [kind |-> "join"]
ForwardJoin(p, ttl) == [kind |-> "forwardJoin", peer |-> p, ttl |-> ttl]
Shuffle(origin, S, ttl) == [kind |-> "shuffle", origin |-> origin, nodes |-> S, ttl |-> ttl]
ShuffleReply(S) == [kind |-> "shuffleReply", nodes |-> S]
Neighbor(priority) == [kind |-> "neighbor", priority |-> priority]
Disconnect(alive) == [kind |-> "disconnect", alive |-> alive]

\* What the actor learns of a connection: it is closed, or could not be made.
Closed == [kind |-> "closed"]
DialFailed == [kind |-> "dialFailed"]

-----------------------------------------------------------------------------
(* Outcomes *)

NewState == [active |-> {}, passive |-> {}, pending |-> {}, alive |-> {}]

Outcome(n) == [me |-> n, s |-> node[n], out |-> << >>, timers |-> << >>]

Then(R, F(_)) == UNION {F(r) : r \in R}

\* OutEvent::SendMessage and OutEvent::DisconnectPeer
Send(r, p, m) == [r EXCEPT !.out = Append(@, [to |-> p, msg |-> m])]
DisconnectPeer(r, p) == Send(r, p, Closed)

\* shuffled_and_capped
Sample(S, k) == IF Cardinality(S) <= k THEN {S} ELSE kSubset(k, S)

\* Mutant: a peer of the active view is taken for a stranger.
StrangersKnown(r, S) == S \ (r.s.passive \cup {r.me})

\* The peers of S that add_passive adds.
Strangers(r, S) == S \ (r.s.active \cup r.s.passive \cup {r.me})

\* add_passive for the peers of S in any order: when the view is full a random peer
\* makes room, so that at least the last one stays.
AddPassive(r, S) ==
  LET new == Strangers(r, S)
      all == r.s.passive \cup new
      views == IF Cardinality(all) <= PassiveCapacity THEN {all}
               ELSE {v \in kSubset(PassiveCapacity, all) : v \cap new # {}}
  IN  {[r EXCEPT !.s.passive = v] : v \in views}

\* send_shuffle_reply
SendShuffleReply(r, to, len) ==
  UNION {{Send(r, to, ShuffleReply(P \cup A)) : A \in Sample(r.s.active, len - Cardinality(P))}
         : P \in Sample(r.s.passive, len)}

\* send_disconnect
SendDisconnect(r, p, alive) ==
  {DisconnectPeer(Send(q, p, Disconnect(alive)), p)
     : q \in SendShuffleReply(r, p, ShuffleActive + ShufflePassive)}

\* send_neighbor
SendNeighbor(r, p, priority) ==
  IF p \in r.s.pending THEN r
  ELSE [Send(r, p, Neighbor(priority)) EXCEPT !.s.pending = @ \cup {p}]

\* refill_active_from_passive
Refill(r, skip) ==
  LET spare == r.s.passive \ (skip \cup r.s.pending)
  IN  IF Cardinality(r.s.active) + Cardinality(r.s.pending) >= ActiveCapacity \/ spare = {} THEN {r}
      ELSE {[SendNeighbor(r, q, IF r.s.active = {} THEN "high" ELSE "low")
               EXCEPT !.timers = Append(@, q)] : q \in spare}

\* remove_active_by_index: peer p goes from the active to the passive view, or is
\* forgotten.  `reason` is closed, random, or whether a Disconnect says it is alive.
RemoveActive(r, p, reason) ==
  LET without == [r EXCEPT !.s.active = @ \ {p}]
      told == IF reason = "random" THEN SendDisconnect(without, p, TRUE) ELSE {DisconnectPeer(without, p)}
      keep == reason \in {"random", "alive"} \/ (reason = "closed" /\ p \in r.s.alive)
      mark(q) == [q EXCEPT !.s.alive = IF reason = "closed" THEN @ \ {p}
                                       ELSE IF keep THEN @ \cup {p} ELSE @]
  IN  Then(told, LAMBDA q : IF keep THEN AddPassive(mark(q), {p}) ELSE {mark(q)})

\* add_active_unchecked
AddUnchecked(r, p, priority, reply) ==
  LET q == [r EXCEPT !.s.passive = @ \ {p}, !.s.active = @ \cup {p}]
  IN  IF reply THEN SendNeighbor(q, p, priority) ELSE q

ActiveIsFull(r) == Cardinality(r.s.active) >= ActiveCapacity

\* Whether add_active takes peer p.
Takes(r, p, priority) ==
  p # r.me /\ (p \in r.s.active \/ priority = "high" \/ ~ActiveIsFull(r))

\* free_random_slot_in_active_view, when the view is full.
FreeSlot(r) ==
  IF ActiveIsFull(r) THEN UNION {RemoveActive(r, x, "random") : x \in r.s.active} ELSE {r}

\* add_active, for a peer that is taken.
AddActive(r, p, priority, reply) ==
  IF p \in r.s.active THEN {IF reply THEN SendNeighbor(r, p, priority) ELSE r}
  ELSE {AddUnchecked(q, p, priority, reply) : q \in FreeSlot(r)}

-----------------------------------------------------------------------------
(* Handlers *)

\* Mutant: the contact adds the joiner without telling it.
OnJoinSilent(r, p) ==
  LET forward(q) == FoldSet(LAMBDA x, f : Send(f, x, ForwardJoin(p, ActiveWalk)), q, q.s.active \ {p})
  IN  {forward(q) : q \in AddActive(r, p, "high", FALSE)}

\* on_join
OnJoin(r, p) ==
  LET forward(q) == FoldSet(LAMBDA x, f : Send(f, x, ForwardJoin(p, ActiveWalk)), q, q.s.active \ {p})
  IN  {forward(q) : q \in AddActive(r, p, "high", TRUE)}

\* on_forward_join
OnForwardJoin(r, from, m) ==
  IF m.peer \in r.s.active \/ m.ttl = 0 \/ Cardinality(r.s.active) <= 1
  THEN {SendNeighbor(r, m.peer, "high")}
  ELSE LET kept == IF m.ttl = PassiveWalk THEN AddPassive(r, {m.peer}) ELSE {r}
           next == IF m.peer \in r.s.pending THEN {} ELSE r.s.active \ {from}
       IN  IF m.peer \in r.s.pending THEN kept
           ELSE {Send(q, x, ForwardJoin(m.peer, m.ttl - 1)) : q \in kept, x \in next}

\* Mutant: a request is taken for a reply.
IsReplyAlways(r, from) == TRUE

\* Whether a Neighbor message answers one of ours.
IsReply(r, from) == from \in r.s.pending

\* on_neighbor
OnNeighbor(r, from, m) ==
  LET q == [r EXCEPT !.s.pending = @ \ {from}]
  IN  IF Takes(q, from, m.priority) THEN AddActive(q, from, m.priority, ~IsReply(r, from))
      ELSE SendDisconnect(q, from, TRUE)

\* on_shuffle
OnShuffle(r, from, m) ==
  IF m.ttl = 0 \/ Cardinality(r.s.active) <= 1
  THEN Then(AddPassive(r, m.nodes), LAMBDA q : SendShuffleReply(q, m.origin, Cardinality(m.nodes)))
  ELSE LET next == r.s.active \ {m.origin, from}
       IN  IF next = {} THEN {r} ELSE {Send(r, x, [m EXCEPT !.ttl = @ - 1]) : x \in next}

\* on_shuffle_reply
OnShuffleReply(r, m) == Then(AddPassive(r, m.nodes), LAMBDA q : Refill(q, {}))

\* on_disconnect
OnDisconnect(r, p, alive) ==
  LET q == [r EXCEPT !.s.pending = @ \ {p}]
  IN  IF p \in q.s.active
      THEN Then(RemoveActive(q, p, IF alive THEN "alive" ELSE "gone"), LAMBDA x : Refill(x, {p}))
      ELSE {[q EXCEPT !.s.alive = IF alive /\ p \in q.s.passive THEN @ \cup {p} ELSE @]}

\* Mutant: a closed connection only removes a passive peer.
OnClosedPassive(r, p) ==
  LET q == [r EXCEPT !.s.pending = @ \ {p}]
  IN  IF p \in q.s.alive THEN {[q EXCEPT !.s.alive = @ \ {p}]}
      ELSE {[q EXCEPT !.s.passive = @ \ {p}]}

\* handle_connection_closed
OnClosed(r, p) ==
  LET q == [r EXCEPT !.s.pending = @ \ {p}]
  IN  IF p \in q.s.active THEN Then(RemoveActive(q, p, "closed"), LAMBDA x : Refill(x, {p}))
      ELSE IF p \in q.s.alive THEN {[q EXCEPT !.s.alive = @ \ {p}]}
      ELSE {[q EXCEPT !.s.passive = @ \ {p}]}

\* handle_message: a peer that is not active after its message is disconnected.
OnMessage(r, from, m) ==
  LET handled == CASE m.kind = "join"         -> OnJoin(r, from)
                   [] m.kind = "forwardJoin"  -> OnForwardJoin(r, from, m)
                   [] m.kind = "neighbor"     -> OnNeighbor(r, from, m)
                   [] m.kind = "shuffle"      -> OnShuffle(r, from, m)
                   [] m.kind = "shuffleReply" -> OnShuffleReply(r, m)
  IN  {IF from \in q.s.active THEN q ELSE DisconnectPeer(q, from) : q \in handled}

\* handle_pending_neighbor_timer
OnTimer(r, p) ==
  IF p \in r.s.pending
  THEN Refill([r EXCEPT !.s.pending = @ \ {p}, !.s.passive = @ \ {p}], {})
  ELSE {r}

\* handle_shuffle_timer, when there is an active peer
OnShuffleTimer(r) ==
  LET to(p) == {Send(r, p, Shuffle(r.me, A \cup P \cup {r.me}, ShuffleWalk))
                  : A \in Sample(r.s.active \ {p}, ShuffleActive), P \in Sample(r.s.passive, ShufflePassive)}
  IN  UNION {to(p) : p \in r.s.active}

\* handle_quit, for the active peers in some order
OnQuit(r) ==
  LET leave(R, p) == Then(R, LAMBDA q : SendDisconnect([q EXCEPT !.s.active = @ \ {p}], p, FALSE))
  IN  UNION {FoldLeft(leave, {r}, order) : order \in SetToSeqs(r.s.active)}

-----------------------------------------------------------------------------
(* The actor *)

NoLink == [state |-> "none", queue |-> << >>]
Live == [state |-> "live", queue |-> << >>]
Dead == [state |-> "dead", queue |-> << >>]
Failed(queue) == [state |-> "failed", queue |-> queue]

\* handle_connection: node p has a connection with n, and sends on it what it has queued.
Accept(net, p, n) ==
  [net EXCEPT !.link[p][n] = Live, !.chan[p][n] = @ \o net.link[p][n].queue]

\* handle_in_event_inner, for an OutEvent of node n: without an entry for the peer the
\* actor dials; after a dial that failed it only queues.
Transmit(n, net, e) ==
  LET p == e.to
      l == net.link[n][p]
  IN  CASE e.msg = Closed -> [net EXCEPT !.link[n][p] = NoLink]
        [] e.msg # Closed /\ l.state = "none" /\ p \in up ->
             [Accept([net EXCEPT !.link[n][p] = Live], p, n) EXCEPT !.chan[n][p] = Append(@, e.msg)]
        [] e.msg # Closed /\ l.state = "none" /\ p \notin up ->
             [net EXCEPT !.link[n][p] = Failed(<<e.msg>>), !.chan[p][n] = Append(@, DialFailed)]
        [] e.msg # Closed /\ l.state = "live" /\ p \in up ->
             [net EXCEPT !.chan[n][p] = Append(@, e.msg)]
        [] e.msg # Closed /\ l.state = "failed" ->
             [net EXCEPT !.link[n][p].queue = Append(@, e.msg)]
        [] OTHER -> net

Net == [chan |-> chan, link |-> link]

MayHappen == FoldSet(LAMBDA q, sum : Len(chan[q[1]][q[2]]) + sum, 0, Nodes \X Nodes) <= MaxBusy

\* The node takes outcome r: the actor handles its OutEvents, one after the other.
Follow(r, net) ==
  LET after == FoldLeft(LAMBDA x, e : Transmit(r.me, x, e), net, r.out)
  IN  /\ node' = [node EXCEPT ![r.me] = r.s]
      /\ chan' = after.chan
      /\ link' = after.link

SetTimers(n, old, r) ==
  timers' = [timers EXCEPT ![n] =
               [p \in Nodes |-> old[p] + Len(SelectSeq(r.timers, LAMBDA q : q = p))]]

\* The process starts and subscribes to the topic with its contacts as bootstrap peers.
Start(n) ==
  /\ n \notin up /\ node[n] = NewState /\ joins[n] = 0 /\ MayHappen
  /\ up' = up \cup {n}
  /\ swarm' = swarm \cup {n}
  /\ joins' = [joins EXCEPT ![n] = 1]
  /\ Follow(FoldSet(LAMBDA p, r : Send(r, p, Join), Outcome(n), Contacts[n]), Net)
  /\ UNCHANGED <<timers, shuffles, failures>>

\* Command::JoinPeers, and handle_join
JoinPeers(n, p) ==
  /\ n \in swarm /\ p \in Contacts[n] /\ joins[n] < MaxJoins /\ MayHappen
  /\ joins' = [joins EXCEPT ![n] = @ + 1]
  /\ Follow(Send(Outcome(n), p, Join), Net)
  /\ UNCHANGED <<up, swarm, timers, shuffles, failures>>

\* The outcomes of what node n has first from p, and the network when it is handled.
Handled(n, p, m) ==
  CASE n \notin swarm                                  -> {Outcome(n)}
    [] n \in swarm /\ m = Closed                       ->
         IF link[n][p].state = "live" THEN OnClosed(Outcome(n), p) ELSE {Outcome(n)}
    [] n \in swarm /\ m = DialFailed                   ->
         IF link[n][p].state # "live" THEN OnClosed(Outcome(n), p) ELSE {Outcome(n)}
    [] n \in swarm /\ m.kind = "disconnect"            -> OnDisconnect(Outcome(n), p, m.alive)
    [] OTHER                                           -> OnMessage(Outcome(n), p, m)

Receive(n, p) ==
  /\ n \in up /\ chan[p][n] # << >>
  /\ LET m == Head(chan[p][n])
         dead == m = Closed /\ link[n][p].state = "live"
         net == [chan |-> [chan EXCEPT ![p][n] = Tail(@)],
                 link |-> IF dead THEN [link EXCEPT ![n][p] = Dead] ELSE link]
     IN  \E r \in Handled(n, p, m) : Follow(r, net) /\ SetTimers(n, timers[n], r)
  /\ UNCHANGED <<up, swarm, joins, shuffles, failures>>

\* Timer::PendingNeighborRequest
NeighborTimer(n, p) ==
  /\ n \in swarm /\ timers[n][p] > 0
  /\ \E r \in OnTimer(Outcome(n), p) :
       Follow(r, Net) /\ SetTimers(n, [timers[n] EXCEPT ![p] = @ - 1], r)
  /\ UNCHANGED <<up, swarm, joins, shuffles, failures>>

\* Timer::DoShuffle
ShuffleTimer(n) ==
  /\ n \in swarm /\ shuffles < MaxShuffles /\ MayHappen
  /\ shuffles' = shuffles + 1
  /\ \E r \in OnShuffleTimer(Outcome(n)) : Follow(r, Net)
  /\ UNCHANGED <<up, swarm, timers, joins, failures>>

\* Command::Quit: the topic state is dropped after it.
Quit(n) ==
  /\ n \in swarm /\ failures < MaxFailures /\ MayHappen
  /\ failures' = failures + 1
  /\ swarm' = swarm \ {n}
  /\ \E r \in OnQuit(Outcome(n)) : Follow([r EXCEPT !.s = NewState], Net)
  /\ timers' = [timers EXCEPT ![n] = [p \in Nodes |-> 0]]
  /\ UNCHANGED <<up, joins, shuffles>>

\* The process ends: the others that have a connection with it see it closed.
Crash(n) ==
  /\ n \in up /\ failures < MaxFailures /\ MayHappen
  /\ failures' = failures + 1
  /\ up' = up \ {n}
  /\ swarm' = swarm \ {n}
  /\ node' = [node EXCEPT ![n] = NewState]
  /\ timers' = [timers EXCEPT ![n] = [p \in Nodes |-> 0]]
  /\ link' = [link EXCEPT ![n] = [p \in Nodes |-> NoLink]]
  /\ chan' = [p \in Nodes |-> [q \in Nodes |->
                CASE q = n                                        -> << >>
                  [] p = n /\ q # n /\ link[q][n].state = "live"    -> Append(chan[n][q], Closed)
                  [] OTHER                                        -> chan[p][q]]]
  /\ UNCHANGED <<joins, shuffles>>

-----------------------------------------------------------------------------
Init ==
  /\ up = {} /\ swarm = {}
  /\ node = [n \in Nodes |-> NewState]
  /\ timers = [n \in Nodes |-> [p \in Nodes |-> 0]]
  /\ chan = [p \in Nodes |-> [n \in Nodes |-> << >>]]
  /\ link = [n \in Nodes |-> [p \in Nodes |-> NoLink]]
  /\ joins = [n \in Nodes |-> 0]
  /\ shuffles = 0 /\ failures = 0

Next ==
  \E n \in Nodes :
    \/ Start(n)
    \/ \E p \in Nodes : JoinPeers(n, p) \/ Receive(n, p) \/ NeighborTimer(n, p)
    \/ ShuffleTimer(n)
    \/ Quit(n)
    \/ Crash(n)

Spec == Init /\ [][Next]_vars

-----------------------------------------------------------------------------
(* Properties *)

Active(n) == node[n].active
Passive(n) == node[n].passive

\* Type invariant: the views of a node are disjoint, within their capacities, and never
\* hold the node itself, whatever add_active and add_passive are told.
TypeOK ==
  \A n \in Nodes :
    /\ Active(n) \cap Passive(n) = {}
    /\ n \notin Active(n) \cup Passive(n) \cup node[n].pending
    /\ Cardinality(Active(n)) <= ActiveCapacity
    /\ Cardinality(Passive(n)) <= PassiveCapacity

\* Nothing is on its way to a running node; and no request can time out any more.
Quiet == \A n \in up, p \in Nodes : chan[p][n] = << >>
Idle == Quiet /\ \A n, p \in Nodes : timers[n][p] = 0

\* The nodes that ever joined fit the active view of each of them: nobody is evicted.
Roomy == Cardinality({n \in Nodes : joins[n] > 0}) <= ActiveCapacity + 1

Mutual == \A n, p \in swarm : p \in Active(n) => n \in Active(p)

\* In a swarm that fits the active views, Neighbor requests that cross each other, joins
\* repeated while the first is answered, crashes and quits leave the views mutual once
\* every message is handled (on_neighbor, add_active, on_disconnect).
RoomyMutual == Roomy /\ Quiet => Mutual

\* An active peer whose process has ended is found out: the actor has no entry left for
\* it, so that the next message dials it and the failure reaches handle_connection_closed.
\* A dead or failed entry would take messages for ever.
CrashFoundOut ==
  Quiet => \A n \in swarm : \A p \in Active(n) \ up : link[n][p].state = "none"

\* While no node has failed, a node at rest has a neighbour, unless it joined through no
\* one it could reach and no one reached it: a join is never lost on the way, whichever
\* joins and shuffles it meets.
Attached ==
  Idle /\ failures = 0 =>
    \A n \in swarm : Active(n) = {} =>
      /\ \A p \in Contacts[n] : link[n][p].state = "failed"
      /\ \A p \in swarm : n \in Contacts[p] => link[p][n].state = "failed"
=============================================================================
