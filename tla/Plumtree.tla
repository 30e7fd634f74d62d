------------------------------ MODULE Plumtree ------------------------------
(***************************************************************************)
(* The broadcast layer of tom-gossip for one topic: epidemic broadcast     *)
(* trees.  A node pushes a message to its eager peers at once and          *)
(* announces it to its lazy peers later; whoever gets a message twice      *)
(* prunes the link, whoever misses an announced message grafts it.         *)
(*                                                                         *)
(* The overlay (HyParView's active views) is a fixed graph whose nodes may *)
(* crash.  A connection carries the messages of a topic in order, and the  *)
(* actor hears of its end after all that came through it (the select of    *)
(* Actor::event_loop is biased).                                           *)
(***************************************************************************)
EXTENDS Integers, FiniteSets, Sequences, SequencesExt

CONSTANTS
  Nodes,
  Links,           \* the overlay: a set of two-element sets of nodes
  Tree,            \* the links that earlier broadcasts have left eager
  Swarm,           \* contents broadcast with Scope::Swarm
  Local,           \* contents broadcast with Scope::Neighbors
  Origins,         \* bound: the nodes that broadcast
  Threshold,       \* Config::optimization_threshold
  MaxFaults        \* bound: nodes that crash and cache entries that expire

VARIABLES
  eager,           \* eager_push_peers
  lazy,            \* lazy_push_peers
  queue,           \* lazy_push_queue, as triples <<peer, id, round>>
  missing,         \* missing_messages: for each id a queue of <<peer, round>>
  received,        \* received_messages
  cache,           \* cache: the round of each payload kept
  scheduled,       \* graft_timer_scheduled
  grafts,          \* how many SendGraft timers run for each id
  dispatch,        \* dispatch_timer_scheduled: the DispatchLazyPush timer runs
  chan,            \* messages from one node to another, oldest first
  lost,            \* peers whose PeerDisconnected a node has yet to handle
  crashed,
  got,             \* history: Received events of each node for each id
  origin,          \* history: who has broadcast each id
  witnessed,       \* history: the nodes that had crashed when it did
  expired          \* history: cache entries that have expired

treeVars == <<eager, lazy>>
graftVars == <<missing, scheduled, grafts>>
vars == <<treeVars, queue, graftVars, received, cache, dispatch, chan, lost, crashed,
          got, origin, witnessed, expired>>

Ids == Swarm \cup Local

NoOne == "no one"
NoId == "no id"

ASSUME OverlayAssumption ==
  /\ IsFiniteSet(Nodes)
  /\ Links \subseteq {{x, y} : x, y \in Nodes}
  /\ \A a \in Nodes : {a} \notin Links
  /\ Tree \subseteq Links
  /\ Swarm \cap Local = {}
  /\ Origins \subseteq Nodes
  /\ NoOne \notin Nodes
  /\ NoId \notin Ids
  /\ Threshold \in Nat \ {0}
  /\ MaxFaults \in Nat

Neighbors(n) == {p \in Nodes : {n, p} \in Links}

Pairs == {c \in Nodes \X Nodes : {c[1], c[2]} \in Links}

\* enum Message
Gossip(id, r) == [kind |-> "gossip", id |-> id, round |-> r]
Prune == [kind |-> "prune"]
Graft(id, r) == [kind |-> "graft", id |-> id, round |-> r]
IHave(batch) == [kind |-> "ihave", batch |-> batch]

Alive(n) == n \notin crashed

MayFail == Cardinality(crashed) + expired < MaxFaults

-----------------------------------------------------------------------------
(* Output: `out[p]` is what a handler of node n sends to peer p, in order. *)

Silence == [p \in Nodes |-> << >>]

To(S, m) == [p \in Nodes |-> IF p \in S THEN <<m>> ELSE << >>]

Then(f, g) == [p \in Nodes |-> f[p] \o g[p]]

\* SendMessage.  What goes to a crashed peer is lost: its connection is gone, or
\* the dial for a new one fails, and PeerDisconnected follows (again).
Sends(n, left, out) ==
  /\ chan' = [c \in Pairs |->
                IF c[1] = n /\ Alive(c[2]) THEN left[c] \o out[c[2]] ELSE left[c]]
  /\ lost' = [lost EXCEPT ![n] = @ \cup {p \in crashed : out[p] # << >>}]

\* A handler that is run by something else than a message.
Emits(n, out) == Sends(n, chan, out)

-----------------------------------------------------------------------------
(* Handlers of plumtree::State *)

\* add_eager
AddEager(n, S) ==
  /\ eager' = [eager EXCEPT ![n] = @ \cup S]
  /\ lazy' = [lazy EXCEPT ![n] = @ \ S]

\* Mutant: also pushes the message back to where it came from.
EagerPushBack(n, id, r, sender) == To(eager[n] \ {n}, Gossip(id, r))

\* eager_push
EagerPush(n, id, r, sender) == To(eager[n] \ {n, sender}, Gossip(id, r))

\* lazy_push
LazyPush(n, id, r, sender) ==
  /\ queue' = [queue EXCEPT ![n] = @ \cup {<<p, id, r>> : p \in lazy[n] \ {sender}}]
  /\ dispatch' = [dispatch EXCEPT ![n] = TRUE]

\* Mutant: the payload is kept, its id is not noted as received.
KeepPayload(n, id, r) ==
  /\ cache' = [cache EXCEPT ![n][id] = r]
  /\ UNCHANGED received

\* received_messages.insert and cache.insert
Keep(n, id, r) ==
  /\ received' = [received EXCEPT ![n] = @ \cup {id}]
  /\ cache' = [cache EXCEPT ![n][id] = r]

\* broadcast.  The id is the hash of the content: a content is broadcast once.
Broadcast(n, id) ==
  /\ Alive(n)
  /\ origin[id] = NoOne
  /\ origin' = [origin EXCEPT ![id] = n]
  /\ witnessed' = [witnessed EXCEPT ![id] = crashed]
  /\ IF id \in Swarm
     THEN Keep(n, id, 0) /\ LazyPush(n, id, 0, n)
     ELSE UNCHANGED <<received, cache, queue, dispatch>>
  /\ Emits(n, EagerPush(n, id, 0, n))
  /\ UNCHANGED <<treeVars, graftVars, crashed, got, expired>>

MaxCount == 2      \* `got` counts up to "more than once"

Received(n, id) == got' = [got EXCEPT ![n][id] = IF @ < MaxCount THEN @ + 1 ELSE @]

\* Mutant: the sender of a duplicate is told to prune and stays eager here.
PruneOneSided(n, p, left) ==
  /\ Sends(n, left, To({p}, Prune))
  /\ UNCHANGED treeVars

\* on_gossip, for a message seen before.
PruneLink(n, p, left) ==
  /\ eager' = [eager EXCEPT ![n] = @ \ {p}]
  /\ lazy' = [lazy EXCEPT ![n] = @ \cup {p}]
  /\ Sends(n, left, To({p}, Prune))

\* The announcement of the fewest hops, the earliest one of these (min_by).
Best(ihaves) ==
  CHOOSE i \in DOMAIN ihaves :
    \A j \in DOMAIN ihaves :
      ihaves[i][2] < ihaves[j][2] \/ (ihaves[i][2] = ihaves[j][2] /\ i <= j)

\* optimize_tree, after `pushed` has been sent: the peer whose announcement was much
\* shorter replaces the sender in the tree.
OptimizeTree(n, p, r, ihaves, left, pushed) ==
  IF ihaves # << >> /\ r - ihaves[Best(ihaves)][2] >= Threshold
  THEN LET best == ihaves[Best(ihaves)]
           grafted == IF best[1] \in eager[n] THEN Silence ELSE To({best[1]}, Graft(NoId, best[2]))
       IN  /\ eager' = [eager EXCEPT ![n] = (@ \cup {best[1]}) \ {p}]
           /\ lazy' = [lazy EXCEPT ![n] = (@ \ {best[1]}) \cup {p}]
           /\ Sends(n, left, Then(pushed, Then(grafted, To({p}, Prune))))
  ELSE Sends(n, left, pushed) /\ UNCHANGED treeVars

\* on_gossip, for a new message: keep it, forward it one round further, forget that
\* it was missing, emit it.
Accept(n, p, m, left) ==
  /\ Keep(n, m.id, m.round + 1)
  /\ LazyPush(n, m.id, m.round + 1, p)
  /\ scheduled' = [scheduled EXCEPT ![n] = @ \ {m.id}]
  /\ missing' = [missing EXCEPT ![n][m.id] = << >>]
  /\ OptimizeTree(n, p, m.round + 1, missing[n][m.id], left,
                  EagerPush(n, m.id, m.round + 1, p))
  /\ Received(n, m.id)
  /\ UNCHANGED grafts

OnGossip(n, p, m, left) ==
  \/ /\ m.id \in received[n]
     /\ PruneLink(n, p, left)
     /\ UNCHANGED <<queue, graftVars, received, cache, dispatch, got>>
  \/ /\ m.id \in Swarm \ received[n]
     /\ Accept(n, p, m, left)
  \/ /\ m.id \in Local
     /\ Received(n, m.id)
     /\ Sends(n, left, Silence)
     /\ UNCHANGED <<treeVars, queue, graftVars, received, cache, dispatch>>

OnPrune(n, p, left) ==
  /\ eager' = [eager EXCEPT ![n] = @ \ {p}]
  /\ lazy' = [lazy EXCEPT ![n] = @ \cup {p}]
  /\ Sends(n, left, Silence)
  /\ UNCHANGED <<queue, graftVars, received, cache, dispatch, got>>

\* on_ihave: note who has what is missing, and start a timer for each id that has
\* none scheduled.
OnIHave(n, p, batch, left) ==
  LET new == {h \in batch : h[1] \notin received[n]}
      ids == {h[1] : h \in new}
  IN  /\ missing' = [missing EXCEPT ![n] = [id \in Swarm |->
                       missing[n][id] \o SetToSeq({<<p, h[2]>> : h \in {x \in new : x[1] = id}})]]
      /\ grafts' = [grafts EXCEPT ![n] = [id \in Swarm |->
                      grafts[n][id] + IF id \in ids \ scheduled[n] THEN 1 ELSE 0]]
      /\ scheduled' = [scheduled EXCEPT ![n] = @ \cup ids]
      /\ Sends(n, left, Silence)
      /\ UNCHANGED <<treeVars, queue, received, cache, dispatch, got>>

NoPayload == -1

\* Mutant: links the peer without sending what it asked for.
OnGraftLinkOnly(n, p, m, left) ==
  /\ AddEager(n, {p})
  /\ Sends(n, left, Silence)
  /\ UNCHANGED <<queue, graftVars, received, cache, dispatch, got>>

\* on_graft: link the peer, and send the payload it asked for if it is still cached.
OnGraft(n, p, m, left) ==
  /\ AddEager(n, {p})
  /\ Sends(n, left, IF m.id # NoId /\ cache[n][m.id] # NoPayload
                    THEN To({p}, Gossip(m.id, cache[n][m.id])) ELSE Silence)
  /\ UNCHANGED <<queue, graftVars, received, cache, dispatch, got>>

\* handle_message
Receive(n, p) ==
  /\ Alive(n)
  /\ p \in Neighbors(n)
  /\ chan[<<p, n>>] # << >>
  /\ LET m == Head(chan[<<p, n>>])
         left == [chan EXCEPT ![<<p, n>>] = Tail(@)]
     IN  \/ m.kind = "gossip" /\ OnGossip(n, p, m, left)
         \/ m.kind = "prune" /\ OnPrune(n, p, left)
         \/ m.kind = "ihave" /\ OnIHave(n, p, m.batch, left)
         \/ m.kind = "graft" /\ OnGraft(n, p, m, left)
  /\ UNCHANGED <<crashed, origin, witnessed, expired>>

\* on_dispatch_timer.  (A list longer than a message is sent in chunks.)
DispatchTimer(n) ==
  /\ Alive(n)
  /\ dispatch[n]
  /\ dispatch' = [dispatch EXCEPT ![n] = FALSE]
  /\ queue' = [queue EXCEPT ![n] = {}]
  /\ LET batch(p) == {<<q[2], q[3]>> : q \in {x \in queue[n] : x[1] = p}}
     IN  Emits(n, [p \in Nodes |-> IF batch(p) = {} THEN << >> ELSE <<IHave(batch(p))>>])
  /\ UNCHANGED <<treeVars, graftVars, received, cache, crashed, got, origin, witnessed, expired>>

\* The SendGraft timers of an id after one of them has expired: a Graft starts the
\* next one (graft_timeout_2).
NextTimers(n, id) ==
  IF id \notin received[n] /\ missing[n][id] # << >> THEN grafts
  ELSE [grafts EXCEPT ![n][id] = @ - 1]

\* on_send_graft_timer: ask the first peer that has announced the message.
GraftTimer(n, id) ==
  /\ Alive(n)
  /\ grafts[n][id] > 0
  /\ grafts' = NextTimers(n, id)
  /\ scheduled' = [scheduled EXCEPT ![n] = @ \ {id}]
  /\ IF id \in received[n] \/ missing[n][id] = << >>
     THEN UNCHANGED <<treeVars, missing, chan, lost>>
     ELSE LET first == Head(missing[n][id])
          IN  /\ missing' = [missing EXCEPT ![n][id] = Tail(@)]
              /\ AddEager(n, {first[1]})
              /\ Emits(n, To({first[1]}, Graft(id, first[2])))
  /\ UNCHANGED <<queue, received, cache, dispatch, crashed, got, origin, witnessed, expired>>

\* on_evict_cache_timer, when the retention of an entry is over.  received_messages
\* is never evicted.
ExpireCache(n, id) ==
  /\ Alive(n)
  /\ cache[n][id] # NoPayload
  /\ MayFail
  /\ expired' = expired + 1
  /\ cache' = [cache EXCEPT ![n][id] = NoPayload]
  /\ UNCHANGED <<treeVars, queue, graftVars, received, dispatch, chan, lost, crashed, got, origin,
                 witnessed>>

\* What is missing without the announcements of a peer that has gone.
StillMissing(n, p) ==
  [missing EXCEPT ![n] = [id \in Swarm |-> SelectSeq(missing[n][id], LAMBDA h : h[1] # p)]]

\* Mutant: only the tree forgets the peer.
ForgetEager(n, p) ==
  /\ eager' = [eager EXCEPT ![n] = @ \ {p}]
  /\ UNCHANGED lazy

\* The removals of on_neighbor_down.
Forget(n, p) ==
  /\ eager' = [eager EXCEPT ![n] = @ \ {p}]
  /\ lazy' = [lazy EXCEPT ![n] = @ \ {p}]

\* PeerDisconnected: on_neighbor_down.
PeerDisconnected(n, p) ==
  /\ Alive(n)
  /\ p \in lost[n]
  /\ chan[<<p, n>>] = << >>
  /\ lost' = [lost EXCEPT ![n] = @ \ {p}]
  /\ missing' = StillMissing(n, p)
  /\ Forget(n, p)
  /\ UNCHANGED <<queue, scheduled, grafts, received, cache, dispatch, chan, crashed, got,
                 origin, witnessed, expired>>

\* A node dies; of what it has sent, the receivers still get some prefix.
Crash(n) ==
  /\ Alive(n)
  /\ MayFail
  /\ crashed' = crashed \cup {n}
  /\ lost' = [p \in Nodes |-> IF p \in Neighbors(n) THEN lost[p] \cup {n} ELSE lost[p]]
  /\ \E kept \in [Neighbors(n) -> BOOLEAN] :
       chan' = [c \in Pairs |-> IF c[2] = n \/ (c[1] = n /\ ~kept[c[2]]) THEN << >> ELSE chan[c]]
  /\ UNCHANGED <<treeVars, queue, graftVars, received, cache, dispatch, got, origin, witnessed, expired>>

-----------------------------------------------------------------------------
Init ==
  /\ eager = [n \in Nodes |-> {p \in Nodes : {n, p} \in Tree}]
  /\ lazy = [n \in Nodes |-> {p \in Nodes : {n, p} \in Links \ Tree}]
  /\ queue = [n \in Nodes |-> {}]
  /\ missing = [n \in Nodes |-> [id \in Swarm |-> << >>]]
  /\ received = [n \in Nodes |-> {}]
  /\ cache = [n \in Nodes |-> [id \in Swarm |-> NoPayload]]
  /\ scheduled = [n \in Nodes |-> {}]
  /\ grafts = [n \in Nodes |-> [id \in Swarm |-> 0]]
  /\ dispatch = [n \in Nodes |-> FALSE]
  /\ chan = [c \in Pairs |-> << >>]
  /\ lost = [n \in Nodes |-> {}]
  /\ crashed = {}
  /\ got = [n \in Nodes |-> [id \in Ids |-> 0]]
  /\ origin = [id \in Ids |-> NoOne]
  /\ witnessed = [id \in Ids |-> {}]
  /\ expired = 0

\* The actor of a node handles a message, the end of a connection or a timer.
Handle(n) ==
  \/ \E p \in Nodes : Receive(n, p)
  \/ \E p \in Nodes : PeerDisconnected(n, p)
  \/ DispatchTimer(n)
  \/ \E id \in Swarm : GraftTimer(n, id)

Next ==
  \/ \E n \in Origins, id \in Ids : Broadcast(n, id)
  \/ \E n \in Nodes : Handle(n)
  \/ \E n \in Nodes, id \in Swarm : ExpireCache(n, id)
  \/ \E n \in Nodes : Crash(n)

Spec == Init /\ [][Next]_vars

\* The event loop of a live node goes on as long as there is something to handle.
Fairness == \A n \in Nodes : WF_vars(Handle(n))

FairSpec == Spec /\ Fairness

-----------------------------------------------------------------------------
(* Properties *)

\* Nothing is under way.
Quiet ==
  /\ \A c \in Pairs : chan[c] = << >>
  /\ \A n \in Nodes \ crashed : ~dispatch[n] /\ lost[n] = {} /\ \A id \in Swarm : grafts[n][id] = 0

\* A peer is never eager and lazy at once (add_eager, add_lazy).  Once nothing is
\* under way, a live peer that a node pushes to pushes to that node: whatever prunes,
\* grafts and optimisations have crossed, the two ends of a link agree on its kind
\* (what check_synchronicity asserts of the simulated swarms).
EagerMutual ==
  /\ \A n \in Nodes : eager[n] \cap lazy[n] = {}
  /\ Quiet => \A n, p \in Nodes \ crashed : p \in eager[n] <=> n \in eager[p]

\* The nodes of S that paths over the links L lead to from node a.
Reach(L, S, a) ==
  LET within[i \in 0..Cardinality(S)] ==
        IF i = 0 THEN {a}
        ELSE {y \in S : \E x \in within[i - 1] : y = x \/ {x, y} \in L}
  IN  within[Cardinality(S)]

EagerLinks == {l \in Links : \A x, y \in l : x # y => y \in eager[x]}

\* The live nodes that live nodes and the links L connect to node n.
Component(L, n) == Reach(L, Nodes \ crashed, n)

\* The only broadcast so far is that of id, and no node has crashed since.
OnlyBroadcast(id) ==
  /\ \A o \in Swarm : o = id <=> origin[o] # NoOne
  /\ witnessed[id] = crashed

\* A broadcast leaves a spanning tree behind: once it has settled, the eager links
\* connect all live nodes that the overlay connects to its origin, and one link less
\* would not (every duplicate has been pruned, every gap grafted).
TreeSpans ==
  \A id \in Swarm :
    Quiet /\ OnlyBroadcast(id) =>
      LET C == Component(Links, origin[id])
      IN  /\ Component(EagerLinks, origin[id]) = C
          /\ Cardinality({l \in EagerLinks : l \subseteq C}) = Cardinality(C) - 1

\* A peer that has gone is neither eager nor lazy, unless PeerDisconnected for it is
\* still to be handled: a late graft or prune does not bring it back for good.
DepartedForgotten ==
  \A n \in Nodes \ crashed : (eager[n] \cup lazy[n]) \cap crashed \subseteq lost[n]

\* A node emits a message at most once and never its own, whatever duplicates, grafts
\* and cache evictions there are; one of Scope::Neighbors gets no further than the
\* neighbours of its origin.
ReceivedOnce ==
  \A n \in Nodes, id \in Ids : got[n][id] > 0 =>
    /\ got[n][id] = 1
    /\ origin[id] # n
    /\ id \in Local => n \in Neighbors(origin[id])

\* The pairs of nodes that the overlay still connects when the nodes of S are alive.
Connected == [S \in SUBSET Nodes |-> {c \in S \X S : c[2] \in Reach(Links, S, c[1])}]

\* A live node has yet to get what a live node that it is connected to has.
Owed(n, id) ==
  /\ id \notin received[n]
  /\ \E p \in Nodes \ crashed : id \in received[p] /\ <<p, n>> \in Connected[Nodes \ crashed]

\* A message that a live node has reaches every node that live nodes connect to it,
\* along eager links or by announcement and graft, whichever nodes crash on the way,
\* as long as no cache entry expires before it has been asked for.
AllReceive ==
  \A n \in Nodes, id \in Swarm : Owed(n, id) ~> ~Owed(n, id) \/ expired > 0
=============================================================================
