----------------------------- MODULE SenderKeys -----------------------------
(***************************************************************************)
(* The sender keys of one group.  Every member encrypts what it posts with *)
(* a key of its own, numbered by an epoch, and sends the key to the others *)
(* through the hub, encrypted for each of them; it renews the key when a   *)
(* member leaves and when the key is old.  The hub keeps the latest        *)
(* distribution of each sender and refuses messages of another epoch.      *)
(*                                                                         *)
(* The hub is not a member.  Keys are numbers: a distribution is readable  *)
(* by the nodes it is for.  The purge of keys after a week is left out.    *)
(***************************************************************************)
EXTENDS Integers, FiniteSets, FiniteSetsExt, Sequences, SequencesExt

CONSTANTS
  Nodes,
  Founders,        \* the members that have exchanged their keys to begin with
  Leavers,         \* bound: the nodes that leave
  MaxEpoch,        \* bound: epoch at which no more rotation for age happens
  MaxEvents,       \* bound: events together
  MaxMishaps,      \* bound: events other than joins and leaves, together
  MaxPosts,        \* bound: messages posted
  Limits           \* bound: how often each event happens

VARIABLES
  members,         \* hub: the group's members; no member, no group
  latest,          \* hub: latest_sender_keys
  epochs,          \* hub: sender_epoch_state
  log,             \* hub: the messages it has numbered from 1 on
  view,            \* member: the members it knows of; {} if it has no group
  local,           \* member: local_sender_keys
  keys,            \* member: sender_keys
  prev,            \* member: previous_sender_keys that are within their grace
  pending,         \* member: pending_decrypt
  last,            \* member: last_seqs
  saved,           \* member: what its state store holds
  toHub,           \* messages on their way to the hub, of each node
  toNode,          \* messages on their way to each node
  made,            \* history: how many keys each node has generated
  owed,            \* history: pairs <<n, id>>: n was to read message id
  read,            \* history: pairs <<n, id>>: n has read message id
  revoked,         \* history: triples <<x, n, k>>: n made key k without x
  departed,        \* history: nodes that have left the group
  posted,          \* how many messages have been posted
  count            \* how often each event has happened

hubVars == <<members, latest, epochs, log>>
keyVars == <<local, keys, prev>>
vars == <<hubVars, view, keyVars, pending, last, saved, toHub, toNode, made, owed, read, revoked,
          departed, posted, count>>

Events == {"join", "leave", "save", "restart", "loss", "reorder", "replay", "graceOver"}

ASSUME KeysAssumption ==
  /\ IsFiniteSet(Nodes)
  /\ Founders \subseteq Nodes /\ Founders # {}
  /\ Leavers \subseteq Nodes
  /\ MaxEpoch \in Nat
  /\ MaxPosts \in Nat
  /\ MaxEvents \in Nat
  /\ MaxMishaps \in Nat
  /\ Limits \in [Events -> Nat]

Total(S) == FoldSet(LAMBDA e, sum : count[e] + sum, 0, S)

Commands == {"join", "leave"}

May(e) ==
  /\ count[e] < Limits[e]
  /\ Total(Events) < MaxEvents
  /\ e \notin Commands => Total(Events \ Commands) < MaxMishaps

Happens(e) == May(e) /\ count' = [count EXCEPT ![e] = @ + 1]

Key(e, k) == [epoch |-> e, key |-> k]

NoKey == Key(0, 0)
Cached(k, to) == [key |-> k, to |-> to]

NoDist == Cached(NoKey, {})

Epochs(current, previous, grace) ==
  [current |-> current, previous |-> previous, grace |-> grace]

NoEpochs == Epochs(0, 0, FALSE)

\* The messages.  A distribution holds a copy of the key for each node of `to`.
Dist(n, k, to) == [kind |-> "dist", from |-> n, key |-> k, to |-> to]
Member(kind, n) == [kind |-> kind, node |-> n]
Sync(S) == [kind |-> "sync", members |-> S]
SyncRequest(since) == [kind |-> "syncRequest", since |-> since]

-----------------------------------------------------------------------------
(* Member: reading messages *)

\* try_decrypt_and_deliver and deliver_decrypted_message: what becomes of message m
\* when its sender's key is k and the key before is p.
Outcome(m, k, p) ==
  LET with(key) == IF key = m.key.key THEN "read" ELSE "dropped"
  IN  CASE k = NoKey                                               -> "pending"
        [] k # NoKey /\ k.epoch = m.key.epoch                        -> with(k.key)
        [] k # NoKey /\ k.epoch = m.key.epoch + 1 /\ p.epoch = m.key.epoch -> with(p.key)
        [] OTHER                                                     -> "resync"

\* What node n makes of a batch of messages, one after the other, when K and P are
\* the keys it has: the messages read, the ones that wait, the last number, and
\* the SyncRequests for those that have no key (build_epoch_resync_actions).
Handled(n, batch, K, P) ==
  LET outcome(m) == Outcome(m, K[m.from], P[m.from])
      seqs(b) == {m.seq : m \in {x \in ToSet(b) : outcome(x) = "read"}}
      lastAfter(i) == Max({last[n]} \cup seqs(SubSeq(batch, 1, i)))
      failed == SelectSeq([i \in DOMAIN batch |-> i], LAMBDA i : outcome(batch[i]) = "resync")
  IN  [ids      |-> {m.id : m \in {x \in ToSet(batch) : outcome(x) = "read"}},
       waiting  |-> SelectSeq(batch, LAMBDA m : outcome(m) = "pending"),
       last     |-> lastAfter(Len(batch)),
       requests |-> [i \in DOMAIN failed |-> SyncRequest(lastAfter(failed[i] - 1))]]

InGroup(n) == view[n] # {}

\* The node handles a batch with keys K and P, while `kept` goes on waiting; `upTo`
\* is the number that a SyncResponse ends with.
Reads(n, batch, K, P, kept, upTo) ==
  LET h == Handled(n, batch, K, P)
  IN  /\ read' = read \cup {<<n, id>> : id \in h.ids}
      /\ last' = [last EXCEPT ![n] = Max({h.last, upTo})]
      /\ pending' = [pending EXCEPT ![n] = kept \o h.waiting]
      /\ toHub' = [toHub EXCEPT ![n] = @ \o h.requests]

\* build_sender_key_distribution, for the members v and key k.
Distribution(n, v, k) == IF v \subseteq {n} THEN << >> ELSE <<Dist(n, k, v \ {n})>>

\* generate_local_sender_key
Generated(n) == Key(local[n].epoch + 1, made[n] + 1)

-----------------------------------------------------------------------------
(* Member: what the hub sends.  Each handler takes the rest of its messages. *)

\* handle_group_sync.  (The recent messages go to the history unread.)
RecvSync(n, v) ==
  /\ view' = [view EXCEPT ![n] = v]
  /\ local' = [local EXCEPT ![n] = Generated(n)]
  /\ made' = [made EXCEPT ![n] = @ + 1]
  /\ toHub' = [toHub EXCEPT ![n] = @ \o Distribution(n, v, Generated(n))]
  /\ revoked' = revoked \cup {<<x, n, made[n] + 1>> : x \in Nodes \ v}
  /\ UNCHANGED <<keys, prev, pending, last, read>>

\* Mutant: the hub's replay is left to give the new member the keys.
WelcomeByHub(n, x) == << >>

\* The distribution of the present key when x has joined.
Welcome(n, x) == Distribution(n, view[n] \cup {x}, local[n])

\* handle_member_joined
RecvJoined(n, x) ==
  \/ /\ InGroup(n) /\ x \notin view[n]
     /\ view' = [view EXCEPT ![n] = @ \cup {x}]
     /\ toHub' = [toHub EXCEPT ![n] = @ \o Welcome(n, x)]
     /\ revoked' = revoked \ {<<x, n, local[n].key>>}
     /\ UNCHANGED <<keyVars, pending, last, made, read>>
  \/ /\ ~InGroup(n) \/ x \in view[n]
     /\ UNCHANGED <<view, keyVars, pending, last, toHub, made, read, revoked>>

\* Mutant: the distribution is built before the member is removed.
RemainingAll(n, x) == view[n]

\* The members to distribute the new key to when x has left.
Remaining(n, x) == view[n] \ {x}

\* handle_member_left (reason Voluntary) and rotate_sender_key
RecvLeft(n, x) ==
  \/ /\ InGroup(n)
     /\ view' = [view EXCEPT ![n] = @ \ {x}]
     /\ keys' = [keys EXCEPT ![n][x] = NoKey]
     /\ local' = [local EXCEPT ![n] = Generated(n)]
     /\ made' = [made EXCEPT ![n] = @ + 1]
     /\ toHub' = [toHub EXCEPT ![n] = @ \o Distribution(n, Remaining(n, x), Generated(n))]
     /\ revoked' = revoked \cup {<<y, n, made[n] + 1>> : y \in (Nodes \ view[n]) \cup {x}}
     /\ UNCHANGED <<prev, pending, last, read>>
  \/ /\ ~InGroup(n)
     /\ UNCHANGED <<view, keyVars, pending, last, toHub, made, read, revoked>>

\* Mutant: the messages that are read with the key go on waiting.
StillWaitingAll(n, d) == pending[n]

\* The messages that go on waiting when a key has come.
StillWaiting(n, d) == SelectSeq(pending[n], LAMBDA m : m.from # d.from)

\* handle_sender_key_distribution of the manager.  It does not ask whether the node
\* is in the group.
RecvDist(n, d) ==
  LET known == keys[n][d.from]
      K == [keys EXCEPT ![n][d.from] = d.key]
      P == IF known # NoKey /\ d.key.epoch > known.epoch
           THEN [prev EXCEPT ![n][d.from] = known] ELSE prev
  IN  \/ /\ d.key.epoch >= known.epoch
         /\ keys' = K /\ prev' = P
         /\ Reads(n, SelectSeq(pending[n], LAMBDA m : m.from = d.from), K[n], P[n],
                  StillWaiting(n, d), 0)
         /\ UNCHANGED <<view, local, made, revoked>>
      \/ /\ d.key.epoch < known.epoch
         /\ UNCHANGED <<view, keyVars, pending, last, toHub, made, read, revoked>>

\* handle_message of the manager, for each message of a batch; handle_sync_response
\* then raises last_seq to `upTo`.
RecvMessages(n, batch, upTo) ==
  /\ Reads(n, IF InGroup(n) THEN batch ELSE << >>, keys[n], prev[n], pending[n], upTo)
  /\ UNCHANGED <<view, keyVars, made, revoked>>

\* A node handles the first message on its way to it.
NodeReceives(n) ==
  /\ toNode[n] # << >>
  /\ toNode' = [toNode EXCEPT ![n] = Tail(@)]
  /\ LET m == Head(toNode[n])
     IN  \/ m.kind = "sync" /\ RecvSync(n, m.members)
         \/ m.kind = "joined" /\ RecvJoined(n, m.node)
         \/ m.kind = "left" /\ RecvLeft(n, m.node)
         \/ m.kind = "dist" /\ RecvDist(n, m)
         \/ m.kind = "message" /\ RecvMessages(n, <<m>>, 0)
         \/ m.kind = "syncResponse" /\ RecvMessages(n, m.batch, m.last)
  /\ UNCHANGED <<hubVars, saved, owed, departed, posted, count>>

-----------------------------------------------------------------------------
(* Hub.  `out[x]` is what a handler sends to node x. *)

Quietly == [x \in Nodes |-> << >>]

To(S, m) == [x \in Nodes |-> IF x \in S THEN <<m>> ELSE << >>]

Then(f, g) == [x \in Nodes |-> f[x] \o g[x]]

HubSends(out) == toNode' = [x \in Nodes |-> toNode[x] \o out[x]]

\* The cached copies of the senders' keys for the nodes of S.
Replay(S) ==
  [x \in Nodes |->
     LET from == {s \in Nodes : x \in S \cap latest[s].to}
     IN  SetToSeq({Dist(s, latest[s].key, {x}) : s \in from})]

\* handle_join: a member gets a Sync and nothing else.
HubJoin(n) ==
  \/ /\ members # {} /\ n \in members
     /\ HubSends(To({n}, Sync(members)))
     /\ UNCHANGED hubVars
  \/ /\ members # {} /\ n \notin members
     /\ members' = members \cup {n}
     /\ HubSends(Then(To({n}, Sync(members \cup {n})),
                      Then(Replay({n}), To(members, Member("joined", n)))))
     /\ UNCHANGED <<latest, epochs, log>>
  \/ /\ members = {}
     /\ UNCHANGED <<hubVars, toNode>>

\* handle_leave.  The group goes with its last member; the keys and the epoch of
\* the member that leaves stay.
HubLeave(n) ==
  \/ /\ members # {} /\ ~(members \subseteq {n})
     /\ members' = members \ {n}
     /\ HubSends(To(members \ {n}, Member("left", n)))
     /\ UNCHANGED <<latest, epochs, log>>
  \/ /\ members \subseteq {n}
     /\ members' = {}
     /\ latest' = [s \in Nodes |-> NoDist]
     /\ epochs' = [s \in Nodes |-> NoEpochs]
     /\ log' = << >>
     /\ UNCHANGED toNode

\* check_epoch_policy
EpochAccepted(n, e) ==
  \/ epochs[n] = NoEpochs
  \/ e = epochs[n].current
  \/ e = epochs[n].previous /\ epochs[n].grace

\* handle_message of the hub.  maybe_trigger_rotation replays the keys of all senders
\* when a day or 10,000 messages have passed.
HubMessage(n, m) ==
  \/ /\ n \in members /\ EpochAccepted(n, m.key.epoch)
     /\ LET numbered == [m EXCEPT !.seq = Len(log) + 1]
            fanOut == To(members \ {n}, numbered)
        IN  /\ log' = Append(log, numbered)
            /\ \/ HubSends(fanOut) /\ UNCHANGED count
               \/ HubSends(Then(fanOut, Replay(members))) /\ Happens("replay")
     /\ UNCHANGED <<members, latest, epochs>>
  \/ /\ n \in members /\ ~EpochAccepted(n, m.key.epoch)
     /\ HubSends(Replay({n}))
     /\ UNCHANGED <<hubVars, count>>
  \/ /\ n \notin members
     /\ UNCHANGED <<hubVars, toNode, count>>

\* The epochs of a sender after a distribution.
NextEpochs(old, e) ==
  IF old = NoEpochs THEN Epochs(e, 0, FALSE)
  ELSE IF e > old.current THEN Epochs(e, old.current, TRUE)
  ELSE old

\* handle_sender_key_distribution of the hub
HubDist(n, d) ==
  \/ /\ n \in members
     /\ epochs' = [epochs EXCEPT ![n] = NextEpochs(@, d.key.epoch)]
     /\ latest' = [latest EXCEPT ![n] = Cached(d.key, d.to)]
     /\ HubSends([x \in Nodes |-> IF x \in d.to \cap members THEN <<Dist(n, d.key, {x})>> ELSE << >>])
     /\ UNCHANGED <<members, log>>
  \/ /\ n \notin members
     /\ UNCHANGED <<hubVars, toNode>>

\* Mutant: an off-by-one.
MissedFrom(since) == SelectSeq(log, LAMBDA m : m.seq >= since)

\* The messages after number `since`, of the store and of the memory together.
Missed(since) == SelectSeq(log, LAMBDA m : m.seq > since)

\* handle_sync_request
HubSyncRequest(n, since) ==
  LET missed == Missed(since)
  IN  /\ IF missed = << >> THEN UNCHANGED toNode
         ELSE HubSends(To({n}, [kind |-> "syncResponse", batch |-> missed, last |-> Len(log)]))
      /\ UNCHANGED hubVars

\* The hub handles the first message on its way from node n.
HubReceives(n) ==
  /\ toHub[n] # << >>
  /\ toHub' = [toHub EXCEPT ![n] = Tail(@)]
  /\ LET m == Head(toHub[n])
     IN  \/ m.kind = "join" /\ HubJoin(n) /\ UNCHANGED count
         \/ m.kind = "leave" /\ HubLeave(n) /\ UNCHANGED count
         \/ m.kind = "message" /\ HubMessage(n, m)
         \/ m.kind = "dist" /\ HubDist(n, m) /\ UNCHANGED count
         \/ m.kind = "syncRequest" /\ HubSyncRequest(n, m.since) /\ UNCHANGED count
  /\ UNCHANGED <<view, keyVars, pending, last, saved, made, owed, read, revoked, departed, posted>>

-----------------------------------------------------------------------------
(* Commands, persistence, time and the network *)

Keyless == [m \in Nodes |-> NoKey]

\* accept_invite
JoinGroup(n) ==
  /\ ~InGroup(n)
  /\ Happens("join")
  /\ toHub' = [toHub EXCEPT ![n] = Append(@, [kind |-> "join"])]
  /\ UNCHANGED <<hubVars, view, keyVars, pending, last, saved, toNode, made, owed, read, revoked,
                 departed, posted>>

\* leave_group and cleanup_group_keys
LeaveGroup(n) ==
  /\ InGroup(n)
  /\ Happens("leave")
  /\ view' = [view EXCEPT ![n] = {}]
  /\ local' = [local EXCEPT ![n] = NoKey]
  /\ keys' = [keys EXCEPT ![n] = Keyless]
  /\ prev' = [prev EXCEPT ![n] = Keyless]
  /\ pending' = [pending EXCEPT ![n] = << >>]
  /\ toHub' = [toHub EXCEPT ![n] = Append(@, [kind |-> "leave"])]
  /\ departed' = departed \cup {n}
  /\ owed' = {o \in owed : o[1] # n}
  /\ UNCHANGED <<hubVars, last, saved, toNode, made, read, revoked, posted>>

\* Mutant: the message goes out before the key it is encrypted with.
OutgoingKeyLast(n, rotated, k, m) ==
  IF rotated THEN <<m>> \o Distribution(n, view[n], k) ELSE <<m>>

\* What goes to the hub with message m.
Outgoing(n, rotated, k, m) ==
  IF rotated THEN Append(Distribution(n, view[n], k), m) ELSE <<m>>

\* handle_send_group_message, with maybe_rotate_local_sender_key before it.  Others are
\* owed the message if the sender knows them, and has not been in the group before.
Post(n) ==
  /\ InGroup(n)
  /\ posted < MaxPosts
  /\ posted' = posted + 1
  /\ \E old \in BOOLEAN :
       /\ old => local[n].epoch < MaxEpoch
       /\ LET k == IF old THEN Generated(n) ELSE local[n]
              m == [kind |-> "message", id |-> posted + 1, from |-> n, key |-> k, seq |-> 0]
          IN  /\ local' = [local EXCEPT ![n] = k]
              /\ made' = [made EXCEPT ![n] = IF old THEN @ + 1 ELSE @]
              /\ revoked' = IF old THEN revoked \cup {<<x, n, k.key>> : x \in Nodes \ view[n]} ELSE revoked
              /\ toHub' = [toHub EXCEPT ![n] = @ \o Outgoing(n, old, k, m)]
  /\ owed' = IF n \in departed THEN owed
             ELSE owed \cup {<<x, posted + 1>> : x \in {y \in view[n] \ {n} : InGroup(y)}}
  /\ UNCHANGED <<hubVars, view, keys, prev, pending, last, saved, toNode, read, departed, count>>

\* The tables groups and sender_keys of the node.
Stored(n) == [view |-> view[n], local |-> local[n], keys |-> keys[n], last |-> last[n]]

\* Mutant: the keys are loaded without their group.
FreshWithKeys == [view |-> {}, local |-> Key(1, 1), keys |-> Keyless, last |-> 0]

Fresh == [view |-> {}, local |-> NoKey, keys |-> Keyless, last |-> 0]

\* save_state
SaveState(n) ==
  /\ Happens("save")
  /\ saved[n] # Stored(n)
  /\ saved' = [saved EXCEPT ![n] = Stored(n)]
  /\ UNCHANGED <<hubVars, view, keyVars, pending, last, toHub, toNode, made, owed, read, revoked,
                 departed, posted>>

\* The node stops, what is on its way to it is lost, and it starts again: load, restore
\* and build_rejoin_effects.
Restart(n) ==
  /\ Happens("restart")
  /\ LET s == IF saved[n].view = {} THEN Fresh ELSE saved[n]
     IN  /\ view' = [view EXCEPT ![n] = s.view]
         /\ local' = [local EXCEPT ![n] = s.local]
         /\ keys' = [keys EXCEPT ![n] = s.keys]
         /\ last' = [last EXCEPT ![n] = s.last]
         /\ toHub' = [toHub EXCEPT ![n] = @ \o
                        (IF s.view = {} THEN << >> ELSE <<[kind |-> "join"], SyncRequest(s.last)>>)]
  /\ prev' = [prev EXCEPT ![n] = Keyless]
  /\ pending' = [pending EXCEPT ![n] = << >>]
  /\ toNode' = [toNode EXCEPT ![n] = << >>]
  /\ UNCHANGED <<hubVars, saved, made, owed, read, revoked, departed, posted>>

\* SENDER_KEY_EPOCH_GRACE_MS after an epoch, the hub or a member lets the old one go.
GraceOver(n, m) ==
  /\ Happens("graceOver")
  /\ \/ /\ epochs[m].grace
        /\ epochs' = [epochs EXCEPT ![m].grace = FALSE]
        /\ UNCHANGED prev
     \/ /\ prev[n][m] # NoKey
        /\ prev' = [prev EXCEPT ![n][m] = NoKey]
        /\ UNCHANGED epochs
  /\ UNCHANGED <<members, latest, log, view, local, keys, pending, last, saved, toHub, toNode, made,
                 owed, read, revoked, departed, posted>>

\* The channels that channel q becomes when its first message is lost or overtaken.
Lossy(q) == IF q = << >> THEN {} ELSE {Tail(q)}
Overtaken(q) == IF Len(q) < 2 THEN {} ELSE {<<q[2], q[1]>> \o SubSeq(q, 3, Len(q))}

Disturb(n) ==
  /\ \/ \E q \in Lossy(toHub[n]) : toHub' = [toHub EXCEPT ![n] = q] /\ UNCHANGED toNode /\ Happens("loss")
     \/ \E q \in Lossy(toNode[n]) : toNode' = [toNode EXCEPT ![n] = q] /\ UNCHANGED toHub /\ Happens("loss")
     \/ \E q \in Overtaken(toHub[n]) : toHub' = [toHub EXCEPT ![n] = q] /\ UNCHANGED toNode /\ Happens("reorder")
     \/ \E q \in Overtaken(toNode[n]) : toNode' = [toNode EXCEPT ![n] = q] /\ UNCHANGED toHub /\ Happens("reorder")
  /\ UNCHANGED <<hubVars, view, keyVars, pending, last, saved, made, owed, read, revoked, departed,
                 posted>>

-----------------------------------------------------------------------------
\* The founders have exchanged keys and a first message.  That one has number 0, so
\* that it moves no last_seqs and no SyncRequest asks for it (seq > since_seq).
Init ==
  /\ members = Founders
  /\ latest = [n \in Nodes |-> IF n \in Founders /\ Founders # {n}
                               THEN Cached(Key(1, 1), Founders \ {n}) ELSE NoDist]
  /\ epochs = [n \in Nodes |-> IF n \in Founders /\ Founders # {n}
                               THEN Epochs(1, 0, FALSE) ELSE NoEpochs]
  /\ log = << >>
  /\ view = [n \in Nodes |-> IF n \in Founders THEN Founders ELSE {}]
  /\ local = [n \in Nodes |-> IF n \in Founders THEN Key(1, 1) ELSE NoKey]
  /\ keys = [n \in Nodes |-> [m \in Nodes |->
               IF {n, m} \subseteq Founders /\ n # m THEN Key(1, 1) ELSE NoKey]]
  /\ prev = [n \in Nodes |-> Keyless]
  /\ pending = [n \in Nodes |-> << >>]
  /\ last = [n \in Nodes |-> 0]
  /\ saved = [n \in Nodes |-> Stored(n)]
  /\ toHub = [n \in Nodes |-> << >>]
  /\ toNode = [n \in Nodes |-> << >>]
  /\ made = [n \in Nodes |-> IF n \in Founders THEN 1 ELSE 0]
  /\ owed = {}
  /\ read = {}
  /\ revoked = {<<x, n, 1>> : x \in Nodes \ Founders, n \in Founders}
  /\ departed = {}
  /\ posted = 0
  /\ count = [e \in Events |-> 0]

Receives == \E n \in Nodes : NodeReceives(n) \/ HubReceives(n)

Next ==
  \/ Receives
  \/ \E n \in Nodes :
       \/ JoinGroup(n)
       \/ n \in Leavers /\ LeaveGroup(n)
       \/ Post(n)
       \/ SaveState(n)
       \/ Restart(n)
       \/ \E m \in Nodes : GraceOver(n, m)
       \/ Disturb(n)

Spec == Init /\ [][Next]_vars

\* What is on its way is handled in the end.
FairSpec == Spec /\ WF_vars(Receives)

-----------------------------------------------------------------------------
(* Properties *)

\* Nodes hold only keys that were generated, have a local key exactly while they have the
\* group, and are themselves among the members they know of (generate_local_sender_key,
\* cleanup_group_keys).
TypeOK ==
  /\ members \subseteq Nodes
  /\ \A n \in Nodes : view[n] = {} \/ n \in view[n]
  /\ \A n \in Nodes : InGroup(n) <=> local[n] # NoKey
  /\ \A n, m \in Nodes : {keys[n][m].key, prev[n][m].key} \subseteq 0..made[m]

Quiet == \A n \in Nodes : toHub[n] = << >> /\ toNode[n] = << >>

Undisturbed == Total({"loss", "reorder", "restart"}) = 0

Agree(n, m) == keys[n][m] = local[m]

\* Once all messages are handled, and if none was lost or overtaken and no node was
\* restarted, every member has the current key of every other member: the distributions
\* of handle_group_sync, handle_member_joined and rotate_sender_key and the replays of
\* the hub cross each other and end in agreement.  A sender that left and came back is
\* excluded: its epochs start again at 1, and a replay of its old key hides the new one.
KeysAgree ==
  Quiet /\ Undisturbed => \A n, m \in members : n # m /\ m \notin departed => Agree(n, m)

\* A key that a member generates without another, because that one has left or has yet
\* to join, reaches it only after a new join, whatever is lost, overtaken, replayed or
\* restored (rotate_sender_key, and the distributions the hub keeps).
RotationExcludes ==
  \A r \in revoked : r[3] \notin {keys[r[1]][r[2]].key, prev[r[1]][r[2]].key}

\* Messages wait in pending_decrypt only for the first key of their sender: no key that
\* handle_sender_key_distribution takes leaves a message of its sender behind.
WaitsForFirstKey ==
  \A n \in Nodes : \A i \in DOMAIN pending[n] : keys[n][pending[n][i].from] = NoKey

\* Once all messages are handled, and if none was lost or overtaken and no node was
\* restarted, a message has been read by all the members the sender knew when it sent
\* it, across the rotations and departures that happened meanwhile.
OwedIsRead == Quiet /\ Undisturbed => owed \subseteq read

\* A message whose key is unknown asks the hub for a resync, the answer holds the same
\* message, and so on (build_epoch_resync_actions): this always comes to an end.
ResyncEnds == []<>Quiet
=============================================================================
