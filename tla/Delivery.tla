------------------------------ MODULE Delivery ------------------------------
(***************************************************************************)
(* End-to-end delivery of 1-1 chat messages: the sender's MessageTracker   *)
(* and retry cache, an optional relay hop, and the recipient's Router with *)
(* its duplicate suppression.  One sender, one recipient, any set of       *)
(* relays; the executor and the transport are the unreliable set `net`.    *)
(*                                                                         *)
(* Time is kept as remaining time: a deadline or a cache entry counts down *)
(* with Tick and has expired at 0, which is what `now >= d` and            *)
(* `now - ts >= TTL` say in the code.                                      *)
(***************************************************************************)
EXTENDS Integers, FiniteSets, Sequences, Functions

CONSTANTS
  Msgs,            \* envelope ids (fresh UUIDs: each is sent once)
  Relays,          \* nodes that select_path may put in `via`
  Undecryptable,   \* ids whose payload the recipient cannot decrypt
  Encrypted,       \* RuntimeConfig::encryption
  MaxRetries,      \* DEFAULT_MAX_RETRIES
  AckDeadline,     \* DEFAULT_ACK_DEADLINE_SECS, in ticks
  DedupTTL,        \* DEDUP_TTL, in ticks
  AckTTL,          \* ACK_TTL, in ticks
  MaxAge,          \* MAX_AGE_SECS, in ticks
  TrackCap,        \* MAX_TRACKED
  CacheCap,        \* MAX_CACHE_SIZE
  NonceCap,        \* MAX_NONCE_CACHE
  Timely,          \* TRUE: no envelope is in flight for a whole tick
  LossyTypes,      \* the envelope types the network may lose
  MaxLoss, MaxSenderCrash, MaxRecipientCrash   \* fault budgets

VARIABLES
  tracker,         \* MessageTracker::messages, a partial function on Msgs
  pending,         \* RuntimeState::pending_envelopes
  ackCache,        \* the sender's Router::ack_cache
  saved,           \* table tracked_messages of the sender's state.db
  via,             \* the relay each message was sent through
  messageCache,    \* the recipient's Router::message_cache
  nonceCache,      \* the recipient's Router::nonce_cache, oldest first
  net,             \* envelopes in flight
  sweepDue,        \* the delivery_deadline interval has fired
  attempts,        \* history: times the sender has sent each message
  delivered,       \* history: DeliverMessage effects since the recipient's boot
  acked,           \* history: messages the recipient has ever acknowledged
  faults           \* history: the fault budgets used so far

senderVars == <<tracker, pending, ackCache, saved, via, attempts>>
recipientVars == <<messageCache, nonceCache, delivered, acked>>
vars == <<senderVars, recipientVars, net, sweepDue, faults>>

Sender == "sender"
Recipient == "recipient"
Direct == "direct"
Unsent == "unsent"

\* enum MessageStatus, with the order it derives.
Pending == 0
Sent == 1
Relayed == 2
Delivered == 3
Read == 4
Failed == 5

NoDeadline == -1

Types == {"chat", "relayAck", "ack", "read"}

ASSUME NodesAssumption ==
  /\ {Sender, Recipient, Direct, Unsent} \cap Relays = {}
  /\ Encrypted \in BOOLEAN
  /\ Timely \in BOOLEAN
  /\ LossyTypes \subseteq Types
  /\ IsFiniteSet(Msgs)

ASSUME TimingAssumption ==
  /\ MaxRetries \in Nat
  /\ AckDeadline \in Nat \ {0}
  /\ DedupTTL \in Nat
  /\ AckTTL \in Nat
  /\ MaxAge \in Nat

\* The dedup window outlasts all the retries of a message (600s against 90s).
ASSUME DedupWindowAssumption == DedupTTL >= (MaxRetries + 1) * AckDeadline

ASSUME BudgetAssumption ==
  /\ TrackCap \in Nat
  /\ CacheCap \in Nat
  /\ NonceCap \in Nat \ {0}
  /\ MaxLoss \in Nat
  /\ MaxSenderCrash \in Nat
  /\ MaxRecipientCrash \in Nat

\* struct TrackedMessage; `life` is what remains of the 24h of `created`.
Entry == [status: Pending..Failed, retries: 0..MaxRetries,
          deadline: NoDeadline..AckDeadline, life: 0..MaxAge]

\* struct TrackedMessageRecord.
Record == [status: Pending..Relayed, retries: 0..MaxRetries]

\* An envelope, and the node that processes it next.
Envelope == [type: Types, msg: Msgs, at: Relays \cup {Sender, Recipient}]

Env(type, m, at) == [type |-> type, msg |-> m, at |-> at]

Put(f, k, v) == [x \in DOMAIN f \cup {k} |-> IF x = k THEN v ELSE f[x]]

-----------------------------------------------------------------------------
(* MessageTracker *)

\* Not yet delivered and not given up: `< Delivered && != Failed`.
Active(m) == m \in DOMAIN tracker /\ tracker[m].status < Delivered

\* evict_expired: what is left after dropping the entries older than 24h.
Unevicted(t) == Restrict(t, {m \in DOMAIN t : t[m].life > 0})

\* Mutant: counts the first transmission as a retry.
NewEntryOneRetryShort == [status |-> Sent, retries |-> MaxRetries - 1,
                          deadline |-> AckDeadline, life |-> MaxAge]

NewEntry == [status |-> Sent, retries |-> MaxRetries,
             deadline |-> AckDeadline, life |-> MaxAge]

\* track + mark_sent: at capacity evict first, and give up if that freed nothing.
Track(m) ==
  LET kept == IF Cardinality(DOMAIN tracker) >= TrackCap
              THEN Unevicted(tracker) ELSE tracker
  IN  IF Cardinality(DOMAIN kept) >= TrackCap THEN kept ELSE Put(kept, m, NewEntry)

\* Mutant: sets whatever status comes in, unless the message has failed.
AdvanceUnordered(m, s) ==
  IF m \in DOMAIN tracker /\ tracker[m].status # Failed
  THEN [tracker EXCEPT ![m].status = s]
  ELSE tracker

\* advance: forward only, and never out of Failed.
Advance(m, s) ==
  IF m \in DOMAIN tracker /\ tracker[m].status # Failed /\ s > tracker[m].status
  THEN [tracker EXCEPT ![m].status = s]
  ELSE tracker

\* Mutant: takes a relay's ACK for the recipient's.
MarkRelayedAsDelivered(m) == Advance(m, Delivered)

MarkRelayed(m) == Advance(m, Relayed)

MarkRead(m) == Advance(m, Read)

MarkDelivered(m) ==
  IF Advance(m, Delivered) # tracker
  THEN [Advance(m, Delivered) EXCEPT ![m].deadline = NoDeadline]
  ELSE tracker

\* expired_deadlines
Expired(m) == Active(m) /\ tracker[m].deadline = 0

\* snapshot: the active messages only.
Snapshot == [m \in {x \in DOMAIN tracker : Active(x)} |->
               [status |-> tracker[m].status, retries |-> tracker[m].retries]]

\* Mutant: what cannot be sent again has failed.
RestoredFailed == [m \in DOMAIN saved |->
                     [status |-> Failed, retries |-> saved[m].retries,
                      deadline |-> AckDeadline, life |-> MaxAge]]

\* restore: a fresh deadline and a fresh age, the retries as they were.
Restored == [m \in DOMAIN saved |->
               [status |-> saved[m].status, retries |-> saved[m].retries,
                deadline |-> AckDeadline, life |-> MaxAge]]

-----------------------------------------------------------------------------
(* Router *)

\* Mutant: no nonce check.
IsDuplicateById(m) == m \in DOMAIN messageCache

\* `contains_key`: an expired entry still counts until a cleanup removes it.
IsDuplicate(m) ==
  \/ m \in DOMAIN messageCache
  \/ Encrypted /\ m \in Range(nonceCache)

\* cleanup_caches
Unexpired(cache) == Restrict(cache, {k \in DOMAIN cache : cache[k] > 0})

\* Mutant: every cache entry gets the shorter TTL.
InsertWithAckTTL(cache, k, ttl) ==
  Put(IF Cardinality(DOMAIN cache) >= CacheCap THEN Unexpired(cache) ELSE cache, k, AckTTL)

\* The insertion of both caches: clean up at capacity, then insert anyway.
Insert(cache, k, ttl) ==
  Put(IF Cardinality(DOMAIN cache) >= CacheCap THEN Unexpired(cache) ELSE cache, k, ttl)

\* LruCache::push.  A nonce is only ever looked up with `contains`, which does
\* not refresh it: the least recently used nonce is the oldest one.
PushNonce(m) ==
  Append(IF Len(nonceCache) < NonceCap THEN nonceCache ELSE Tail(nonceCache), m)

Undeliverable(m) == Encrypted /\ m \in Undecryptable

FinalHop(type) == IF type = "chat" THEN Recipient ELSE Sender

\* `via.first().unwrap_or(to)`
FirstHop(type, r) == IF r = Direct THEN FinalHop(type) ELSE r

\* An envelope is consumed by its reception, or stays and comes again: the
\* executor sends the same bytes up to three times when send_raw reports an
\* error, whatever had arrived by then.
Exchange(e, out) == \E left \in {net, net \ {e}} : net' = left \cup out

-----------------------------------------------------------------------------
NoEntries == [k \in {} |-> 0]

Init ==
  /\ tracker = NoEntries
  /\ pending = {}
  /\ ackCache = NoEntries
  /\ saved = NoEntries
  /\ via = [m \in Msgs |-> Unsent]
  /\ messageCache = NoEntries
  /\ nonceCache = << >>
  /\ net = {}
  /\ sweepDue = FALSE
  /\ attempts = [m \in Msgs |-> 0]
  /\ delivered = [m \in Msgs |-> 0]
  /\ acked = {}
  /\ faults = [loss |-> 0, sender |-> 0, recipient |-> 0]

(* The sender *)

\* handle_send_message.  mark_sent is called here, whatever the transport says
\* later; a failed transmission is a Lose of the envelope.
Send(m) ==
  /\ via[m] = Unsent
  /\ \E r \in Relays \cup {Direct} :
       /\ via' = [via EXCEPT ![m] = r]
       /\ net' = net \cup {Env("chat", m, FirstHop("chat", r))}
  /\ tracker' = Track(m)
  /\ pending' = pending \cup {m}
  /\ attempts' = [attempts EXCEPT ![m] = 1]
  /\ UNCHANGED <<ackCache, saved, recipientVars, sweepDue, faults>>

\* Mutant: the last retry is never made.
ToRetryButLast == {m \in pending : Expired(m) /\ tracker[m].retries > 1}

ToRetry == {m \in pending : Expired(m) /\ tracker[m].retries > 0}

ToFail == {m \in DOMAIN tracker : Expired(m) /\ tracker[m].retries = 0}

\* Mutant: restarts the timer and leaves the retries as they are.
RearmedForFree(entry) == [entry EXCEPT !.deadline = AckDeadline]

\* reset_deadline
Rearmed(entry) ==
  [entry EXCEPT !.deadline = AckDeadline, !.retries = @ - 1]

\* tick_delivery_deadlines: retry what still has retries and a cached envelope,
\* fail what has no retries left.
DeliveryDeadlines ==
  /\ sweepDue
  /\ sweepDue' = FALSE
  /\ tracker' = [m \in DOMAIN tracker |->
                   IF m \in ToRetry THEN Rearmed(tracker[m])
                   ELSE IF m \in ToFail
                   THEN [tracker[m] EXCEPT !.status = Failed, !.deadline = NoDeadline]
                   ELSE tracker[m]]
  /\ pending' = pending \ ToFail
  /\ net' = net \cup {Env("chat", m, FirstHop("chat", via[m])) : m \in ToRetry}
  /\ attempts' = [m \in Msgs |-> attempts[m] + IF m \in ToRetry THEN 1 ELSE 0]
  /\ UNCHANGED <<ackCache, saved, via, recipientVars, faults>>

\* handle_incoming_chat at the sender: relay ACK, delivery ACK or read receipt,
\* dropped when ack_cache has seen it.
Settle(e) ==
  \/ e.type = "relayAck" /\ tracker' = MarkRelayed(e.msg) /\ pending' = pending
  \/ e.type = "ack" /\ tracker' = MarkDelivered(e.msg) /\ pending' = pending \ {e.msg}
  \/ e.type = "read" /\ tracker' = MarkRead(e.msg) /\ pending' = pending

RecvAtSender(e) ==
  /\ e \in net
  /\ e.at = Sender
  /\ Exchange(e, {})
  /\ LET key == <<e.type, e.msg>>
     IN  IF key \in DOMAIN ackCache
         THEN UNCHANGED <<ackCache, tracker, pending>>
         ELSE /\ ackCache' = Insert(ackCache, key, AckTTL)
              /\ Settle(e)
  /\ UNCHANGED <<saved, via, attempts, recipientVars, sweepDue, faults>>

\* tick_tracker_cleanup
TrackerCleanup ==
  /\ tracker' = Unevicted(tracker)
  /\ pending' = pending \cap DOMAIN tracker'
  /\ UNCHANGED <<ackCache, saved, via, attempts, recipientVars, net, sweepDue, faults>>

\* tick_cache_cleanup of the sender's Router
SenderCacheCleanup ==
  /\ ackCache' = Unexpired(ackCache)
  /\ UNCHANGED <<tracker, pending, saved, via, attempts, recipientVars, net, sweepDue, faults>>

\* save_state
SaveState ==
  /\ saved' = Snapshot
  /\ UNCHANGED <<tracker, pending, ackCache, via, attempts, recipientVars, net, sweepDue, faults>>

\* A crash (or a shutdown) of the sender and RuntimeState::new after it: only
\* the tracker is loaded back.
SenderRestart ==
  /\ faults.sender < MaxSenderCrash
  /\ faults' = [faults EXCEPT !.sender = @ + 1]
  /\ tracker' = Restored
  /\ pending' = {}
  /\ ackCache' = NoEntries
  /\ UNCHANGED <<saved, via, attempts, recipientVars, net, sweepDue>>

-----------------------------------------------------------------------------
(* The relays *)

\* Mutant: the relay passes on what goes to the recipient only.
ForwardChatOnly(e) ==
  /\ e \in net
  /\ e.at \in Relays
  /\ Exchange(e, IF e.type = "chat"
                 THEN {Env("chat", e.msg, Recipient), Env("relayAck", e.msg, Sender)} ELSE {})
  /\ UNCHANGED <<senderVars, recipientVars, sweepDue, faults>>

\* RoutingAction::Forward: on to the next hop, and a relay ACK straight to the
\* envelope's sender.  For an "ack" or "read" envelope that relay ACK goes to
\* the recipient, whose tracker does not know the id: it changes nothing and
\* is left out.
Forward(e) ==
  /\ e \in net
  /\ e.at \in Relays
  /\ Exchange(e, {Env(e.type, e.msg, FinalHop(e.type))} \cup
                 IF e.type = "chat" THEN {Env("relayAck", e.msg, Sender)} ELSE {})
  /\ UNCHANGED <<senderVars, recipientVars, sweepDue, faults>>

-----------------------------------------------------------------------------
(* The recipient *)

MaxCount == 2     \* `delivered` counts up to "more than once"

\* handle_deliver, then the Deliver arm of handle_incoming_chat: a duplicate is
\* dropped without an answer; a payload that does not decrypt has already been
\* entered in the caches and is not acknowledged.
RecvChat(e) ==
  /\ e \in net
  /\ e.type = "chat"
  /\ e.at = Recipient
  /\ LET m == e.msg
     IN  IF IsDuplicate(m)
         THEN Exchange(e, {}) /\ UNCHANGED recipientVars
         ELSE /\ messageCache' = Insert(messageCache, m, DedupTTL)
              /\ nonceCache' = IF Encrypted THEN PushNonce(m) ELSE nonceCache
              /\ IF Undeliverable(m)
                 THEN Exchange(e, {}) /\ UNCHANGED <<delivered, acked>>
                 ELSE /\ Exchange(e, {Env("ack", m, FirstHop("ack", via[m]))})
                      /\ delivered' = [delivered EXCEPT
                                         ![m] = IF @ < MaxCount THEN @ + 1 ELSE @]
                      /\ acked' = acked \cup {m}
  /\ UNCHANGED <<senderVars, sweepDue, faults>>

\* handle_send_read_receipt, called by the application for a message it got.
SendReadReceipt(m) ==
  /\ m \in acked
  /\ \E r \in Relays \cup {Direct} : net' = net \cup {Env("read", m, FirstHop("read", r))}
  /\ UNCHANGED <<senderVars, recipientVars, sweepDue, faults>>

\* tick_cache_cleanup of the recipient's Router
RecipientCacheCleanup ==
  /\ messageCache' = Unexpired(messageCache)
  /\ UNCHANGED <<senderVars, nonceCache, delivered, acked, net, sweepDue, faults>>

\* Router::new after a restart: neither cache is persisted.
RecipientRestart ==
  /\ faults.recipient < MaxRecipientCrash
  /\ faults' = [faults EXCEPT !.recipient = @ + 1]
  /\ messageCache' = NoEntries
  /\ nonceCache' = << >>
  /\ delivered' = [m \in Msgs |-> 0]
  /\ UNCHANGED <<senderVars, acked, net, sweepDue>>

-----------------------------------------------------------------------------
(* The network and the clock *)

\* All attempts of send_envelope_to failed, or the connection or the receiving
\* node died under the envelope, or the receiver's anti-spam throttled it.
Lose(e) ==
  /\ e \in net
  /\ e.type \in LossyTypes
  /\ faults.loss < MaxLoss
  /\ net' = net \ {e}
  /\ faults' = [faults EXCEPT !.loss = @ + 1]
  /\ UNCHANGED <<senderVars, recipientVars, sweepDue>>

Elapsed(n) == IF n > 0 THEN n - 1 ELSE n

\* One unit of time.  The delivery_deadline interval (5s) fires in every unit,
\* and the loop serves it before the next unit is over.
Tick ==
  /\ ~sweepDue
  /\ Timely => net = {}
  /\ sweepDue' = TRUE
  /\ tracker' = [m \in DOMAIN tracker |->
                   [tracker[m] EXCEPT !.deadline = Elapsed(@), !.life = Elapsed(@)]]
  /\ ackCache' = [k \in DOMAIN ackCache |-> Elapsed(ackCache[k])]
  /\ messageCache' = [m \in DOMAIN messageCache |-> Elapsed(messageCache[m])]
  /\ UNCHANGED <<pending, saved, via, attempts, nonceCache, delivered, acked, net, faults>>

Receive(e) == Forward(e) \/ RecvChat(e) \/ RecvAtSender(e)

Next ==
  \/ \E m \in Msgs : Send(m)
  \/ \E e \in net : Forward(e)
  \/ \E e \in net : RecvChat(e)
  \/ \E e \in net : RecvAtSender(e)
  \/ \E e \in net : Lose(e)
  \/ \E m \in Msgs : SendReadReceipt(m)
  \/ DeliveryDeadlines
  \/ TrackerCleanup
  \/ SenderCacheCleanup
  \/ RecipientCacheCleanup
  \/ SaveState
  \/ SenderRestart
  \/ RecipientRestart
  \/ Tick

Spec == Init /\ [][Next]_vars

\* Time passes whatever the nodes do, the runtime loop keeps serving its timers,
\* and the transport either delivers an envelope or loses it: none waits for ever.
Fairness ==
  /\ SF_vars(Tick)
  /\ WF_vars(DeliveryDeadlines)
  /\ \A e \in Envelope : WF_vars(Receive(e) /\ e \notin net')

FairSpec == Spec /\ Fairness

-----------------------------------------------------------------------------
(* Properties *)

\* The types of the tracker, the caches, the network and the histories.
TypeOK ==
  /\ DOMAIN tracker \subseteq Msgs
  /\ tracker \in [DOMAIN tracker -> Entry]
  /\ pending \subseteq Msgs
  /\ DOMAIN ackCache \subseteq Types \X Msgs
  /\ ackCache \in [DOMAIN ackCache -> 0..AckTTL]
  /\ DOMAIN saved \subseteq Msgs
  /\ saved \in [DOMAIN saved -> Record]
  /\ via \in [Msgs -> Relays \cup {Direct, Unsent}]
  /\ DOMAIN messageCache \subseteq Msgs
  /\ messageCache \in [DOMAIN messageCache -> 0..DedupTTL]
  /\ nonceCache \in Seq(Msgs)
  /\ Len(nonceCache) <= NonceCap
  /\ net \subseteq Envelope
  /\ sweepDue \in BOOLEAN
  /\ attempts \in [Msgs -> 0..MaxRetries + 1]
  /\ delivered \in [Msgs -> 0..MaxCount]
  /\ acked \subseteq Msgs
  /\ faults \in [loss: 0..MaxLoss, sender: 0..MaxSenderCrash, recipient: 0..MaxRecipientCrash]

\* "Message delivered <=> recipient emits ACK", left to right: whatever retries,
\* duplicates, losses and restarts happen, the sender reports Delivered or Read
\* only for a message the recipient handed to its application and acknowledged.
DeliveredMeansAcked ==
  \A m \in DOMAIN tracker : tracker[m].status \in {Delivered, Read} => m \in acked

\* A message is put on the wire at most 1 + DEFAULT_MAX_RETRIES times, also when
\* the sender restarts from an old snapshot that still grants it retries.  While
\* the envelope is cached, the attempts made and the retries left add up.
AttemptsBounded ==
  \A m \in Msgs :
    /\ attempts[m] <= MaxRetries + 1
    /\ m \in pending /\ Active(m) => attempts[m] + tracker[m].retries = MaxRetries + 1

\* tick_delivery_deadlines "Retry or mark failed": once it has run, no message
\* that still waits for its ACK is left behind with an expired deadline.
SweepSettlesDeadlines ==
  ~sweepDue => \A m \in DOMAIN tracker : ~Expired(m)

\* Between two restarts of the recipient its application gets a message at most
\* once, although the sender retries and the executor may send twice: when
\* payloads are encrypted by the nonce cache, which never expires, as long as it
\* has not overflowed; otherwise because the dedup entry outlives the retries,
\* provided no envelope is delayed by a whole tick.
AtMostOnce ==
  Timely \/ (Encrypted /\ Cardinality(Msgs) <= NonceCap) =>
    \A m \in Msgs : delivered[m] <= 1

\* Until the sender restarts, a message that may be retried has its envelope in
\* the retry cache, and it leaves the cache for good once it is acknowledged.
RetryHasEnvelope ==
  faults.sender = 0 => \A m \in DOMAIN tracker : Active(m) => m \in pending

\* "Status is monotonically increasing": except across a restart no tracked
\* status goes back, Failed is final, and a delivered message never fails.
StatusMonotone ==
  [][faults'.sender = faults.sender =>
       \A m \in DOMAIN tracker \cap DOMAIN tracker' :
         /\ tracker[m].status <= tracker'[m].status
         /\ tracker[m].status \in {Delivered, Read} => tracker'[m].status # Failed]_vars

\* Retries recover lost messages: when only chat envelopes get lost, at most
\* MaxRetries of them in all, and nobody restarts, every decryptable message is
\* eventually reported delivered (so it is never reported Failed).
EventuallyDelivered ==
  \A m \in Msgs \ Undecryptable :
    Active(m) ~> m \in DOMAIN tracker /\ tracker[m].status \in {Delivered, Read}

\* Every tracked message settles: it does not stay Pending, Sent or Relayed but
\* becomes Delivered, Read or Failed (no restart, no 24h eviction needed).
Settles ==
  \A m \in Msgs : Active(m) ~> m \in DOMAIN tracker /\ ~Active(m)

\* "Message delivered <=> recipient emits ACK", right to left: as long as no ACK is
\* lost, a message that the recipient has acknowledged is not reported Failed,
\* although the answer takes its way over relays and duplicates get none.  (One ACK
\* lost makes this false: handle_deliver drops the retries without an answer.)
AckedNotFailed ==
  \A m \in DOMAIN tracker : tracker[m].status = Failed => m \notin acked

\* What the sender's user sees of m when the tracker is t.
Report(t, m) ==
  IF m \notin DOMAIN t THEN "none"
  ELSE IF t[m].status < Delivered THEN "waiting"
  ELSE IF t[m].status = Failed THEN "failed"
  ELSE "confirmed"

Contract == INSTANCE DeliveryContract WITH
  sent <- {m \in Msgs : via[m] # Unsent},
  report <- [m \in Msgs |-> Report(tracker, m)],
  copies <- delivered,
  got <- acked

\* Tracker, retries, sweeps, caches and restarts implement the contract between
\* sender and recipient: what is reported was handed over, what is handed over was
\* sent and comes once, and a verdict is final until a restart or the 24h eviction.
ContractHolds == Contract!Spec
=============================================================================
