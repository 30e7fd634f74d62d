--------------------------- MODULE DeliveryProofs ---------------------------
(***************************************************************************)
(* Proofs of the safety properties of Delivery, for any sets of messages   *)
(* and relays, any timing that satisfies the assumptions and any budget of *)
(* faults.  All of them follow from one inductive invariant, IInv; the     *)
(* at-most-once property, which also counts nonces, is in                  *)
(* DeliveryOnceProofs.                                                     *)
(***************************************************************************)
EXTENDS Delivery, TLAPS

ChatInFlight(m) == \E e \in net : e.type = "chat" /\ e.msg = m

\* Nothing is known of a message before it is sent.
Fresh ==
  \A m \in Msgs : via[m] = Unsent =>
    /\ m \notin DOMAIN tracker
    /\ m \notin DOMAIN saved
    /\ m \notin pending
    /\ attempts[m] = 0
    /\ delivered[m] = 0
    /\ ~ChatInFlight(m)

\* Acknowledgements and read receipts in flight are genuine.
AcksAreGenuine ==
  \A e \in net : e.type \in {"ack", "read"} => e.msg \in acked

\* A message that the sender may still retry.
Live(m) == m \in pending /\ Active(m)

\* A live message has a deadline, which the sweep leaves in the future.
DeadlinesArmed ==
  \A m \in Msgs : Live(m) =>
    /\ tracker[m].deadline >= 0
    /\ ~sweepDue => tracker[m].deadline > 0

\* The time in which the sender may still transmit m.
RetryWindow(m) == tracker[m].retries * AckDeadline + tracker[m].deadline

\* On a timely network the dedup entry of a delivered message outlives both the
\* copies in flight and every retry still to come.
DedupOutlivesRetries ==
  Timely => \A m \in Msgs : delivered[m] > 0 =>
    /\ ChatInFlight(m) => m \in DOMAIN messageCache /\ messageCache[m] > 0
    /\ Live(m) /\ RetryWindow(m) > 0 =>
         m \in DOMAIN messageCache /\ messageCache[m] >= RetryWindow(m)

IInv ==
  /\ TypeOK
  /\ Fresh
  /\ AttemptsBounded
  /\ AcksAreGenuine
  /\ DeliveredMeansAcked
  /\ RetryHasEnvelope
  /\ DeadlinesArmed
  /\ DedupOutlivesRetries

-----------------------------------------------------------------------------
(* Types *)

USE DEF Pending, Sent, Relayed, Delivered, Read, Failed, NoDeadline

\* The fields of a tracked message are numbers within their bounds.
LEMMA EntryFields ==
  ASSUME NEW x \in Entry
  PROVE  /\ x.status \in Int /\ 0 <= x.status /\ x.status <= Failed
         /\ x.retries \in Int /\ 0 <= x.retries /\ x.retries <= MaxRetries
         /\ x.deadline \in Int /\ NoDeadline <= x.deadline /\ x.deadline <= AckDeadline
         /\ x.life \in Int /\ 0 <= x.life /\ x.life <= MaxAge
BY TimingAssumption DEF Entry

\* An insertion into a cache keeps every live entry and adds the new one.
LEMMA InsertEffect ==
  ASSUME NEW f, NEW k, NEW v
  PROVE  /\ DOMAIN Insert(f, k, v) \subseteq DOMAIN f \cup {k}
         /\ k \in DOMAIN Insert(f, k, v)
         /\ Insert(f, k, v) = [x \in DOMAIN Insert(f, k, v) |-> IF x = k THEN v ELSE f[x]]
         /\ \A x \in DOMAIN f : f[x] > 0 => x \in DOMAIN Insert(f, k, v)
<1> DEFINE g == IF Cardinality(DOMAIN f) >= CacheCap THEN Unexpired(f) ELSE f
<1>1. /\ DOMAIN g \subseteq DOMAIN f
      /\ \A x \in DOMAIN g : g[x] = f[x]
      /\ \A x \in DOMAIN f : f[x] > 0 => x \in DOMAIN g
  BY DEF Unexpired, Restrict
<1>2. Insert(f, k, v) = [x \in DOMAIN g \cup {k} |-> IF x = k THEN v ELSE g[x]]
  BY DEF Insert, Put
<1> HIDE DEF g
<1>3. QED
  BY <1>1, <1>2

\* The 24h eviction leaves the entries it keeps as they are.
LEMMA UnevictedType ==
  ASSUME NEW t, t \in [DOMAIN t -> Entry], DOMAIN t \subseteq Msgs
  PROVE  /\ Unevicted(t) \in [DOMAIN Unevicted(t) -> Entry]
         /\ DOMAIN Unevicted(t) \subseteq DOMAIN t
         /\ \A x \in DOMAIN Unevicted(t) : Unevicted(t)[x] = t[x]
BY DEF Unevicted, Restrict

\* track adds at most the new message, as Sent with all its retries.
LEMMA TrackType ==
  ASSUME TypeOK, NEW m \in Msgs
  PROVE  /\ Track(m) \in [DOMAIN Track(m) -> Entry]
         /\ DOMAIN Track(m) \subseteq DOMAIN tracker \cup {m}
         /\ \A x \in DOMAIN Track(m) : x # m => Track(m)[x] = tracker[x]
         /\ m \in DOMAIN Track(m) =>
              \/ Track(m)[m] = NewEntry
              \/ m \in DOMAIN tracker /\ Track(m)[m] = tracker[m]
<1> DEFINE kept == IF Cardinality(DOMAIN tracker) >= TrackCap
                   THEN Unevicted(tracker) ELSE tracker
<1>1. /\ kept \in [DOMAIN kept -> Entry]
      /\ DOMAIN kept \subseteq DOMAIN tracker
      /\ DOMAIN kept \subseteq Msgs
      /\ \A x \in DOMAIN kept : kept[x] = tracker[x]
  BY Zenon, UnevictedType DEF TypeOK
<1>2. Track(m) = IF Cardinality(DOMAIN kept) >= TrackCap THEN kept ELSE Put(kept, m, NewEntry)
  BY DEF Track
<1>3. NewEntry \in Entry
  BY TimingAssumption DEF NewEntry, Entry
<1> HIDE DEF kept
<1>4. QED
  BY <1>1, <1>2, <1>3 DEF Put

\* What an ACK or a read receipt may do to the tracker: one message advances.
LEMMA AdvanceType ==
  ASSUME TypeOK, NEW m, NEW s \in Pending..Read
  PROVE  /\ Advance(m, s) \in [DOMAIN tracker -> Entry]
         /\ \A x \in DOMAIN tracker :
              /\ x # m => Advance(m, s)[x] = tracker[x]
              /\ Advance(m, s)[x].retries = tracker[x].retries
              /\ Advance(m, s)[x].deadline = tracker[x].deadline
              /\ Advance(m, s)[x].status =
                   IF x = m /\ tracker[m].status # Failed /\ s > tracker[m].status
                   THEN s ELSE tracker[x].status
<1>1. CASE m \in DOMAIN tracker /\ tracker[m].status # Failed /\ s > tracker[m].status
  <2>1. Advance(m, s) = [tracker EXCEPT ![m].status = s]
    BY <1>1 DEF Advance
  <2> tracker[m] \in Entry
    BY <1>1 DEF TypeOK
  <2>2. [tracker[m] EXCEPT !.status = s] \in Entry
    BY DEF Entry
  <2>3. /\ Advance(m, s) = [x \in DOMAIN tracker |-> IF x = m
                              THEN [tracker[m] EXCEPT !.status = s] ELSE tracker[x]]
        /\ tracker \in [DOMAIN tracker -> Entry]
    BY Zenon, <2>1 DEF TypeOK
  <2>4. \A x \in DOMAIN tracker : tracker[x] \in Entry
    BY <2>3
  <2>5. Advance(m, s) \in [DOMAIN tracker -> Entry]
    BY <2>2, <2>3, <2>4
  <2>6. QED
    BY <1>1, <2>2, <2>3, <2>4, <2>5 DEF Entry
<1>2. CASE ~(m \in DOMAIN tracker /\ tracker[m].status # Failed /\ s > tracker[m].status)
  BY <1>2 DEF Advance, TypeOK
<1>3. QED
  BY <1>1, <1>2

\* The envelopes that the actions make are envelopes.
LEMMA EnvType ==
  /\ \A m \in Msgs, t \in Types, r \in Relays \cup {Direct, Unsent} :
       r # Unsent => Env(t, m, FirstHop(t, r)) \in Envelope
  /\ \A m \in Msgs, t \in Types : Env(t, m, FinalHop(t)) \in Envelope
  /\ \A m \in Msgs : Env("relayAck", m, Sender) \in Envelope
BY NodesAssumption DEF Env, FirstHop, FinalHop, Envelope, Types, Sender, Recipient, Direct, Unsent

\* handle_send_message keeps the types.
LEMMA SendType ==
  ASSUME TypeOK, NEW m \in Msgs, Send(m)
  PROVE  TypeOK'
<1>1. PICK r \in Relays \cup {Direct} :
        /\ via' = [via EXCEPT ![m] = r]
        /\ net' = net \cup {Env("chat", m, FirstHop("chat", r))}
  BY Zenon DEF Send
<1>2. r # Unsent /\ "chat" \in Types
  BY NodesAssumption DEF Direct, Unsent, Types
<1>3. net' \subseteq Envelope /\ via' \in [Msgs -> Relays \cup {Direct, Unsent}]
  BY <1>1, <1>2, EnvType DEF TypeOK
<1>4. DOMAIN tracker' \subseteq Msgs /\ tracker' \in [DOMAIN tracker' -> Entry]
  BY SMTT(30), TrackType DEF Send, TypeOK
<1>5. attempts' \in [Msgs -> 0..MaxRetries + 1] /\ pending' \subseteq Msgs
  BY SMTT(30), TimingAssumption DEF Send, TypeOK
<1>6. QED
  BY SMTT(30), <1>3, <1>4, <1>5 DEF Send, TypeOK, recipientVars

\* tick_delivery_deadlines keeps the types: retries stay in range as only positive
\* ones are decremented, and the attempts as they add up with the retries.
LEMMA DeliveryDeadlinesType ==
  ASSUME TypeOK, AttemptsBounded, Fresh, DeliveryDeadlines
  PROVE  TypeOK'
<1>1. tracker' \in [DOMAIN tracker -> Entry]
  <2> SUFFICES ASSUME NEW m \in DOMAIN tracker
               PROVE  tracker'[m] \in Entry
    BY Zenon DEF DeliveryDeadlines
  <2>1. tracker[m] \in Entry
    BY DEF TypeOK
  <2>2. m \in ToRetry => tracker[m].retries > 0
    BY DEF ToRetry
  <2>3. ASSUME m \in ToRetry PROVE Rearmed(tracker[m]) \in Entry
    <3>1. tracker[m].retries - 1 \in 0..MaxRetries /\ AckDeadline \in NoDeadline..AckDeadline
      BY <2>1, <2>2, <2>3, EntryFields, TimingAssumption
    <3>2. QED
      BY Zenon, <2>1, <3>1 DEF Rearmed, Entry
  <2>4. [tracker[m] EXCEPT !.status = Failed, !.deadline = NoDeadline] \in Entry
    <3>1. Failed \in Pending..Failed /\ NoDeadline \in NoDeadline..AckDeadline
      BY TimingAssumption
    <3>2. QED
      BY Zenon, <2>1, <3>1 DEF Entry
  <2>5. QED
    BY Zenon, <2>1, <2>3, <2>4 DEF DeliveryDeadlines
<1>2. ToRetry \subseteq Msgs /\ \A m \in ToRetry : via[m] \in Relays \cup {Direct}
  BY DEF ToRetry, TypeOK, Fresh
<1>3. net' \subseteq Envelope
  <2>1. \A m \in ToRetry : Env("chat", m, FirstHop("chat", via[m])) \in Envelope
    BY <1>2, EnvType, NodesAssumption DEF Types, Direct, Unsent
  <2>2. QED
    BY Zenon, <2>1 DEF DeliveryDeadlines, TypeOK
<1>4. attempts' \in [Msgs -> 0..MaxRetries + 1]
  <2> SUFFICES ASSUME NEW m \in Msgs
               PROVE  attempts[m] + (IF m \in ToRetry THEN 1 ELSE 0) \in 0..MaxRetries + 1
    BY Zenon DEF DeliveryDeadlines
  <2>1. attempts[m] \in 0..MaxRetries + 1
    BY DEF TypeOK
  <2>2. CASE m \in ToRetry
    <3>1. m \in pending /\ Active(m) /\ tracker[m].retries > 0
      BY <2>2 DEF ToRetry, Expired
    <3>2. tracker[m].retries \in 0..MaxRetries
      BY <3>1 DEF Active, TypeOK, Entry
    <3>3. attempts[m] + tracker[m].retries = MaxRetries + 1
      BY <3>1 DEF AttemptsBounded
    <3>4. QED
      BY <2>1, <2>2, <3>1, <3>2, <3>3, TimingAssumption
  <2>3. QED
    BY <2>1, <2>2, TimingAssumption
<1>5. DOMAIN tracker' = DOMAIN tracker /\ pending' \subseteq pending
  BY Zenon DEF DeliveryDeadlines
<1>6. QED
  BY Zenon, <1>1, <1>3, <1>4, <1>5 DEF DeliveryDeadlines, TypeOK, recipientVars

\* What an acknowledgement or a read receipt may do to a tracked message: its
\* status only goes up, an open deadline and the retries stay, Delivered and Read
\* come from the recipient, and what leaves the retry cache is no longer active.
AckEffect(e, m) ==
  /\ tracker'[m].retries = tracker[m].retries
  /\ tracker'[m].status >= tracker[m].status
  /\ tracker'[m].status = Failed <=> tracker[m].status = Failed
  /\ tracker'[m].status < Delivered => tracker'[m].deadline = tracker[m].deadline
  /\ tracker'[m].status \in {Delivered, Read} =>
       \/ tracker[m].status \in {Delivered, Read}
       \/ e.type \in {"ack", "read"} /\ e.msg = m
  /\ m \in pending \ pending' => tracker'[m].status >= Delivered

\* RoutingAction::Ack and ReadReceipt have that effect on every tracked message.
LEMMA RecvAtSenderEffect ==
  ASSUME TypeOK, NEW e \in net, RecvAtSender(e)
  PROVE  /\ tracker' \in [DOMAIN tracker -> Entry]
         /\ pending' \subseteq pending
         /\ \A m \in DOMAIN tracker : AckEffect(e, m)
<1>0. \A m \in DOMAIN tracker : /\ tracker[m] \in Entry
                                /\ tracker[m].status \in Int
                                /\ tracker[m].status <= Failed
  BY EntryFields DEF TypeOK
<1> DEFINE Moved(s) ==
      /\ Advance(e.msg, s) \in [DOMAIN tracker -> Entry]
      /\ \A x \in DOMAIN tracker :
           /\ x # e.msg => Advance(e.msg, s)[x] = tracker[x]
           /\ Advance(e.msg, s)[x].retries = tracker[x].retries
           /\ Advance(e.msg, s)[x].deadline = tracker[x].deadline
           /\ Advance(e.msg, s)[x].status =
                IF x = e.msg /\ tracker[x].status # Failed /\ s > tracker[x].status
                THEN s ELSE tracker[x].status
<1>1. Moved(Relayed) /\ Moved(Delivered) /\ Moved(Read)
  <2>1. ASSUME NEW s \in Pending..Read PROVE Moved(s)
    BY AdvanceType
  <2>2. QED
    BY <2>1
<1>2. CASE UNCHANGED <<tracker, pending>>
  BY SMTT(30), <1>0, <1>2 DEF TypeOK, AckEffect
<1>3. CASE Settle(e) /\ e.type = "relayAck"
  <2>1. tracker' = Advance(e.msg, Relayed) /\ pending' = pending
    BY <1>3 DEF Settle, MarkRelayed
  <2>2. QED
    BY <1>0, <1>1, <2>1 DEF AckEffect
<1>4. CASE Settle(e) /\ e.type = "read"
  <2>1. tracker' = Advance(e.msg, Read) /\ pending' = pending
    BY <1>4 DEF Settle, MarkRead
  <2>2. QED
    BY <1>0, <1>1, <1>4, <2>1 DEF AckEffect
<1>5. CASE Settle(e) /\ e.type = "ack"
  <2> DEFINE next == Advance(e.msg, Delivered)
  <2>1. tracker' = MarkDelivered(e.msg) /\ pending' = pending \ {e.msg}
    BY <1>5 DEF Settle
  <2>2. CASE next = tracker
    <3>1. tracker' = tracker
      BY <2>1, <2>2 DEF MarkDelivered
    <3>2. e.msg \in DOMAIN tracker => tracker[e.msg].status >= Delivered
      BY <1>0, <1>1, <2>2
    <3>3. QED
      BY SMTT(30), <1>0, <2>1, <3>1, <3>2 DEF TypeOK, AckEffect
  <2>3. CASE next # tracker
    <3>1. tracker' = [next EXCEPT ![e.msg].deadline = NoDeadline]
      BY <2>1, <2>3 DEF MarkDelivered
    <3>2. e.msg \in DOMAIN tracker /\ tracker[e.msg].status < Delivered
      BY <1>0, <2>3 DEF Advance
    <3>3. next[e.msg] \in Entry /\ next[e.msg].status = Delivered
      BY <1>0, <1>1, <3>2
    <3>4. [next[e.msg] EXCEPT !.deadline = NoDeadline] \in Entry
      BY <3>3, TimingAssumption DEF Entry
    <3>5. DOMAIN next = DOMAIN tracker /\ \A x \in DOMAIN tracker : next[x] \in Entry
      BY <1>1
    <3>6. \A x \in DOMAIN tracker : x # e.msg => next[x] = tracker[x]
      BY <1>1
    <3>7. next[e.msg].retries = tracker[e.msg].retries
      BY <1>1, <3>2
    <3> HIDE DEF next
    <3>8. /\ tracker' \in [DOMAIN tracker -> Entry]
          /\ \A x \in DOMAIN tracker : x # e.msg => tracker'[x] = tracker[x]
          /\ tracker'[e.msg] = [next[e.msg] EXCEPT !.deadline = NoDeadline]
      BY Zenon, <3>1, <3>2, <3>4, <3>5, <3>6
    <3>9. tracker'[e.msg].status = Delivered /\ tracker'[e.msg].retries = tracker[e.msg].retries
      BY <3>3, <3>7, <3>8 DEF Entry
    <3>10. ASSUME NEW m \in DOMAIN tracker, m # e.msg PROVE AckEffect(e, m)
      BY <1>0, <2>1, <3>8, <3>10 DEF AckEffect
    <3>11. AckEffect(e, e.msg)
      BY <1>0, <1>5, <3>2, <3>9 DEF AckEffect
    <3>12. QED
      BY <2>1, <3>8, <3>10, <3>11
  <2>4. QED
    BY <2>2, <2>3
<1>6. QED
  BY <1>2, <1>3, <1>4, <1>5 DEF RecvAtSender, Settle

\* handle_ack and handle_read_receipt keep the types.
LEMMA RecvAtSenderType ==
  ASSUME TypeOK, NEW e \in net, RecvAtSender(e)
  PROVE  TypeOK'
<1>1. net' \subseteq Envelope
  BY DEF RecvAtSender, Exchange, TypeOK
<1>2. DOMAIN ackCache' \subseteq Types \X Msgs /\ ackCache' \in [DOMAIN ackCache' -> 0..AckTTL]
  <2>1. <<e.type, e.msg>> \in Types \X Msgs /\ AckTTL \in 0..AckTTL
    BY SMTT(30), TimingAssumption DEF TypeOK, Envelope
  <2>2. CASE ackCache' = Insert(ackCache, <<e.type, e.msg>>, AckTTL)
    <3>1. /\ DOMAIN ackCache \subseteq Types \X Msgs
          /\ \A k \in DOMAIN ackCache : ackCache[k] \in 0..AckTTL
      BY DEF TypeOK
    <3>2. QED
      BY <2>1, <2>2, <3>1, InsertEffect
  <2>3. QED
    BY <2>2 DEF RecvAtSender, TypeOK
<1>3. /\ DOMAIN tracker' \subseteq Msgs
      /\ tracker' \in [DOMAIN tracker' -> Entry]
      /\ pending' \subseteq Msgs
  BY Zenon, RecvAtSenderEffect DEF TypeOK
<1>4. QED
  BY Zenon, <1>1, <1>2, <1>3 DEF RecvAtSender, TypeOK, recipientVars

\* A nonce joins the cache and, at capacity, only the oldest one leaves it.
LEMMA PushNonceType ==
  ASSUME TypeOK, NEW m \in Msgs
  PROVE  /\ PushNonce(m) \in Seq(Msgs)
         /\ Len(PushNonce(m)) <= NonceCap
         /\ Len(nonceCache) < NonceCap => PushNonce(m) = Append(nonceCache, m)
<1> DEFINE kept == IF Len(nonceCache) < NonceCap THEN nonceCache ELSE Tail(nonceCache)
<1>1. nonceCache \in Seq(Msgs) /\ Len(nonceCache) \in Nat /\ Len(nonceCache) <= NonceCap
  BY DEF TypeOK
<1>2. kept \in Seq(Msgs) /\ Len(kept) < NonceCap
  <2>1. CASE Len(nonceCache) < NonceCap
    BY <1>1, <2>1
  <2>2. CASE ~(Len(nonceCache) < NonceCap)
    <3>1. nonceCache # << >>
      BY <1>1, <2>2, BudgetAssumption
    <3>2. QED
      BY <1>1, <2>2, <3>1, BudgetAssumption
  <2>3. QED
    BY <2>1, <2>2
<1> HIDE DEF kept
<1>3. Append(kept, m) \in Seq(Msgs) /\ Len(Append(kept, m)) = Len(kept) + 1
  BY <1>2
<1>4. PushNonce(m) = Append(kept, m)
  BY DEF PushNonce, kept
<1>5. Len(nonceCache) < NonceCap => kept = nonceCache
  BY DEF kept
<1>6. Len(kept) \in Nat /\ NonceCap \in Nat
  BY <1>2, BudgetAssumption
<1>7. QED
  BY <1>2, <1>3, <1>4, <1>5, <1>6

\* handle_deliver keeps the types.
LEMMA RecvChatType ==
  ASSUME TypeOK, Fresh, NEW e \in net, RecvChat(e)
  PROVE  TypeOK'
<1>1. e \in Envelope /\ e.msg \in Msgs
  BY DEF TypeOK, Envelope
<1>2. CASE IsDuplicate(e.msg)
  <2>1. net' \subseteq Envelope
    BY <1>2 DEF RecvChat, Exchange, TypeOK
  <2>2. QED
    BY SMTT(30), <1>2, <2>1 DEF RecvChat, TypeOK, senderVars, recipientVars
<1>3. CASE ~IsDuplicate(e.msg)
  <2>1. net' \subseteq Envelope
    <3>1. via[e.msg] \in Relays \cup {Direct, Unsent} /\ via[e.msg] # Unsent
      BY <1>1 DEF TypeOK, Fresh, ChatInFlight, RecvChat
    <3>2. Env("ack", e.msg, FirstHop("ack", via[e.msg])) \in Envelope
      BY <1>1, <3>1, EnvType DEF Types
    <3>3. QED
      BY <1>3, <3>2 DEF RecvChat, Exchange, TypeOK
  <2>2. /\ DOMAIN messageCache' \subseteq Msgs
        /\ messageCache' \in [DOMAIN messageCache' -> 0..DedupTTL]
    <3>1. messageCache' = Insert(messageCache, e.msg, DedupTTL) /\ DedupTTL \in 0..DedupTTL
      BY <1>3, TimingAssumption DEF RecvChat
    <3>2. /\ DOMAIN messageCache \subseteq Msgs
          /\ \A k \in DOMAIN messageCache : messageCache[k] \in 0..DedupTTL
      BY DEF TypeOK
    <3>3. QED
      BY <1>1, <3>1, <3>2, InsertEffect
  <2>3. nonceCache' \in Seq(Msgs) /\ Len(nonceCache') <= NonceCap
    BY ZenonT(30), <1>1, <1>3, PushNonceType DEF RecvChat, TypeOK
  <2>4. delivered' \in [Msgs -> 0..MaxCount] /\ acked' \subseteq Msgs
    <3>1. /\ delivered \in [Msgs -> 0..2] /\ acked \subseteq Msgs
          /\ \/ UNCHANGED <<delivered, acked>>
             \/ /\ delivered' = [delivered EXCEPT ![e.msg] = IF @ < 2 THEN @ + 1 ELSE @]
                /\ acked' = acked \cup {e.msg}
      BY SMTT(30), <1>3 DEF RecvChat, TypeOK, MaxCount
    <3>2. QED
      BY <1>1, <3>1 DEF MaxCount
  <2>5. QED
    BY SMTT(30), <2>1, <2>2, <2>3, <2>4 DEF RecvChat, TypeOK, senderVars
<1>4. QED
  BY <1>2, <1>3

\* A crash restores what the last snapshot holds: active messages with their retries.
LEMMA SnapshotType ==
  ASSUME TypeOK
  PROVE  /\ Snapshot \in [DOMAIN Snapshot -> Record]
         /\ DOMAIN Snapshot = {m \in DOMAIN tracker : Active(m)}
         /\ Restored \in [DOMAIN saved -> Entry]
<1>1. \A m \in DOMAIN tracker : tracker[m] \in Entry
  BY DEF TypeOK
<1>2. \A m \in DOMAIN saved : saved[m] \in Record
  BY DEF TypeOK
<1>3. \A m \in DOMAIN tracker : Active(m) => tracker[m].status \in Pending..Relayed
  BY <1>1, EntryFields DEF Active
<1>4. QED
  BY <1>1, <1>2, <1>3, TimingAssumption DEF Snapshot, Restored, Entry, Record

\* A relay's forward keeps the types.
LEMMA ForwardType ==
  ASSUME TypeOK, NEW e \in net, Forward(e)
  PROVE  TypeOK'
<1>1. e.type \in Types /\ e.msg \in Msgs
  BY DEF TypeOK, Envelope
<1>2. net' \subseteq Envelope
  BY <1>1, EnvType DEF Forward, Exchange, TypeOK
<1>3. QED
  BY SMTT(30), <1>2 DEF Forward, TypeOK, senderVars, recipientVars

\* Time does not take a countdown out of its range.
LEMMA ElapsedType == \A n \in Nat : \A k \in 0..n : Elapsed(k) \in 0..n
BY DEF Elapsed

\* The passage of time keeps the types.
LEMMA TickType ==
  ASSUME TypeOK, Tick
  PROVE  TypeOK'
<1>1. tracker' \in [DOMAIN tracker -> Entry]
  <2> SUFFICES ASSUME NEW m \in DOMAIN tracker
               PROVE  [tracker[m] EXCEPT !.deadline = Elapsed(@), !.life = Elapsed(@)] \in Entry
    BY Zenon DEF Tick
  <2>1. tracker[m] \in Entry
    BY DEF TypeOK
  <2>2. Elapsed(tracker[m].deadline) \in NoDeadline..AckDeadline /\ Elapsed(tracker[m].life) \in 0..MaxAge
    BY <2>1, EntryFields, TimingAssumption DEF Elapsed
  <2>3. QED
    BY Zenon, <2>1, <2>2 DEF Entry
<1>2. ackCache' \in [DOMAIN ackCache -> 0..AckTTL]
  <2>1. \A k \in DOMAIN ackCache : ackCache[k] \in 0..AckTTL
    BY DEF TypeOK
  <2>2. QED
    BY Zenon, <2>1, ElapsedType, TimingAssumption DEF Tick
<1>3. messageCache' \in [DOMAIN messageCache -> 0..DedupTTL]
  <2>1. \A k \in DOMAIN messageCache : messageCache[k] \in 0..DedupTTL
    BY DEF TypeOK
  <2>2. QED
    BY Zenon, <2>1, ElapsedType, TimingAssumption DEF Tick
<1>4. QED
  BY Zenon, <1>1, <1>2, <1>3 DEF Tick, TypeOK

\* Every step keeps the types; the bound on the retries keeps `attempts` bounded.
LEMMA TypeStep ==
  ASSUME TypeOK, Fresh, AttemptsBounded, [Next]_vars
  PROVE  TypeOK'
<1>1. ASSUME NEW m \in Msgs, Send(m) PROVE TypeOK'
  BY <1>1, SendType
<1>2. ASSUME NEW e \in net, Forward(e) PROVE TypeOK'
  BY <1>2, ForwardType
<1>3. ASSUME NEW e \in net, RecvChat(e) PROVE TypeOK'
  BY <1>3, RecvChatType
<1>4. ASSUME NEW e \in net, RecvAtSender(e) PROVE TypeOK'
  BY <1>4, RecvAtSenderType
<1>5. ASSUME NEW e \in net, Lose(e) PROVE TypeOK'
  <2>1. faults' \in [loss: 0..MaxLoss, sender: 0..MaxSenderCrash, recipient: 0..MaxRecipientCrash]
    <3>1. /\ faults \in [loss: 0..MaxLoss, sender: 0..MaxSenderCrash, recipient: 0..MaxRecipientCrash]
          /\ faults.loss < MaxLoss
          /\ faults' = [faults EXCEPT !.loss = @ + 1]
      BY <1>5 DEF Lose, TypeOK
    <3>2. faults.loss + 1 \in 0..MaxLoss
      BY <3>1, BudgetAssumption
    <3>3. QED
      BY <3>1, <3>2
  <2>2. QED
    BY SMTT(30), <1>5, <2>1 DEF Lose, TypeOK, senderVars, recipientVars
<1>6. ASSUME NEW m \in Msgs, SendReadReceipt(m) PROVE TypeOK'
  <2>1. \A r \in Relays \cup {Direct} : Env("read", m, FirstHop("read", r)) \in Envelope
    BY EnvType, NodesAssumption DEF Types, Direct, Unsent
  <2>2. net' \subseteq Envelope
    BY <1>6, <2>1 DEF SendReadReceipt, TypeOK
  <2>3. QED
    BY ZenonT(30), <1>6, <2>2 DEF SendReadReceipt, TypeOK, senderVars, recipientVars
<1>7. CASE DeliveryDeadlines
  BY <1>7, DeliveryDeadlinesType
<1>8. CASE TrackerCleanup
  <2>1. /\ DOMAIN tracker' \subseteq Msgs
        /\ tracker' \in [DOMAIN tracker' -> Entry]
        /\ pending' \subseteq Msgs
    BY ZenonT(30), <1>8, UnevictedType DEF TrackerCleanup, TypeOK
  <2>2. QED
    BY <1>8, <2>1 DEF TrackerCleanup, TypeOK, recipientVars
<1>9. CASE SenderCacheCleanup
  <2>1. DOMAIN ackCache' \subseteq Types \X Msgs /\ ackCache' \in [DOMAIN ackCache' -> 0..AckTTL]
    BY <1>9 DEF SenderCacheCleanup, TypeOK, Unexpired, Restrict
  <2>2. QED
    BY SMTT(30), <1>9, <2>1 DEF SenderCacheCleanup, TypeOK, recipientVars
<1>10. CASE RecipientCacheCleanup
  <2>1. /\ DOMAIN messageCache' \subseteq Msgs
        /\ messageCache' \in [DOMAIN messageCache' -> 0..DedupTTL]
    BY <1>10 DEF RecipientCacheCleanup, TypeOK, Unexpired, Restrict
  <2>2. QED
    BY <1>10, <2>1 DEF RecipientCacheCleanup, TypeOK, senderVars
<1>11. CASE SaveState
  <2>1. DOMAIN saved' \subseteq Msgs /\ saved' \in [DOMAIN saved' -> Record]
    BY ZenonT(30), <1>11, SnapshotType DEF SaveState, TypeOK
  <2>2. QED
    BY SMTT(30), <1>11, <2>1 DEF SaveState, TypeOK, recipientVars
<1>12. CASE SenderRestart
  <2>1. DOMAIN tracker' \subseteq Msgs /\ tracker' \in [DOMAIN tracker' -> Entry]
    BY ZenonT(30), <1>12, SnapshotType DEF SenderRestart, TypeOK
  <2>2. faults' \in [loss: 0..MaxLoss, sender: 0..MaxSenderCrash, recipient: 0..MaxRecipientCrash]
    <3>1. /\ faults \in [loss: 0..MaxLoss, sender: 0..MaxSenderCrash, recipient: 0..MaxRecipientCrash]
          /\ faults.sender < MaxSenderCrash
          /\ faults' = [faults EXCEPT !.sender = @ + 1]
      BY <1>12 DEF SenderRestart, TypeOK
    <3>2. faults.sender + 1 \in 0..MaxSenderCrash
      BY <3>1, BudgetAssumption
    <3>3. QED
      BY <3>1, <3>2
  <2>3. DOMAIN ackCache' \subseteq Types \X Msgs /\ ackCache' \in [DOMAIN ackCache' -> 0..AckTTL]
    BY <1>12 DEF SenderRestart, NoEntries
  <2>4. QED
    BY SMTT(30), <1>12, <2>1, <2>2, <2>3 DEF SenderRestart, TypeOK, recipientVars
<1>13. CASE RecipientRestart
  <2>1. faults' \in [loss: 0..MaxLoss, sender: 0..MaxSenderCrash, recipient: 0..MaxRecipientCrash]
    <3>1. /\ faults \in [loss: 0..MaxLoss, sender: 0..MaxSenderCrash, recipient: 0..MaxRecipientCrash]
          /\ faults.recipient < MaxRecipientCrash
          /\ faults' = [faults EXCEPT !.recipient = @ + 1]
      BY <1>13 DEF RecipientRestart, TypeOK
    <3>2. faults.recipient + 1 \in 0..MaxRecipientCrash
      BY <3>1, BudgetAssumption
    <3>3. QED
      BY <3>1, <3>2
  <2>2. /\ DOMAIN messageCache' \subseteq Msgs
        /\ messageCache' \in [DOMAIN messageCache' -> 0..DedupTTL]
        /\ delivered' \in [Msgs -> 0..MaxCount]
    BY <1>13 DEF RecipientRestart, NoEntries, MaxCount
  <2>3. nonceCache' \in Seq(Msgs) /\ Len(nonceCache') <= NonceCap
    BY <1>13, BudgetAssumption DEF RecipientRestart
  <2>4. QED
    BY ZenonT(30), <1>13, <2>1, <2>2, <2>3 DEF RecipientRestart, TypeOK, senderVars
<1>14. CASE Tick
  BY SMTT(30), <1>14, TickType
<1>15. CASE UNCHANGED vars
  BY SMTT(30), <1>15 DEF vars, senderVars, recipientVars, TypeOK
<1>16. QED
  BY SMTT(30), <1>1, <1>2, <1>3, <1>4, <1>5, <1>6, <1>7, <1>8, <1>9, <1>10, <1>11, <1>12, <1>13,
     <1>14, <1>15 DEF Next

-----------------------------------------------------------------------------
(* What a step may do to a live message and to the chat envelopes in flight *)

\* The four ways in which a message is live after a step.
Started(m) ==
  /\ via[m] = Unsent
  /\ tracker'[m] = NewEntry
  /\ attempts'[m] = 1

Kept(m) ==
  /\ Live(m)
  /\ tracker'[m].retries = tracker[m].retries
  /\ tracker'[m].deadline = tracker[m].deadline
  /\ attempts'[m] = attempts[m]
  /\ sweepDue' = sweepDue \/ tracker[m].deadline # 0

Retried(m) ==
  /\ Live(m)
  /\ tracker[m].retries > 0
  /\ tracker[m].deadline = 0
  /\ tracker'[m].retries = tracker[m].retries - 1
  /\ tracker'[m].deadline = AckDeadline
  /\ attempts'[m] = attempts[m] + 1

Aged(m) ==
  /\ Live(m)
  /\ ~sweepDue
  /\ sweepDue'
  /\ tracker'[m].retries = tracker[m].retries
  /\ tracker'[m].deadline = Elapsed(tracker[m].deadline)
  /\ attempts'[m] = attempts[m]

\* A message is live after a step only if it has just been sent, or was live.
LEMMA LiveStep ==
  ASSUME TypeOK, Fresh, [Next]_vars, NEW m \in Msgs, Live(m)'
  PROVE  Started(m) \/ Kept(m) \/ Retried(m) \/ Aged(m)
<1>0. m \in pending' /\ m \in DOMAIN tracker' /\ tracker'[m].status < Delivered
  BY DEF Live, Active
<1>1. ASSUME NEW n \in Msgs, Send(n) PROVE Started(m) \/ Kept(m)
  <2>1. CASE m = n
    <3>1. via[m] = Unsent /\ m \notin DOMAIN tracker
      BY <1>1, <2>1 DEF Send, Fresh
    <3>2. tracker'[m] = NewEntry
      BY SMTT(30), <1>0, <1>1, <2>1, <3>1, TrackType DEF Send
    <3>3. attempts'[m] = 1
      BY SMTT(30), <1>1, <2>1 DEF Send, TypeOK
    <3>4. QED
      BY <3>1, <3>2, <3>3 DEF Started
  <2>2. CASE m # n
    <3>1. m \in DOMAIN tracker /\ tracker'[m] = tracker[m]
      BY <1>0, <1>1, <2>2, TrackType DEF Send
    <3>2. m \in pending /\ attempts'[m] = attempts[m] /\ sweepDue' = sweepDue
      BY SMTT(30), <1>0, <1>1, <2>2 DEF Send, TypeOK
    <3>3. QED
      BY <1>0, <3>1, <3>2 DEF Kept, Live, Active
  <2>3. QED
    BY <2>1, <2>2
<1>2. CASE UNCHANGED <<tracker, pending, attempts, sweepDue>>
  BY SMTT(30), <1>0, <1>2 DEF Kept, Live, Active
<1>3. ASSUME NEW e \in net, RecvAtSender(e) PROVE Kept(m)
  <2>1. m \in DOMAIN tracker /\ AckEffect(e, m) /\ m \in pending
    BY <1>0, <1>3, RecvAtSenderEffect
  <2>2. tracker[m].status \in Int /\ tracker'[m].status \in Int
    <3>1. tracker[m] \in Entry /\ tracker'[m] \in Entry
      BY SMTT(30), <1>3, <2>1, RecvAtSenderEffect DEF TypeOK
    <3>2. QED
      BY SMTT(30), <3>1, EntryFields
  <2>3. UNCHANGED <<attempts, sweepDue>>
    BY ZenonT(30), <1>3 DEF RecvAtSender
  <2>4. QED
    BY <1>0, <2>1, <2>2, <2>3 DEF AckEffect, Kept, Live, Active
<1>4. CASE DeliveryDeadlines
  <2>1. m \in DOMAIN tracker /\ m \in pending /\ m \notin ToFail
    BY Zenon, <1>0, <1>4 DEF DeliveryDeadlines
  <2>2. tracker[m] \in Entry
    BY <2>1 DEF TypeOK
  <2>3. CASE m \in ToRetry
    <3>1. tracker'[m] = Rearmed(tracker[m]) /\ attempts'[m] = attempts[m] + 1
      BY Zenon, <1>4, <2>1, <2>3 DEF DeliveryDeadlines
    <3>2. /\ tracker'[m].retries = tracker[m].retries - 1
          /\ tracker'[m].deadline = AckDeadline
      BY SMTT(30), <2>2, <3>1 DEF Rearmed, Entry
    <3>3. QED
      BY <2>1, <2>3, <3>1, <3>2 DEF Retried, Live, ToRetry, Expired
  <2>4. CASE m \notin ToRetry
    <3>1. tracker'[m] = tracker[m] /\ attempts'[m] = attempts[m] + 0
      BY Zenon, <1>4, <2>1, <2>4 DEF DeliveryDeadlines
    <3>2. attempts'[m] = attempts[m]
      BY <3>1 DEF TypeOK
    <3>3. Active(m) /\ tracker[m].deadline # 0
      BY SMTT(30), <1>0, <2>1, <2>2, <2>4, <3>1, EntryFields DEF Active, ToRetry, ToFail, Expired
    <3>4. QED
      BY <2>1, <3>1, <3>2, <3>3 DEF Kept, Live
  <2>5. QED
    BY <2>3, <2>4
<1>5. CASE TrackerCleanup
  <2>1. m \in DOMAIN tracker /\ tracker'[m] = tracker[m] /\ m \in pending
    BY Zenon, <1>0, <1>5, UnevictedType DEF TrackerCleanup, TypeOK
  <2>2. QED
    BY <1>0, <1>5, <2>1 DEF TrackerCleanup, Kept, Live, Active
<1>6. CASE SenderRestart
  BY <1>0, <1>6 DEF SenderRestart
<1>7. CASE Tick
  <2>1. /\ m \in DOMAIN tracker /\ m \in pending
        /\ tracker'[m] = [tracker[m] EXCEPT !.deadline = Elapsed(@), !.life = Elapsed(@)]
    BY Zenon, <1>0, <1>7 DEF Tick
  <2>2. tracker[m] \in Entry
    BY <2>1 DEF TypeOK
  <2>3. /\ tracker'[m].status = tracker[m].status
        /\ tracker'[m].retries = tracker[m].retries
        /\ tracker'[m].deadline = Elapsed(tracker[m].deadline)
    BY <2>1, <2>2 DEF Entry
  <2>4. QED
    BY Zenon, <1>0, <1>7, <2>1, <2>3 DEF Tick, Aged, Live, Active
<1>8. QED
  BY Zenon, <1>1, <1>2, <1>3, <1>4, <1>5, <1>6, <1>7
  DEF Next, vars, senderVars, Forward, RecvChat, Lose, SendReadReceipt, SenderCacheCleanup,
      SaveState, RecipientCacheCleanup, RecipientRestart

\* A chat envelope in flight was there before, or the sender has just (re)sent it.
LEMMA ChatStep ==
  ASSUME TypeOK, [Next]_vars, NEW m \in Msgs, ChatInFlight(m)'
  PROVE  \/ ChatInFlight(m)
         \/ Send(m)
         \/ DeliveryDeadlines /\ m \in ToRetry
<1>0. PICK c \in net' : c.type = "chat" /\ c.msg = m
  BY DEF ChatInFlight
<1>1. ASSUME NEW n \in Msgs, Send(n) PROVE ChatInFlight(m) \/ Send(m)
  <2>1. c \in net \/ \E r \in Relays \cup {Direct} : c = Env("chat", n, FirstHop("chat", r))
    BY <1>0, <1>1 DEF Send
  <2>2. c \in net \/ n = m
    BY <1>0, <2>1 DEF Env
  <2>3. QED
    BY <1>0, <1>1, <2>2 DEF ChatInFlight
<1>2. ASSUME NEW e \in net, Forward(e) PROVE ChatInFlight(m)
  <2>1. c \in net \/ c = Env(e.type, e.msg, FinalHop(e.type)) \/ c = Env("relayAck", e.msg, Sender)
    BY <1>0, <1>2 DEF Forward, Exchange
  <2>2. c \in net \/ (e.type = "chat" /\ e.msg = m)
    BY SMTT(30), <1>0, <2>1 DEF Env
  <2>3. QED
    BY <1>0, <2>2 DEF ChatInFlight
<1>3. ASSUME NEW e \in net, RecvChat(e) PROVE ChatInFlight(m)
  BY SMTT(30), <1>0, <1>3 DEF RecvChat, Exchange, ChatInFlight, Env
<1>4. ASSUME NEW e \in net, RecvAtSender(e) PROVE ChatInFlight(m)
  BY <1>0, <1>4 DEF RecvAtSender, Exchange, ChatInFlight
<1>5. ASSUME NEW e \in net, Lose(e) PROVE ChatInFlight(m)
  BY <1>0, <1>5 DEF Lose, ChatInFlight
<1>6. ASSUME NEW n \in Msgs, SendReadReceipt(n) PROVE ChatInFlight(m)
  BY <1>0, <1>6 DEF SendReadReceipt, ChatInFlight, Env
<1>7. CASE DeliveryDeadlines
  <2>1. c \in net \/ \E n \in ToRetry : c = Env("chat", n, FirstHop("chat", via[n]))
    BY Zenon, <1>0, <1>7 DEF DeliveryDeadlines
  <2>2. c \in net \/ m \in ToRetry
    BY <1>0, <2>1 DEF Env
  <2>3. QED
    BY <1>0, <1>7, <2>2 DEF ChatInFlight
<1>8. CASE UNCHANGED net
  BY <1>0, <1>8 DEF ChatInFlight
<1>9. QED
  BY Zenon, <1>1, <1>2, <1>3, <1>4, <1>5, <1>6, <1>7, <1>8
  DEF Next, vars, TrackerCleanup, SenderCacheCleanup, RecipientCacheCleanup, SaveState,
      SenderRestart, RecipientRestart, Tick

-----------------------------------------------------------------------------
(* Every step preserves the conjuncts of IInv *)

\* The time in which m may still be sent again shrinks or stays.
LEMMA WindowArithmetic ==
  ASSUME NEW n \in Nat, NEW d \in Nat
  PROVE  /\ n * AckDeadline + d \in Nat
         /\ n > 0 => /\ (n - 1) * AckDeadline + AckDeadline = n * AckDeadline
                     /\ n * AckDeadline > 0
         /\ n <= MaxRetries /\ d <= AckDeadline => n * AckDeadline + d <= DedupTTL
<1>1. n * AckDeadline \in Nat
  BY TimingAssumption
<1>2. n > 0 => /\ (n - 1) * AckDeadline + AckDeadline = n * AckDeadline
               /\ n * AckDeadline > 0
  BY TimingAssumption
<1>3. ASSUME n <= MaxRetries, d <= AckDeadline PROVE n * AckDeadline + d <= DedupTTL
  <2>1. n * AckDeadline <= MaxRetries * AckDeadline
    BY <1>3, TimingAssumption
  <2>2. (MaxRetries + 1) * AckDeadline = MaxRetries * AckDeadline + AckDeadline
    BY TimingAssumption
  <2>3. MaxRetries * AckDeadline \in Nat
    BY SMTT(30), TimingAssumption
  <2>4. QED
    BY <1>1, <1>3, <2>1, <2>2, <2>3, DedupWindowAssumption, TimingAssumption
<1>4. QED
  BY <1>1, <1>2, <1>3

\* Attempts made and retries left keep adding up, as a retry moves one to the other.
LEMMA AttemptsStep ==
  ASSUME TypeOK, TypeOK', Fresh, AttemptsBounded, [Next]_vars
  PROVE  AttemptsBounded'
<1> SUFFICES ASSUME NEW m \in Msgs
             PROVE  /\ attempts'[m] <= MaxRetries + 1
                    /\ Live(m)' => attempts'[m] + tracker'[m].retries = MaxRetries + 1
  BY SMTT(30) DEF AttemptsBounded, Live
<1>1. attempts[m] \in Nat /\ attempts'[m] \in 0..MaxRetries + 1
  BY SMTT(30), TimingAssumption DEF TypeOK
<1>2. Live(m) => /\ attempts[m] + tracker[m].retries = MaxRetries + 1
                 /\ tracker[m].retries \in Int
  BY SMTT(30), EntryFields DEF Live, Active, AttemptsBounded, TypeOK
<1>3. Started(m) => attempts'[m] = 1 /\ tracker'[m].retries = MaxRetries
  BY DEF Started, NewEntry
<1>4. QED
  BY SMTT(30), <1>1, <1>2, <1>3, LiveStep, TimingAssumption DEF Kept, Retried, Aged

\* Every live message keeps a deadline, and a sweep pushes it into the future.
LEMMA DeadlinesStep ==
  ASSUME TypeOK, Fresh, DeadlinesArmed, [Next]_vars
  PROVE  DeadlinesArmed'
<1> SUFFICES ASSUME NEW m \in Msgs, Live(m)'
             PROVE  /\ tracker'[m].deadline >= 0
                    /\ ~sweepDue' => tracker'[m].deadline > 0
  BY SMTT(30) DEF DeadlinesArmed
<1>1. Live(m) => /\ tracker[m].deadline \in Int
                 /\ tracker[m].deadline >= 0
                 /\ ~sweepDue => tracker[m].deadline > 0
  BY SMTT(30), EntryFields DEF Live, Active, DeadlinesArmed, TypeOK
<1>2. Started(m) => tracker'[m].deadline = AckDeadline
  BY SMTT(30), ZenonT(30) DEF Started, NewEntry
<1>3. QED
  BY <1>1, <1>2, LiveStep, TimingAssumption DEF Kept, Retried, Aged, Elapsed

\* Nothing mentions a message before it is sent.
LEMMA FreshStep ==
  ASSUME TypeOK, Fresh, [Next]_vars
  PROVE  Fresh'
<1> SUFFICES ASSUME NEW m \in Msgs, via'[m] = Unsent
             PROVE  /\ m \notin DOMAIN tracker'
                    /\ m \notin DOMAIN saved'
                    /\ m \notin pending'
                    /\ attempts'[m] = 0
                    /\ delivered'[m] = 0
                    /\ ~ChatInFlight(m)'
  BY DEF Fresh
<1> USE DEF senderVars, recipientVars
<1>1. ~Send(m)
  <2>1. ASSUME Send(m) PROVE FALSE
    <3>1. PICK r \in Relays \cup {Direct} : via' = [via EXCEPT ![m] = r]
      BY Zenon, <2>1 DEF Send
    <3>2. via'[m] = r
      BY <3>1 DEF TypeOK
    <3>3. QED
      BY <3>2, NodesAssumption DEF Direct, Unsent
  <2>2. QED
    BY <2>1
<1>2. via[m] = Unsent
  <2>1. ASSUME NEW n \in Msgs, Send(n), n # m PROVE via[m] = via'[m]
    BY <2>1 DEF Send, TypeOK
  <2>2. QED
    BY ZenonT(30), <1>1, <2>1 DEF Next, vars, Forward, RecvChat, RecvAtSender, Lose, SendReadReceipt,
         DeliveryDeadlines, TrackerCleanup, SenderCacheCleanup, RecipientCacheCleanup,
         SaveState, SenderRestart, RecipientRestart, Tick
<1>3. /\ m \notin DOMAIN tracker /\ m \notin DOMAIN saved /\ m \notin pending
      /\ attempts[m] = 0 /\ delivered[m] = 0 /\ ~ChatInFlight(m)
  BY <1>2 DEF Fresh
<1>4. ~ChatInFlight(m)'
  BY SMTT(30), <1>1, <1>3, ChatStep DEF ToRetry
<1>5. ASSUME NEW n \in Msgs, Send(n)
      PROVE  /\ m \notin DOMAIN tracker' /\ m \notin DOMAIN saved' /\ m \notin pending'
             /\ attempts'[m] = 0 /\ delivered'[m] = 0
  <2>1. n # m
    BY SMTT(30), <1>1, <1>5
  <2>2. m \notin DOMAIN tracker'
    BY SMTT(30), <1>3, <1>5, <2>1, TrackType DEF Send
  <2>3. attempts'[m] = attempts[m]
    BY SMTT(30), <1>5, <2>1 DEF Send, TypeOK
  <2>4. QED
    BY ZenonT(30), <1>3, <1>5, <2>1, <2>2, <2>3 DEF Send
<1>6. ASSUME NEW e \in net, RecvChat(e)
      PROVE  /\ m \notin DOMAIN tracker' /\ m \notin DOMAIN saved' /\ m \notin pending'
             /\ attempts'[m] = 0 /\ delivered'[m] = 0
  <2>1. e.msg # m
    BY ZenonT(30), <1>3, <1>6 DEF ChatInFlight, RecvChat
  <2>2. delivered'[m] = delivered[m]
    BY SMTT(30), <1>6, <2>1 DEF RecvChat, TypeOK
  <2>3. UNCHANGED <<tracker, saved, pending, attempts>>
    BY Zenon, <1>6 DEF RecvChat
  <2>4. QED
    BY ZenonT(30), <1>3, <2>2, <2>3
<1>7. ASSUME NEW e \in net, RecvAtSender(e)
      PROVE  m \notin DOMAIN tracker' /\ m \notin pending'
  BY SMTT(30), <1>3, <1>7, RecvAtSenderEffect
<1>8. CASE DeliveryDeadlines
  <2>1. m \notin ToRetry
    BY <1>3 DEF ToRetry
  <2>2. QED
    <3>1. attempts'[m] = attempts[m] + 0
      BY Zenon, <1>8, <2>1 DEF DeliveryDeadlines
    <3>2. DOMAIN tracker' = DOMAIN tracker /\ pending' \subseteq pending
      BY Zenon, <1>8 DEF DeliveryDeadlines
    <3>3. UNCHANGED <<saved, delivered>>
      BY ZenonT(30), <1>8 DEF DeliveryDeadlines
    <3>4. QED
      BY <1>3, <1>4, <3>1, <3>2, <3>3
<1>9. CASE TrackerCleanup
  BY ZenonT(30), <1>3, <1>4, <1>9, UnevictedType DEF TrackerCleanup, TypeOK
<1>10. CASE SaveState
  BY <1>3, <1>4, <1>10, SnapshotType DEF SaveState
<1>11. CASE SenderRestart
  BY <1>3, <1>4, <1>11, SnapshotType DEF SenderRestart
<1>12. CASE RecipientRestart
  BY <1>3, <1>4, <1>12 DEF RecipientRestart
<1>13. CASE Tick
  BY Zenon, <1>3, <1>4, <1>13 DEF Tick
<1>14. QED
  BY ZenonT(30), <1>3, <1>4, <1>5, <1>6, <1>7, <1>8, <1>9, <1>10, <1>11, <1>12, <1>13
  DEF Next, vars, Forward, RecvAtSender, Lose, SendReadReceipt, SenderCacheCleanup,
      RecipientCacheCleanup

\* Only the recipient creates acknowledgements and read receipts, for messages it
\* has acknowledged, and nothing is ever removed from `acked`.
LEMMA AcksStep ==
  ASSUME TypeOK, AcksAreGenuine, [Next]_vars
  PROVE  AcksAreGenuine' /\ acked \subseteq acked'
<1> USE DEF senderVars, recipientVars
<1>1. acked \subseteq acked'
  BY Zenon DEF Next, vars, Send, Forward, RecvChat, RecvAtSender, Lose, SendReadReceipt,
         DeliveryDeadlines, TrackerCleanup, SenderCacheCleanup, RecipientCacheCleanup,
         SaveState, SenderRestart, RecipientRestart, Tick
<1> SUFFICES ASSUME NEW a \in net', a.type \in {"ack", "read"}
             PROVE  a.msg \in acked'
  BY <1>1 DEF AcksAreGenuine
<1>2. CASE a \in net
  BY <1>1, <1>2 DEF AcksAreGenuine
<1>3. ASSUME NEW m \in Msgs, Send(m) PROVE a \in net
  BY <1>3 DEF Send, Env
<1>4. ASSUME NEW e \in net, Forward(e) PROVE a \in net \/ (e.type = a.type /\ e.msg = a.msg)
  <2>1. a \in net \/ a = Env(e.type, e.msg, FinalHop(e.type)) \/ a = Env("relayAck", e.msg, Sender)
    BY SMTT(30), <1>4 DEF Forward, Exchange
  <2>2. QED
    BY <2>1 DEF Env
<1>5. ASSUME NEW e \in net, RecvChat(e) PROVE a \in net \/ a.msg \in acked'
  BY <1>5 DEF RecvChat, Exchange, Env
<1>6. ASSUME NEW e \in net, RecvAtSender(e) PROVE a \in net
  BY <1>6 DEF RecvAtSender, Exchange
<1>7. ASSUME NEW m \in Msgs, SendReadReceipt(m) PROVE a \in net \/ a.msg \in acked'
  <2>1. a \in net \/ \E r \in Relays \cup {Direct} : a = Env("read", m, FirstHop("read", r))
    BY <1>7 DEF SendReadReceipt
  <2>2. QED
    BY <1>7, <2>1 DEF SendReadReceipt, Env
<1>8. CASE DeliveryDeadlines
  <2>1. a \in net \/ \E n \in ToRetry : a = Env("chat", n, FirstHop("chat", via[n]))
    BY Zenon, <1>8 DEF DeliveryDeadlines
  <2>2. QED
    BY <1>2, <2>1 DEF Env
<1>9. QED
  BY ZenonT(30), <1>1, <1>2, <1>3, <1>4, <1>5, <1>6, <1>7, <1>8
  DEF AcksAreGenuine, Next, vars, Lose, TrackerCleanup, SenderCacheCleanup,
      RecipientCacheCleanup, SaveState, SenderRestart, RecipientRestart, Tick

\* Delivered and Read only come from genuine acknowledgements.
LEMMA DeliveredMeansAckedStep ==
  ASSUME TypeOK, Fresh, AcksAreGenuine, DeliveredMeansAcked, [Next]_vars
  PROVE  DeliveredMeansAcked'
<1> SUFFICES ASSUME NEW m \in DOMAIN tracker', tracker'[m].status \in {Delivered, Read}
             PROVE  m \in acked'
  BY DEF DeliveredMeansAcked
<1>0. acked \subseteq acked'
  BY AcksStep
<1>1. CASE m \in DOMAIN tracker /\ tracker[m].status \in {Delivered, Read}
  BY <1>0, <1>1 DEF DeliveredMeansAcked
<1>2. ASSUME NEW n \in Msgs, Send(n)
      PROVE  m \in DOMAIN tracker /\ tracker[m].status \in {Delivered, Read}
  <2>1. NewEntry.status \notin {Delivered, Read}
    BY DEF NewEntry
  <2>2. QED
    BY <1>2, <2>1, TrackType DEF Send
<1>3. ASSUME NEW e \in net, RecvAtSender(e)
      PROVE  \/ m \in acked
             \/ m \in DOMAIN tracker /\ tracker[m].status \in {Delivered, Read}
  BY <1>3, RecvAtSenderEffect DEF AckEffect, AcksAreGenuine
<1>4. CASE DeliveryDeadlines
  <2>1. m \in DOMAIN tracker /\ tracker[m] \in Entry
    BY Zenon, <1>4 DEF DeliveryDeadlines, TypeOK
  <2>2. \/ tracker'[m] = tracker[m]
        \/ tracker'[m] = Rearmed(tracker[m])
        \/ tracker'[m] = [tracker[m] EXCEPT !.status = Failed, !.deadline = NoDeadline]
    BY Zenon, <1>4, <2>1 DEF DeliveryDeadlines
  <2>3. tracker'[m].status = tracker[m].status \/ tracker'[m].status = Failed
    BY Zenon, <2>1, <2>2 DEF Rearmed, Entry
  <2>4. QED
    BY <1>1, <2>1, <2>3
<1>5. CASE TrackerCleanup
  BY Zenon, <1>1, <1>5, UnevictedType DEF TrackerCleanup, TypeOK
<1>6. CASE SenderRestart
  <2>1. m \in DOMAIN saved /\ tracker'[m].status = saved[m].status
    BY <1>6 DEF SenderRestart, Restored
  <2>2. saved[m].status \in Pending..Relayed
    BY <2>1 DEF TypeOK, Record
  <2>3. QED
    BY <2>1, <2>2
<1>7. CASE Tick
  <2>1. m \in DOMAIN tracker /\ tracker[m] \in Entry
    BY Zenon, <1>7 DEF Tick, TypeOK
  <2>2. tracker'[m] = [tracker[m] EXCEPT !.deadline = Elapsed(@), !.life = Elapsed(@)]
    BY Zenon, <1>7, <2>1 DEF Tick
  <2>3. tracker'[m].status = tracker[m].status
    BY <2>1, <2>2 DEF Entry
  <2>4. QED
    BY <1>1, <2>1, <2>3
<1>8. CASE UNCHANGED tracker
  BY <1>1, <1>8
<1>9. QED
  BY ZenonT(30), <1>0, <1>1, <1>2, <1>3, <1>4, <1>5, <1>6, <1>7, <1>8
  DEF Next, vars, senderVars, Forward, RecvChat, Lose, SendReadReceipt, SenderCacheCleanup,
      RecipientCacheCleanup, SaveState, RecipientRestart

\* The retry cache loses an envelope only when its message is no longer active.
LEMMA RetryHasEnvelopeStep ==
  ASSUME TypeOK, Fresh, RetryHasEnvelope, [Next]_vars
  PROVE  RetryHasEnvelope'
<1> SUFFICES ASSUME faults'.sender = 0, NEW m \in DOMAIN tracker', Active(m)'
             PROVE  m \in pending'
  BY DEF RetryHasEnvelope
<1>0. tracker'[m].status < Delivered
  BY DEF Active
<1> USE DEF senderVars, recipientVars
<1>1. ~SenderRestart /\ faults.sender = 0
  <2>1. faults \in [loss: 0..MaxLoss, sender: 0..MaxSenderCrash, recipient: 0..MaxRecipientCrash]
    BY DEF TypeOK
  <2>2. ~SenderRestart
    BY <2>1 DEF SenderRestart
  <2>3. ASSUME NEW e \in net, Lose(e) PROVE faults'.sender = faults.sender
    BY <2>1, <2>3 DEF Lose
  <2>4. CASE RecipientRestart
    BY <2>1, <2>2, <2>4 DEF RecipientRestart
  <2>5. QED
    BY ZenonT(30), <2>2, <2>3, <2>4 DEF Next, vars, Send, Forward, RecvChat, RecvAtSender, SendReadReceipt,
         DeliveryDeadlines, TrackerCleanup, SenderCacheCleanup, RecipientCacheCleanup,
         SaveState, Tick
<1>2. m \in DOMAIN tracker /\ Active(m) => m \in pending
  BY SMTT(30), <1>1 DEF RetryHasEnvelope
<1>3. ASSUME NEW n \in Msgs, Send(n) PROVE m \in pending'
  <2>1. m = n \/ (m \in DOMAIN tracker /\ tracker'[m] = tracker[m])
    BY <1>3, TrackType DEF Send
  <2>2. QED
    BY SMTT(30), <1>0, <1>2, <1>3, <2>1 DEF Send, Active
<1>4. ASSUME NEW e \in net, RecvAtSender(e) PROVE m \in pending'
  <2>1. m \in DOMAIN tracker /\ AckEffect(e, m)
    BY <1>4, RecvAtSenderEffect
  <2>2. tracker[m].status \in Int /\ tracker'[m].status \in Int
    <3>1. tracker[m] \in Entry /\ tracker'[m] \in Entry
      BY SMTT(30), <1>4, <2>1, RecvAtSenderEffect DEF TypeOK
    <3>2. QED
      BY SMTT(30), <3>1, EntryFields
  <2>3. QED
    BY <1>0, <1>2, <2>1, <2>2 DEF AckEffect, Active
<1>5. CASE DeliveryDeadlines
  <2>1. m \in DOMAIN tracker /\ tracker[m] \in Entry
    BY Zenon, <1>5 DEF DeliveryDeadlines, TypeOK
  <2>2. m \notin ToFail
    <3>1. ASSUME m \in ToFail PROVE FALSE
      <4>1. m \notin ToRetry
        BY <3>1 DEF ToFail, ToRetry
      <4>2. tracker'[m] = [tracker[m] EXCEPT !.status = Failed, !.deadline = NoDeadline]
        BY Zenon, <1>5, <2>1, <3>1, <4>1 DEF DeliveryDeadlines
      <4>3. tracker'[m].status = Failed
        BY <2>1, <4>2 DEF Entry
      <4>4. QED
        BY <1>0, <4>3
    <3>2. QED
      BY <3>1
  <2>3. tracker'[m] = tracker[m] \/ m \in ToRetry
    BY ZenonT(30), <1>5, <2>1, <2>2 DEF DeliveryDeadlines
  <2>4. QED
    BY Zenon, <1>0, <1>2, <1>5, <2>1, <2>2, <2>3 DEF DeliveryDeadlines, ToRetry, Active
<1>6. CASE TrackerCleanup
  <2>1. m \in DOMAIN tracker /\ tracker'[m] = tracker[m]
    BY Zenon, <1>6, UnevictedType DEF TrackerCleanup, TypeOK
  <2>2. QED
    BY ZenonT(30), <1>0, <1>2, <1>6, <2>1 DEF TrackerCleanup, Active
<1>7. CASE Tick
  <2>1. m \in DOMAIN tracker /\ tracker[m] \in Entry
    BY Zenon, <1>7 DEF Tick, TypeOK
  <2>2. tracker'[m] = [tracker[m] EXCEPT !.deadline = Elapsed(@), !.life = Elapsed(@)]
    BY Zenon, <1>7, <2>1 DEF Tick
  <2>3. tracker'[m].status = tracker[m].status
    BY <2>1, <2>2 DEF Entry
  <2>4. QED
    BY Zenon, <1>0, <1>2, <1>7, <2>1, <2>3 DEF Tick, Active
<1>8. CASE UNCHANGED <<tracker, pending>>
  BY SMTT(30), <1>0, <1>2, <1>8 DEF Active
<1>9. QED
  BY ZenonT(30), <1>1, <1>3, <1>4, <1>5, <1>6, <1>7, <1>8
  DEF Next, vars, Forward, RecvChat, Lose, SendReadReceipt, SenderCacheCleanup,
      RecipientCacheCleanup, SaveState, RecipientRestart

\* The dedup entry of a delivered message outlives its copies in flight and its
\* retries: the retry window only shrinks while the entry ages by the same time.
LEMMA DedupStep ==
  ASSUME TypeOK, Fresh, DeadlinesArmed, DedupOutlivesRetries, [Next]_vars
  PROVE  DedupOutlivesRetries'
<1> SUFFICES ASSUME Timely, NEW m \in Msgs, delivered'[m] > 0
             PROVE  /\ ChatInFlight(m)' => m \in DOMAIN messageCache' /\ messageCache'[m] > 0
                    /\ Live(m)' /\ RetryWindow(m)' > 0 =>
                         m \in DOMAIN messageCache' /\ messageCache'[m] >= RetryWindow(m)'
  BY DEF DedupOutlivesRetries
<1> USE DEF senderVars, recipientVars
<1> DEFINE Covered(w) == w > 0 => m \in DOMAIN messageCache /\ messageCache[m] >= w
\* What is known of m before the step, when it has been delivered by then.
<1>1. Live(m) => /\ tracker[m].retries \in Nat /\ tracker[m].retries <= MaxRetries
                 /\ tracker[m].deadline \in Nat /\ tracker[m].deadline <= AckDeadline
                 /\ ~sweepDue => tracker[m].deadline > 0
  BY SMTT(30), EntryFields DEF Live, Active, DeadlinesArmed, TypeOK
<1>2. m \in DOMAIN messageCache => messageCache[m] \in Nat
  BY TimingAssumption DEF TypeOK
<1>3. ASSUME delivered[m] > 0
      PROVE  /\ ~Started(m) /\ ~Send(m)
             /\ ChatInFlight(m) => m \in DOMAIN messageCache /\ messageCache[m] > 0
             /\ Live(m) => Covered(RetryWindow(m))
  BY SMTT(30), ZenonT(30), <1>3, TimingAssumption DEF Fresh, Started, Send, DedupOutlivesRetries
\* The window of m after the step, unless time passes.
<1>4. ASSUME ~Tick, delivered[m] > 0, Live(m)'
      PROVE  Live(m) /\ RetryWindow(m)' = RetryWindow(m)
  <2>1. ~Aged(m)
    <3>1. ASSUME sweepDue' # sweepDue, sweepDue' PROVE FALSE
      BY ZenonT(30), <1>4, <3>1 DEF Next, vars, Send, Forward, RecvChat, RecvAtSender, Lose, SendReadReceipt,
         DeliveryDeadlines, TrackerCleanup, SenderCacheCleanup, RecipientCacheCleanup,
         SaveState, SenderRestart, RecipientRestart
    <3>2. QED
      BY ZenonT(30), <3>1 DEF Aged
  <2>2. CASE Kept(m)
    BY SMTT(30), <2>2 DEF Kept, RetryWindow
  <2>3. CASE Retried(m)
    <3>1. /\ Live(m) /\ tracker[m].retries \in Nat /\ tracker[m].retries > 0
          /\ RetryWindow(m) = tracker[m].retries * AckDeadline + 0
          /\ RetryWindow(m)' = (tracker[m].retries - 1) * AckDeadline + AckDeadline
      BY SMTT(30), <1>1, <2>3 DEF Retried, RetryWindow
    <3>2. /\ (tracker[m].retries - 1) * AckDeadline + AckDeadline = tracker[m].retries * AckDeadline
          /\ tracker[m].retries * AckDeadline \in Nat
      BY SMTT(30), <3>1, TimingAssumption
    <3>3. QED
      BY SMTT(30), <3>1, <3>2
  <2>4. QED
    BY SMTT(30), ZenonT(30), <1>3, <1>4, <2>1, <2>2, <2>3, LiveStep
\* Steps that leave the recipient alone.
<1>5. CASE UNCHANGED <<messageCache, delivered>> /\ ~Tick
  <2>1. ASSUME ChatInFlight(m)' PROVE m \in DOMAIN messageCache /\ messageCache[m] > 0
    <3>1. CASE ChatInFlight(m)
      BY SMTT(30), <1>3, <1>5, <3>1
    <3>2. CASE m \in ToRetry
      <4>1. /\ Live(m) /\ tracker[m].retries > 0
            /\ RetryWindow(m) = tracker[m].retries * AckDeadline + 0
        BY SMTT(30), <3>2 DEF ToRetry, Expired, Live, RetryWindow
      <4>2. RetryWindow(m) > 0
        BY SMTT(30), <1>1, <4>1, WindowArithmetic, TimingAssumption
      <4>3. RetryWindow(m) \in Nat
        BY SMTT(30), <1>1, <4>1, WindowArithmetic
      <4>4. QED
        BY SMTT(30), <1>2, <1>3, <1>5, <4>1, <4>2, <4>3
    <3>3. QED
      BY SMTT(30), <1>3, <1>5, <2>1, <3>1, <3>2, ChatStep
  <2>2. QED
    BY SMTT(30), ZenonT(30), <1>3, <1>4, <1>5, <2>1
<1>6. CASE Tick
  <2>1. ~ChatInFlight(m)' /\ delivered[m] > 0
    BY ZenonT(30), <1>6 DEF Tick, ChatInFlight
  <2>2. SUFFICES ASSUME Live(m)', RetryWindow(m)' > 0
                 PROVE  m \in DOMAIN messageCache' /\ messageCache'[m] >= RetryWindow(m)'
    BY <2>1
  <2>3. /\ m \in DOMAIN tracker /\ m \in pending
        /\ tracker'[m] = [tracker[m] EXCEPT !.deadline = Elapsed(@), !.life = Elapsed(@)]
    BY Zenon, <1>6, <2>2 DEF Tick, Live, Active
  <2>4. tracker[m] \in Entry
    BY <2>3 DEF TypeOK
  <2>5. /\ tracker'[m].status = tracker[m].status
        /\ tracker'[m].retries = tracker[m].retries
        /\ tracker'[m].deadline = Elapsed(tracker[m].deadline)
    BY <2>3, <2>4 DEF Entry
  <2>6. Live(m) /\ ~sweepDue
    BY ZenonT(30), <1>6, <2>2, <2>3, <2>5 DEF Tick, Live, Active
  <2>7. RetryWindow(m) \in Nat /\ RetryWindow(m)' = RetryWindow(m) - 1
    <3>1. tracker[m].retries * AckDeadline \in Int
      BY <1>1, <2>6, TimingAssumption
    <3>2. RetryWindow(m) = tracker[m].retries * AckDeadline + tracker[m].deadline
      BY SMTT(30) DEF RetryWindow
    <3>3. RetryWindow(m)' = tracker[m].retries * AckDeadline + (tracker[m].deadline - 1)
      BY <1>1, <2>5, <2>6 DEF RetryWindow, Elapsed
    <3>4. RetryWindow(m) \in Nat
      BY ZenonT(30), <1>1, <2>6, <3>2, WindowArithmetic
    <3>5. QED
      BY SMTT(30), <1>1, <2>6, <3>1, <3>2, <3>3, <3>4
  <2>8. m \in DOMAIN messageCache /\ messageCache[m] >= RetryWindow(m)
    BY SMTT(30), ZenonT(30), <1>3, <2>1, <2>2, <2>6, <2>7
  <2>9. m \in DOMAIN messageCache' /\ messageCache'[m] = Elapsed(messageCache[m])
    BY ZenonT(30), <1>6, <2>8 DEF Tick
  <2>10. QED
    BY <1>2, <2>2, <2>7, <2>8, <2>9 DEF Elapsed
<1>7. ASSUME NEW e \in net, RecvChat(e), ~IsDuplicate(e.msg)
      PROVE  /\ ChatInFlight(m)' => m \in DOMAIN messageCache' /\ messageCache'[m] > 0
             /\ Live(m)' /\ RetryWindow(m)' > 0 =>
                  m \in DOMAIN messageCache' /\ messageCache'[m] >= RetryWindow(m)'
  <2>1. messageCache' = Insert(messageCache, e.msg, DedupTTL)
    BY SMTT(30), ZenonT(30), <1>7 DEF RecvChat
  <2>2. (Live(m)' => Live(m)) /\ RetryWindow(m)' = RetryWindow(m)
    BY ZenonT(30), <1>7 DEF RecvChat, Live, Active, RetryWindow
  <2>3. CASE e.msg = m
    <3>1. m \in DOMAIN messageCache' /\ messageCache'[m] = DedupTTL
      BY <2>1, <2>3, InsertEffect
    <3>2. DedupTTL > 0
      <4>1. 0 * AckDeadline + AckDeadline <= DedupTTL
        BY WindowArithmetic, TimingAssumption
      <4>2. QED
        BY <4>1, TimingAssumption
    <3>3. Live(m) => RetryWindow(m) <= DedupTTL
      BY Zenon, <1>1, WindowArithmetic DEF RetryWindow
    <3>4. Live(m) => RetryWindow(m) \in Nat
      BY ZenonT(30), <1>1, WindowArithmetic DEF RetryWindow
    <3>5. QED
      BY <2>2, <3>1, <3>2, <3>3, <3>4, TimingAssumption
  <2>4. CASE e.msg # m
    <3>1. delivered[m] > 0
      BY SMTT(30), <1>7, <2>4 DEF RecvChat, TypeOK
    <3>2. m \in DOMAIN messageCache /\ messageCache[m] > 0 =>
            m \in DOMAIN messageCache' /\ messageCache'[m] = messageCache[m]
      BY SMTT(30), <2>1, <2>4, InsertEffect
    <3>3. ChatInFlight(m)' => ChatInFlight(m)
      <4>1. ASSUME NEW c \in net', c.type = "chat" PROVE c \in net
        BY SMTT(30), <1>7, <4>1 DEF RecvChat, Exchange, Env
      <4>2. QED
        BY ZenonT(30), <4>1 DEF ChatInFlight
    <3>4. Live(m) => RetryWindow(m) \in Nat
      BY SMTT(30), ZenonT(30), <1>1, WindowArithmetic DEF RetryWindow
    <3>5. QED
      BY SMTT(30), ZenonT(30), <1>2, <1>3, <2>2, <3>1, <3>2, <3>3, <3>4
  <2>5. QED
    BY SMTT(30), <2>3, <2>4
<1>8. CASE RecipientCacheCleanup
  <2>1. delivered[m] > 0 /\ ~Tick
    BY Zenon, <1>8 DEF RecipientCacheCleanup, Tick
  <2>2. m \in DOMAIN messageCache /\ messageCache[m] > 0 =>
          m \in DOMAIN messageCache' /\ messageCache'[m] = messageCache[m]
    BY <1>8 DEF RecipientCacheCleanup, Unexpired, Restrict
  <2>3. ChatInFlight(m)' => ChatInFlight(m)
    BY ZenonT(30), <1>8 DEF RecipientCacheCleanup, ChatInFlight
  <2>4. (Live(m)' => Live(m)) /\ RetryWindow(m)' = RetryWindow(m)
    BY <1>8 DEF RecipientCacheCleanup, Live, Active, RetryWindow
  <2>5. Live(m) => RetryWindow(m) \in Nat
    BY Zenon, <1>1, WindowArithmetic DEF RetryWindow
  <2>6. QED
    BY <1>2, <1>3, <2>1, <2>2, <2>3, <2>4, <2>5
<1>9. CASE RecipientRestart
  BY <1>9 DEF RecipientRestart
<1>10. UNCHANGED <<messageCache, delivered>> \/ Tick \/ RecipientCacheCleanup \/ RecipientRestart
         \/ \E e \in net : RecvChat(e) /\ ~IsDuplicate(e.msg)
  BY ZenonT(30) DEF Next, vars, Send, Forward, RecvChat, RecvAtSender, Lose, SendReadReceipt,
         DeliveryDeadlines, TrackerCleanup, SenderCacheCleanup, SaveState, SenderRestart
<1>11. QED
  BY SMTT(30), <1>5, <1>6, <1>7, <1>8, <1>9, <1>10

-----------------------------------------------------------------------------
(* The theorems *)

\* The invariant holds before anything is sent.
LEMMA InitIInv == Init => IInv
<1> SUFFICES ASSUME Init PROVE IInv
  OBVIOUS
<1> USE DEF Init
<1>1. TypeOK
  <2>1. /\ DOMAIN tracker = {} /\ tracker \in [DOMAIN tracker -> Entry]
        /\ DOMAIN ackCache = {} /\ ackCache \in [DOMAIN ackCache -> 0..AckTTL]
        /\ DOMAIN saved = {} /\ saved \in [DOMAIN saved -> Record]
        /\ DOMAIN messageCache = {} /\ messageCache \in [DOMAIN messageCache -> 0..DedupTTL]
    BY DEF NoEntries
  <2>2. /\ attempts \in [Msgs -> 0..MaxRetries + 1]
        /\ delivered \in [Msgs -> 0..MaxCount]
        /\ faults \in [loss: 0..MaxLoss, sender: 0..MaxSenderCrash, recipient: 0..MaxRecipientCrash]
    BY TimingAssumption, BudgetAssumption DEF MaxCount
  <2>3. nonceCache \in Seq(Msgs) /\ Len(nonceCache) <= NonceCap
    BY BudgetAssumption
  <2>4. QED
    BY ZenonT(30), <2>1, <2>2, <2>3 DEF TypeOK
<1>2. Fresh /\ AcksAreGenuine
  BY SMTT(30) DEF Fresh, AcksAreGenuine, ChatInFlight, NoEntries
<1>3. AttemptsBounded /\ DeliveredMeansAcked /\ RetryHasEnvelope /\ DeadlinesArmed
  BY TimingAssumption DEF AttemptsBounded, DeliveredMeansAcked, RetryHasEnvelope, DeadlinesArmed,
     Live, NoEntries
<1>4. DedupOutlivesRetries
  BY DEF DedupOutlivesRetries
<1>5. QED
  BY <1>1, <1>2, <1>3, <1>4 DEF IInv

\* Every step preserves the invariant.
LEMMA NextIInv == IInv /\ [Next]_vars => IInv'
<1> SUFFICES ASSUME IInv, [Next]_vars PROVE IInv'
  OBVIOUS
<1> USE DEF IInv
<1>1. TypeOK'
  BY TypeStep
<1>2. Fresh' /\ AttemptsBounded'
  BY <1>1, FreshStep, AttemptsStep
<1>3. AcksAreGenuine' /\ DeliveredMeansAcked'
  BY AcksStep, DeliveredMeansAckedStep
<1>4. RetryHasEnvelope' /\ DeadlinesArmed'
  BY RetryHasEnvelopeStep, DeadlinesStep
<1>5. DedupOutlivesRetries'
  BY DedupStep
<1>6. QED
  BY <1>1, <1>2, <1>3, <1>4, <1>5

\* The inductive invariant holds in every reachable state of the delivery protocol.
THEOREM Invariance == Spec => []IInv
BY InitIInv, NextIInv, PTL DEF Spec

\* The tracker, the caches, the retry counts and the network keep their types.
THEOREM TypeCorrectness == Spec => []TypeOK
<1>1. IInv => TypeOK
  BY DEF IInv
<1>2. QED
  BY <1>1, Invariance, PTL

\* The sender reports Delivered or Read only for a message that the recipient has
\* handed over and acknowledged, whatever is lost, repeated, delayed or restarted.
THEOREM DeliveryIsAcknowledged == Spec => []DeliveredMeansAcked
<1>1. IInv => DeliveredMeansAcked
  BY DEF IInv
<1>2. QED
  BY <1>1, Invariance, PTL

\* No message is transmitted more than 1 + DEFAULT_MAX_RETRIES times, restarts of
\* the sender included.
THEOREM TransmissionsAreBounded == Spec => []AttemptsBounded
<1>1. IInv => AttemptsBounded
  BY DEF IInv
<1>2. QED
  BY <1>1, Invariance, PTL

\* Before the first restart of the sender, every message that may still be
\* retried has its envelope in the retry cache.
THEOREM RetriesHaveEnvelopes == Spec => []RetryHasEnvelope
<1>1. IInv => RetryHasEnvelope
  BY DEF IInv
<1>2. QED
  BY <1>1, Invariance, PTL

\* A sender that does not restart settles every expired deadline at each sweep.
THEOREM SweepsSettle == MaxSenderCrash = 0 => (Spec => []SweepSettlesDeadlines)
<1> SUFFICES ASSUME MaxSenderCrash = 0 PROVE Spec => []SweepSettlesDeadlines
  BY SMTT(30)
<1>1. IInv => SweepSettlesDeadlines
  <2> SUFFICES ASSUME IInv, ~sweepDue, NEW m \in DOMAIN tracker, Expired(m) PROVE FALSE
    BY DEF SweepSettlesDeadlines
  <2>1. faults.sender = 0
    BY DEF IInv, TypeOK
  <2>2. m \in Msgs /\ Live(m)
    BY <2>1 DEF IInv, TypeOK, RetryHasEnvelope, Expired, Live
  <2>3. QED
    BY SMTT(30), ZenonT(30), <2>2 DEF IInv, DeadlinesArmed, Expired
<1>2. QED
  BY <1>1, Invariance, PTL

\* Except across a restart, a step never takes a status back, and a delivered
\* message never fails: MessageTracker::advance and mark_failed.
THEOREM StatusIsMonotone == Spec => StatusMonotone
<1> DEFINE Forwards(m) ==
      /\ tracker[m].status <= tracker'[m].status
      /\ tracker[m].status \in {Delivered, Read} => tracker'[m].status # Failed
<1>1. ASSUME IInv, [Next]_vars, faults'.sender = faults.sender,
             NEW m \in DOMAIN tracker \cap DOMAIN tracker'
      PROVE  Forwards(m)
  <2>0. /\ TypeOK /\ Fresh
        /\ tracker[m] \in Entry
        /\ tracker[m].status \in Int /\ 0 <= tracker[m].status /\ tracker[m].status <= Failed
    BY SMTT(30), <1>1, EntryFields DEF IInv, TypeOK
  <2>1. CASE tracker'[m].status = tracker[m].status
    BY <2>0, <2>1
  <2>2. ASSUME NEW n \in Msgs, Send(n) PROVE Forwards(m)
    <3>1. n \notin DOMAIN tracker
      BY Zenon, <2>0, <2>2 DEF Send, Fresh
    <3>2. tracker'[m] = tracker[m]
      BY SMTT(30), <1>1, <2>0, <2>2, <3>1, TrackType DEF Send
    <3>3. QED
      BY <2>1, <3>2
  <2>3. ASSUME NEW e \in net, RecvAtSender(e) PROVE Forwards(m)
    <3>1. AckEffect(e, m) /\ tracker'[m] \in Entry
      BY ZenonT(30), <1>1, <2>0, <2>3, RecvAtSenderEffect
    <3>2. tracker'[m].status \in Int
      BY SMTT(30), <3>1, EntryFields
    <3>3. QED
      BY SMTT(30), <2>0, <3>1, <3>2 DEF AckEffect
  <2>4. CASE DeliveryDeadlines
    <3>1. \/ tracker'[m] = tracker[m]
          \/ tracker'[m] = Rearmed(tracker[m])
          \/ /\ m \in ToFail
             /\ tracker'[m] = [tracker[m] EXCEPT !.status = Failed, !.deadline = NoDeadline]
      BY Zenon, <1>1, <2>4 DEF DeliveryDeadlines
    <3>2. \/ tracker'[m].status = tracker[m].status
          \/ tracker'[m].status = Failed /\ m \in ToFail
      BY Zenon, <2>0, <3>1 DEF Rearmed, Entry
    <3>3. m \in ToFail => tracker[m].status < Delivered
      BY DEF ToFail, Expired, Active
    <3>4. QED
      BY <2>0, <2>1, <3>2, <3>3
  <2>5. CASE TrackerCleanup
    BY Zenon, <1>1, <2>0, <2>1, <2>5, UnevictedType DEF TrackerCleanup, TypeOK
  <2>6. CASE SenderRestart
    <3>1. /\ faults \in [loss: 0..MaxLoss, sender: 0..MaxSenderCrash, recipient: 0..MaxRecipientCrash]
          /\ faults' = [faults EXCEPT !.sender = @ + 1]
      BY <2>0, <2>6 DEF SenderRestart, TypeOK
    <3>2. QED
      BY <1>1, <3>1, BudgetAssumption
  <2>7. CASE Tick
    <3>1. tracker'[m] = [tracker[m] EXCEPT !.deadline = Elapsed(@), !.life = Elapsed(@)]
      BY Zenon, <1>1, <2>7 DEF Tick
    <3>2. tracker'[m].status = tracker[m].status
      BY <2>0, <3>1 DEF Entry
    <3>3. QED
      BY <2>1, <3>2
  <2>8. CASE UNCHANGED tracker
    BY SMTT(30), <2>1, <2>8
  <2>9. QED
    BY ZenonT(30), <1>1, <2>2, <2>3, <2>4, <2>5, <2>6, <2>7, <2>8
    DEF Next, vars, senderVars, Forward, RecvChat, Lose, SendReadReceipt, SenderCacheCleanup,
        RecipientCacheCleanup, SaveState, RecipientRestart
<1>2. IInv /\ [Next]_vars =>
        [faults'.sender = faults.sender =>
           \A m \in DOMAIN tracker \cap DOMAIN tracker' :
             /\ tracker[m].status <= tracker'[m].status
             /\ tracker[m].status \in {Delivered, Read} => tracker'[m].status # Failed]_vars
  BY <1>1
<1>3. QED
  BY <1>2, Invariance, PTL DEF Spec, StatusMonotone
=============================================================================
