------------------------------ MODULE GroupLog ------------------------------
(***************************************************************************)
(* The messages of one group: the hub numbers them, keeps the recent ones  *)
(* in memory and all of them in table hub_message_history, and broadcasts  *)
(* them; a member that was offline asks on its return for what follows the *)
(* last number it knows (SyncRequest, SyncResponse).                       *)
(*                                                                         *)
(* One hub, one receiving member, posts from any others.  Posts are        *)
(* plaintext or decryptable: sender keys are not part of this module.      *)
(***************************************************************************)
EXTENDS Integers, FiniteSets, Sequences, Functions, SequencesExt

CONSTANTS
  Msgs,            \* message ids
  HistoryCap,      \* max_messages_per_group of GroupHub
  DedupCap,        \* max_dedup_entries of GroupHub
  SyncLimit,       \* MAX_SYNC_RESPONSE
  TTL,             \* TTL_MS of tick_hub_cleanup, in days
  FirstDay,        \* the Unix time, in days, at which the behaviour starts
  MaxDays,         \* bound: days that pass
  Limits,          \* bound: how often each fault happens
  MaxEvents        \* bound: faults and days in all

VARIABLES
  nextSeq,         \* HubGroup::next_seq
  history,         \* HubGroup::message_history, whose order is that of the numbers
  seen,            \* HubGroup::seen_message_ids
  db,              \* table hub_message_history: seq -> [id, stored_at]
  savedSeq,        \* next_seq of the group's row in hub_groups
  up,              \* the member's runtime is running
  lastSeq,         \* GroupManager::last_seqs
  savedLast,       \* last_seq of the group's row in the member's groups
  received,        \* history: times the member's application got each message
  posts,           \* messages on their way to the hub
  requests,        \* the since_seq of the SyncRequests on their way to the hub
  toMember,        \* what the hub has sent to the member, oldest first
  day,             \* Unix time in days
  sentAt,          \* GroupMessage::sent_at, in days
  numbered,        \* history: every <<seq, id>> the hub has assigned
  faults           \* history: the faults so far

hubVars == <<nextSeq, history, seen, db, savedSeq, numbered>>
memberVars == <<up, lastSeq, savedLast, received>>
netVars == <<posts, requests, toMember>>
vars == <<hubVars, memberVars, netVars, day, sentAt, faults>>

Faults == {"loss", "duplicate", "overtake", "memberCrash", "hubCrash", "hubShutdown"}

ASSUME LogAssumption ==
  /\ IsFiniteSet(Msgs)
  /\ HistoryCap \in Nat
  /\ DedupCap \in Nat \ {0}
  /\ SyncLimit \in Nat
  /\ TTL \in Nat
  /\ FirstDay \in Nat
  /\ MaxDays \in Nat
  /\ Limits \in [Faults -> Nat]
  /\ MaxEvents \in Nat

\* More than a TTL has passed since 1 January 1970.
ASSUME ClockAssumption == FirstDay >= TTL

NotSent == -1

Events == SumFunction(faults) + day - FirstDay

\* The faults F, and no others, happen now.
Fail(F) ==
  /\ \A f \in F : faults[f] < Limits[f]
  /\ Events + Cardinality(F) <= MaxEvents
  /\ faults' = [f \in Faults |-> faults[f] + IF f \in F THEN 1 ELSE 0]

-----------------------------------------------------------------------------
(* The hub *)

\* check_dedup at capacity: half of the ids go, in the order of a hash table.
Remembered ==
  IF Cardinality(seen) < DedupCap THEN {seen}
  ELSE {kept \in SUBSET seen : Cardinality(kept) = DedupCap \div 2}

\* The history without its oldest message.
WithoutOldest(h) == h \ {CHOOSE m \in h : \A other \in h : m.seq <= other.seq}

\* Per-group trim of message_history.
Trimmed(h) == IF Cardinality(h) > HistoryCap THEN WithoutOldest(h) ELSE h

\* What the hub sends reaches the member's queue while the member is up.
SendToMember(m) == toMember' = IF up THEN Append(toMember, m) ELSE toMember

\* Mutant: numbers from 1, and leaves next_seq as it is.
NumberedFromOne(id) == [id |-> id, seq |-> nextSeq + 1]

\* The number of an accepted message.
NumberedMessage(id) == [id |-> id, seq |-> nextSeq]

\* handle_message and, for its broadcast, save_hub_message.  The posts are a
\* member's, signed, plaintext and within its rate; MESSAGE_MAX_AGE_MS is less than
\* a day.  Group envelopes do not pass the router's dedup cache.
HubMessage(id) ==
  /\ id \in posts
  /\ \/ posts' = posts \ {id} /\ UNCHANGED faults
     \/ posts' = posts /\ Fail({"duplicate"})
  /\ \/ /\ sentAt[id] < day
        /\ UNCHANGED <<nextSeq, history, seen, db, numbered, toMember>>
     \/ /\ sentAt[id] = day
        /\ \E kept \in Remembered : id \in kept /\ seen' = kept
        /\ UNCHANGED <<nextSeq, history, db, numbered, toMember>>
     \/ /\ sentAt[id] = day
        /\ \E kept \in Remembered : id \notin kept /\ seen' = kept \cup {id}
        /\ LET m == NumberedMessage(id)
           IN  /\ nextSeq' = nextSeq + 1
               /\ history' = Trimmed(history \cup {m})
               /\ db' = [q \in DOMAIN db \cup {m.seq} |->
                           IF q = m.seq THEN [id |-> id, storedAt |-> day] ELSE db[q]]
               /\ numbered' = numbered \cup {<<m.seq, id>>}
               /\ SendToMember([kind |-> "message", batch |-> {m}, latest |-> m.seq])
  /\ UNCHANGED <<savedSeq, memberVars, requests, day, sentAt>>

\* Mutant: `seq > since + 1`.
PageAfterNext(since) ==
  LET rows == {q \in DOMAIN db : q > since + 1}
  IN  {q \in rows : Cardinality({r \in rows : r < q}) < SyncLimit}

\* load_hub_messages_since: `seq > since ORDER BY seq ASC LIMIT`.
Page(since) ==
  LET rows == {q \in DOMAIN db : q > since}
  IN  {q \in rows : Cardinality({r \in rows : r < q}) < SyncLimit}

\* The messages of a SyncResponse: a page of the table, and what the history in
\* memory has besides.
Missed(since) ==
  LET stored == {[id |-> db[q].id, seq |-> q] : q \in Page(since)}
      recent == {m \in history : m.seq > since /\ ~\E s \in stored : s.id = m.id}
  IN  stored \cup recent

\* handle_sync_request
HubSyncRequest(since) ==
  /\ since \in requests
  /\ requests' = requests \ {since}
  /\ \/ Missed(since) = {} /\ UNCHANGED toMember
     \/ \E last \in Missed(since) :
          /\ \A m \in Missed(since) : m.seq <= last.seq
          /\ SendToMember([kind |-> "sync", batch |-> Missed(since), latest |-> last.seq])
  /\ UNCHANGED <<hubVars, memberVars, posts, day, sentAt, faults>>

\* Mutant: saves the number after the next one.
HubSaveAhead ==
  /\ savedSeq' = nextSeq + 1
  /\ UNCHANGED <<nextSeq, history, seen, db, numbered, memberVars, netVars, day, sentAt, faults>>

\* save_state, every 30s.
HubSave ==
  /\ savedSeq' = nextSeq
  /\ UNCHANGED <<nextSeq, history, seen, db, numbered, memberVars, netVars, day, sentAt, faults>>

\* GroupHub::restore: the counter comes from the snapshot, the rest is empty.
HubRestored(seq) ==
  /\ nextSeq' = seq
  /\ savedSeq' = seq
  /\ history' = {}
  /\ seen' = {}
  /\ UNCHANGED <<db, numbered, memberVars, netVars, day, sentAt>>

HubCrash == Fail({"hubCrash"}) /\ HubRestored(savedSeq)

\* Mutant: the loop ends without a save.
HubShutdownUnsaved ==
  Fail({"hubShutdown"}) /\ HubRestored(savedSeq)

\* The loop saves once more before it ends.
HubShutdown == Fail({"hubShutdown"}) /\ HubRestored(nextSeq)

\* tick_hub_cleanup.  The table is asked to delete what was stored before the
\* instant TTL_MS, not what was stored TTL_MS ago.
HubCleanup ==
  /\ history' = {m \in history : sentAt[m.id] >= day - TTL}
  /\ db' = Restrict(db, {q \in DOMAIN db : db[q].storedAt >= TTL})
  /\ UNCHANGED <<nextSeq, seen, savedSeq, numbered, memberVars, netVars, day, sentAt, faults>>

-----------------------------------------------------------------------------
(* The members *)

\* handle_send_group_message at another member.
Post(id) ==
  /\ sentAt[id] = NotSent
  /\ sentAt' = [sentAt EXCEPT ![id] = day]
  /\ posts' = posts \cup {id}
  /\ UNCHANGED <<hubVars, memberVars, requests, toMember, day, faults>>

MaxCount == 2     \* `received` counts up to "more than once"

Count(n) == IF n < MaxCount THEN n + 1 ELSE n

\* deliver_message, for each message of a batch.
DeliveredOf(m) == m.batch

\* handle_message or handle_sync_response at the member: every message goes to
\* the application, and last_seq to the highest number seen.
MemberReceive(i) ==
  /\ i \in DOMAIN toMember
  /\ LET m == toMember[i]
     IN  /\ received' = [id \in Msgs |->
                           IF \E d \in DeliveredOf(m) : d.id = id THEN Count(received[id])
                           ELSE received[id]]
         /\ lastSeq' = IF m.latest > lastSeq THEN m.latest ELSE lastSeq
  /\ LET overtakes == IF i > 1 THEN {"overtake"} ELSE {}
     IN  \/ toMember' = RemoveAt(toMember, i) /\ Fail(overtakes)
         \/ toMember' = toMember /\ Fail(overtakes \cup {"duplicate"})
  /\ UNCHANGED <<hubVars, up, savedLast, posts, requests, day, sentAt>>

\* save_state, every 30s.
MemberSave ==
  /\ up
  /\ savedLast' = lastSeq
  /\ UNCHANGED <<hubVars, up, lastSeq, received, netVars, day, sentAt, faults>>

\* The member's runtime dies, and what was on its way to it is lost.
MemberDown ==
  /\ up
  /\ Fail({"memberCrash"})
  /\ up' = FALSE
  /\ toMember' = << >>
  /\ UNCHANGED <<hubVars, lastSeq, savedLast, received, posts, requests, day, sentAt>>

\* The since_seq of rejoin_groups.
Since == savedLast

\* RuntimeState::new and rejoin_groups.  (The Join that is sent along is
\* answered by a Sync whose messages go to the history, not to the application.)
MemberUp ==
  /\ ~up
  /\ up' = TRUE
  /\ lastSeq' = savedLast
  /\ requests' = requests \cup {Since}
  /\ UNCHANGED <<hubVars, savedLast, received, posts, toMember, day, sentAt, faults>>

-----------------------------------------------------------------------------
(* The network and the clock *)

LosePost(id) ==
  /\ id \in posts
  /\ Fail({"loss"})
  /\ posts' = posts \ {id}
  /\ UNCHANGED <<hubVars, memberVars, requests, toMember, day, sentAt>>

LoseToMember(i) ==
  /\ i \in DOMAIN toMember
  /\ Fail({"loss"})
  /\ toMember' = RemoveAt(toMember, i)
  /\ UNCHANGED <<hubVars, memberVars, posts, requests, day, sentAt>>

NextDay ==
  /\ day < FirstDay + MaxDays
  /\ Events < MaxEvents
  /\ day' = day + 1
  /\ UNCHANGED <<hubVars, memberVars, netVars, sentAt, faults>>

Init ==
  /\ nextSeq = 0
  /\ history = {}
  /\ seen = {}
  /\ db = [q \in {} |-> q]
  /\ savedSeq = 0
  /\ up = TRUE
  /\ lastSeq = 0
  /\ savedLast = 0
  /\ received = [id \in Msgs |-> 0]
  /\ posts = {}
  /\ requests = {}
  /\ toMember = << >>
  /\ day = FirstDay
  /\ sentAt = [id \in Msgs |-> NotSent]
  /\ numbered = {}
  /\ faults = [f \in Faults |-> 0]

Next ==
  \/ \E id \in Msgs : Post(id)
  \/ \E id \in posts : HubMessage(id)
  \/ \E since \in requests : HubSyncRequest(since)
  \/ HubSave
  \/ HubCrash
  \/ HubShutdown
  \/ HubCleanup
  \/ \E i \in DOMAIN toMember : MemberReceive(i)
  \/ MemberSave
  \/ MemberDown
  \/ MemberUp
  \/ \E id \in posts : LosePost(id)
  \/ \E i \in DOMAIN toMember : LoseToMember(i)
  \/ NextDay

Spec == Init /\ [][Next]_vars

\* The hub serves what reaches it, the member's loop reads what reaches it, and
\* a member that went offline comes back.  There is a finite number of these steps,
\* so that it is enough that they do not stop while there is one to take.
Work ==
  \/ \E id \in posts : HubMessage(id)
  \/ \E since \in requests : HubSyncRequest(since)
  \/ toMember # << >> /\ MemberReceive(1)
  \/ MemberUp

FairSpec == Spec /\ WF_vars(Work)

-----------------------------------------------------------------------------
(* Properties *)

\* The types of the hub's and the member's state and of the network.
TypeOK ==
  /\ nextSeq \in Nat
  /\ history \subseteq [id: Msgs, seq: Nat]
  /\ IsFiniteSet(history) /\ Cardinality(history) <= HistoryCap
  /\ seen \subseteq Msgs
  /\ DOMAIN db \subseteq Nat
  /\ db \in [DOMAIN db -> [id: Msgs, storedAt: Nat]]
  /\ savedSeq \in Nat
  /\ up \in BOOLEAN
  /\ lastSeq \in Nat
  /\ savedLast \in Nat
  /\ received \in [Msgs -> 0..MaxCount]
  /\ posts \subseteq Msgs
  /\ requests \subseteq Nat
  /\ toMember \in Seq([kind: {"message", "sync"}, batch: SUBSET [id: Msgs, seq: Nat], latest: Nat])
  /\ day \in FirstDay..FirstDay + MaxDays
  /\ sentAt \in [Msgs -> Nat \cup {NotSent}]
  /\ numbered \subseteq Nat \X Msgs
  /\ faults \in [Faults -> Nat]

\* "Sequence number assigned by the hub (monotonically increasing per group)": no
\* two messages get the same number.
NumbersAreUnique ==
  \A x, y \in numbered : x[1] = y[1] => x[2] = y[2]

\* Whatever next_seq a crash takes the hub back to, the rows of hub_message_history
\* have consecutive numbers: what a member finds missing was lost on its way.
TableIsContiguous ==
  \A q, r \in DOMAIN db : q..r \subseteq DOMAIN db

\* As long as the hub does not crash, the row of a number holds the message that
\* got it, however posts are repeated and the hub is stopped and started in an
\* orderly way: handle_sync_request reads every message that was numbered.
TableIsComplete ==
  faults["hubCrash"] = 0 =>
    \A x \in numbered : x[1] \in DOMAIN db /\ db[x[1]].id = x[2]

\* As long as the hub does not crash, a member knows no number that the hub has yet
\* to assign: a later message is never below the member's last_seq.
MemberNotAhead ==
  faults["hubCrash"] = 0 /\ lastSeq > 0 => lastSeq < nextSeq

\* Gap-fill works: unless an envelope is lost or overtaken or the hub crashes,
\* every numbered message reaches the member, those it missed while offline
\* included, the group's first one (number 0) excepted.
EventuallyReceived ==
  \A id \in Msgs :
    (\E x \in numbered : x[1] > 0 /\ x[2] = id) ~>
      received[id] > 0 \/ \E f \in {"loss", "overtake", "hubCrash"} : faults[f] > 0
=============================================================================
