------------------------------ MODULE Presence ------------------------------
(***************************************************************************)
(* What one node knows of its peers: when it last heard of each of them    *)
(* (the heartbeat tracker), what it holds them for (the topology), how     *)
(* much they have contributed (the role manager), and the messages it      *)
(* keeps for those that are away (the backup store).  Everything here runs *)
(* in the one loop of the runtime, a handler at a time.                    *)
(*                                                                         *)
(* Time is counted in heartbeat intervals.  A score is one of three        *)
(* levels, cut at the thresholds of the role manager.  Messages are        *)
(* numbered in the order of their storage; the hand-over of what is kept   *)
(* for a peer only reads the store and sends.                              *)
(***************************************************************************)
EXTENDS Integers, FiniteSets, Functions

CONSTANTS
  Peers,
  Stale,           \* STALE_THRESHOLD_MS
  Offline,         \* OFFLINE_THRESHOLD_MS
  Throttle,        \* THROTTLE_MS of role announcements
  MaxStored,       \* MAX_TOTAL_MESSAGES of the backup store
  MaxSends,        \* bound: messages sent
  MaxRestarts      \* bound: times the node restarts

VARIABLES
  age,             \* tracker: time since last_heartbeat, of the tracked peers
  discovered,      \* tracker: discovered
  topology,        \* the known peers, each with a role and a status
  score,           \* role manager: scores
  quiet,           \* role_announce_throttle: time until p may announce again
  backup,          \* backup store: the messages kept
  full,            \* the topology holds MAX_PEERS other peers
  sent,            \* number of messages sent since the node started
  horizon,         \* messages up to this one are past their time to live
  told,            \* history: the last the application was told of a peer
  claims,          \* history: relays by what they, or the application, said
  restarts         \* how often the node has restarted

trackerVars == <<age, discovered>>
topologyVars == <<topology, claims>>
backupVars == <<backup, sent, horizon>>
vars == <<trackerVars, topologyVars, score, quiet, full, backupVars, told, restarts>>

Statuses == {"Online", "Stale", "Offline"}

ASSUME PresenceAssumption ==
  /\ IsFiniteSet(Peers)
  /\ {Stale, Offline, Throttle, MaxStored} \subseteq Nat \ {0}
  /\ Stale < Offline
  /\ MaxSends \in Nat /\ MaxRestarts \in Nat

Forget == 3 * Offline
Roles == {"Peer", "Relay"}
Levels == {"low", "middle", "high"}
Info(r, s) == [role |-> r, status |-> s]
Infos == [role : Roles, status : Statuses]

Tracked == DOMAIN age
Known == DOMAIN topology
Scored == DOMAIN score
Status(p) == IF p \in Known THEN topology[p].status ELSE "None"

\* A map with the entry of p set to v (HashMap::insert).
With(f, p, v) == [q \in DOMAIN f \cup {p} |-> IF q = p THEN v ELSE f[q]]

(***************************************************************************)
(* The operations of the parts.                                            *)
(***************************************************************************)
Upsert(p, info) ==
  IF full /\ p \notin Known THEN topology ELSE With(topology, p, info)

RecordHeartbeat(p) == age' = With(age, p, 0)

\* Mutant: counts the bytes of scored peers only.
RecordBytesOfScored(p) == UNCHANGED score

RecordBytes(p) == score' = IF p \in Scored THEN score ELSE With(score, p, "low")

\* A relay takes a score of nothing past the demotion threshold, and some number
\* of them past the promotion threshold.
RecordRelay(p) ==
  \E s \in IF p \in Scored /\ score[p] # "low" THEN {score[p], "high"} ELSE {"middle"} :
    score' = With(score, p, s)

\* Who is present by word of itself, or of the application, and in which role.
Claim(p, role) == claims' = IF role = "Relay" THEN claims \cup {p} ELSE claims \ {p}

Present(p, role) ==
  /\ RecordHeartbeat(p)
  /\ topology' = Upsert(p, Info(role, "Online"))
  /\ Claim(p, role)

Liveness(p) ==
  IF age[p] >= Offline THEN "Offline" ELSE IF age[p] >= Stale THEN "Stale" ELSE "Online"

\* The event that check_all reports of a tracked peer.
Event(p) ==
  CASE Liveness(p) # "Online" /\ Status(p) # Liveness(p) -> Liveness(p)
    [] Liveness(p) = "Online" /\ p \notin discovered -> "Discovered"
    [] Liveness(p) = "Online" /\ p \in discovered /\ Status(p) \in {"Stale", "Offline"} -> "Online"
    [] OTHER -> "None"

Reported(e) == {p \in Tracked : Event(p) = e}

\* The messages the store keeps when it makes room for one more.
EvictOldest(S) ==
  IF Cardinality(S) < MaxStored THEN S ELSE S \ {CHOOSE m \in S : \A n \in S : m <= n}

(***************************************************************************)
(* Init and the actions.                                                   *)
(***************************************************************************)
Empty == [p \in {} |-> "None"]

Init ==
  /\ age = Empty /\ discovered = {}
  /\ topology = Empty /\ claims = {} /\ full = FALSE
  /\ score = Empty
  /\ quiet = [p \in Peers |-> 0]
  /\ backup = {} /\ sent = 0 /\ horizon = 0
  /\ told = [p \in Peers |-> "None"]
  /\ restarts = 0

\* handle_incoming: the peer is heard of, and its bytes are counted.
Incoming(p) ==
  /\ RecordBytes(p)
  /\ RecordHeartbeat(p)
  /\ topology' = IF p \in Known THEN topology ELSE Upsert(p, Info("Peer", "Online"))
  /\ UNCHANGED <<discovered, claims, quiet, full, backupVars, told, restarts>>

\* ... and the message is one to be forwarded.
Forward(p) ==
  /\ RecordRelay(p)
  /\ RecordHeartbeat(p)
  /\ topology' = IF p \in Known THEN topology ELSE Upsert(p, Info("Peer", "Online"))
  /\ UNCHANGED <<discovered, claims, quiet, full, backupVars, told, restarts>>

\* ... and the message is the peer's announcement.
DirectAnnounce(p) ==
  /\ RecordBytes(p)
  /\ Present(p, "Peer")
  /\ UNCHANGED <<discovered, quiet, full, backupVars, told, restarts>>

GossipAnnounce(p, role) ==
  /\ Present(p, role)
  /\ UNCHANGED <<discovered, score, quiet, full, backupVars, told, restarts>>

\* A neighbour in the gossip swarm; likewise a peer that the DHT has found, or that
\* the relay or the application has added.
NeighborUp(p) == GossipAnnounce(p, "Peer")

RoleAnnounce(p, role) ==
  /\ quiet[p] = 0
  /\ topology' = IF p \in Known THEN [topology EXCEPT ![p].role = role]
                 ELSE Upsert(p, Info(role, "Online"))
  /\ Claim(p, role)
  /\ quiet' = [quiet EXCEPT ![p] = Throttle]
  /\ UNCHANGED <<trackerVars, score, full, backupVars, told, restarts>>

\* The application says what it knows of a peer.
UpsertPeer(p, info) ==
  /\ RecordHeartbeat(p)
  /\ topology' = Upsert(p, info)
  /\ Claim(p, info.role)
  /\ told' = [told EXCEPT ![p] = info.status]
  /\ UNCHANGED <<discovered, score, quiet, full, backupVars, restarts>>

RemovePeer(p) ==
  /\ topology' = Restrict(topology, Known \ {p})
  /\ age' = Restrict(age, Tracked \ {p})
  /\ claims' = claims \ {p}
  /\ UNCHANGED <<discovered, score, quiet, full, backupVars, told, restarts>>

\* Other peers come to fill the topology, or some of them go.
OthersCome ==
  /\ full' = ~full
  /\ UNCHANGED <<trackerVars, topologyVars, score, quiet, backupVars, told, restarts>>

\* handle_send_message keeps a copy whether or not the message gets through.
SendMessage ==
  /\ sent < MaxSends
  /\ sent' = sent + 1
  /\ backup' = EvictOldest(backup) \cup {sent'}
  /\ UNCHANGED <<trackerVars, topologyVars, score, quiet, full, horizon, told, restarts>>

\* Mutant: forgets a peer as soon as it is stale.
DepartedStale == {p \in Tracked : age[p] >= Stale}

\* Mutant: forgets no peer.
DepartedNever == {}

\* The peers whose heartbeat is too old to be kept.
Departed == {p \in Tracked : age[p] >= Forget}

\* Mutant: keeps a stale peer to itself.
NotifyButStale(p) ==
  CASE p \notin Tracked \/ p \in Reported("None") \cup Reported("Stale") -> told[p]
    [] p \in Reported("Discovered") -> "Online"
    [] OTHER -> Event(p)

\* What the application takes p for after the events of a tick.
Notify(p) ==
  CASE p \notin Tracked \/ p \in Reported("None") -> told[p]
    [] p \in Reported("Discovered") -> "Online"
    [] OTHER -> Event(p)

HeartbeatTick ==
  /\ topology' = [p \in Known |-> IF p \in Tracked
                                  THEN [topology[p] EXCEPT !.status = Liveness(p)]
                                  ELSE topology[p]]
  /\ score' = Restrict(score, Scored \ Reported("Offline"))
  /\ told' = [p \in Peers |-> Notify(p)]
  /\ age' = Restrict(age, Tracked \ Departed)
  /\ discovered' = (discovered \cup Reported("Discovered")) \ Departed
  /\ UNCHANGED <<claims, quiet, full, backup, sent, horizon, restarts>>

Promoted == {p \in Scored \cap Known : topology[p].role = "Peer" /\ score[p] = "high"}
Demoted == {p \in Scored \cap Known : topology[p].role = "Relay" /\ score[p] = "low"}

RoleTick ==
  /\ topology' = [p \in Known |->
                    IF p \in Promoted THEN [topology[p] EXCEPT !.role = "Relay"]
                    ELSE IF p \in Demoted THEN [topology[p] EXCEPT !.role = "Peer"]
                    ELSE topology[p]]
  /\ claims' = claims \ Demoted
  /\ UNCHANGED <<trackerVars, score, quiet, full, backupVars, told, restarts>>

\* Mutant: one message too many is past its time.
ExpiredEarly == {m \in backup : m <= horizon + 1}

Expired == {m \in backup : m <= horizon}

BackupTick ==
  /\ backup' = backup \ Expired
  /\ UNCHANGED <<trackerVars, topologyVars, score, quiet, full, sent, horizon, told, restarts>>

Elapse ==
  /\ age' = [p \in Tracked |-> IF age[p] < Forget THEN age[p] + 1 ELSE age[p]]
  /\ quiet' = [p \in Peers |-> IF quiet[p] > 0 THEN quiet[p] - 1 ELSE 0]
  /\ UNCHANGED <<discovered, topologyVars, score, full, backupVars, told, restarts>>

\* Hours of the same traffic: the score of a peer that relays nothing decays,
\* messages come to the end of their time to live.
HoursPass ==
  /\ \/ \E p \in Scored :
          /\ score' = [score EXCEPT ![p] = IF @ = "high" THEN "middle" ELSE "low"]
          /\ UNCHANGED horizon
     \/ /\ horizon' \in (horizon + 1)..sent
        /\ UNCHANGED score
  /\ UNCHANGED <<trackerVars, topologyVars, quiet, full, backup, sent, told, restarts>>

\* The peers come back as offline, with their scores; the rest starts anew.  After
\* a crash they come back as they were at the last save: that is where a restart at
\* that time would have led.
Restart ==
  /\ restarts < MaxRestarts
  /\ topology' = [p \in Known |-> [topology[p] EXCEPT !.status = "Offline"]]
  /\ age' = Empty /\ discovered' = {}
  /\ quiet' = [p \in Peers |-> 0]
  /\ backup' = {} /\ sent' = 0 /\ horizon' = 0
  /\ told' = [p \in Peers |-> "None"]
  /\ restarts' = restarts + 1
  /\ UNCHANGED <<score, claims, full>>

Next ==
  \/ \E p \in Peers : Incoming(p) \/ Forward(p) \/ DirectAnnounce(p) \/ RemovePeer(p)
                      \/ NeighborUp(p)
  \/ \E p \in Peers, role \in Roles : GossipAnnounce(p, role) \/ RoleAnnounce(p, role)
  \/ \E p \in Peers, role \in Roles, status \in Statuses : UpsertPeer(p, Info(role, status))
  \/ SendMessage
  \/ HeartbeatTick
  \/ RoleTick
  \/ BackupTick
  \/ Elapse
  \/ HoursPass
  \/ OthersCome
  \/ Restart

\* The ticks are timers of the loop, which serves every timer that is due.
Spec == Init /\ [][Next]_vars /\ WF_vars(HeartbeatTick) /\ WF_vars(Elapse)

-----------------------------------------------------------------------------
\* The state is well formed.
TypeOK ==
  /\ Tracked \subseteq Peers /\ age \in [Tracked -> 0..Forget]
  /\ discovered \subseteq Peers
  /\ Known \subseteq Peers /\ topology \in [Known -> Infos]
  /\ Scored \subseteq Peers /\ score \in [Scored -> Levels]
  /\ quiet \in [Peers -> 0..Throttle]
  /\ sent \in 0..MaxSends /\ horizon \in 0..sent
  /\ backup \subseteq 1..sent /\ Cardinality(backup) <= MaxStored
  /\ told \in [Peers -> Statuses \cup {"None"}]
  /\ claims \subseteq Peers

\* From the best news of a peer to none.
Rank == [s \in Statuses \cup {"None"} |->
           CASE s = "Online" -> 1 [] s = "Stale" -> 2 [] s = "Offline" -> 3 [] s = "None" -> 4]

\* When the next heartbeat tick has nothing to report of a known peer, the
\* application takes it for no more present than the topology does, and has been
\* told of it if it is online (check_all and tick_heartbeat against every other
\* writer of the topology).
NotToldTooWell ==
  \A p \in Tracked \cap Known :
    Event(p) = "None" => /\ Rank[told[p]] >= Rank[Status(p)]
                         /\ Status(p) = "Online" => told[p] # "None"

\* When the next evaluation of the roles would change nothing of it, a peer that
\* is online as a relay, and so may be chosen to carry messages, has a score that
\* is not below the demotion threshold, or it is a relay by what it said itself
\* (evaluate and remove_node against the announcements).
OnlineRelayEarned ==
  \A p \in Known \ (Promoted \cup Demoted) :
    topology[p] = Info("Relay", "Online") =>
      p \in claims \/ (p \in Scored /\ score[p] # "low")

\* A message sent since the node started is in the backup store until its time is
\* over or as many newer ones as the store holds have come (store, evict_oldest,
\* cleanup_expired).
NewestKept ==
  \A m \in 1..sent :
    m > horizon /\ m > sent - MaxStored => m \in backup

\* A peer that the tracker forgets because it was silent is offline in the topology
\* by then: nothing would ever mark it so later (cleanup_departed after check_all).
ForgottenIsOffline ==
  [][\A p \in Tracked \ DOMAIN age' :
       p \in DOMAIN topology' => topology'[p].status = "Offline"]_vars

\* A tracked peer is heard of again, or is forgotten, and then it is not online in
\* the topology (the heartbeat tick and its thresholds).
SilenceNoticed ==
  \A p \in Peers :
    (p \in Tracked /\ age[p] > 0) ~>
      \/ p \in Tracked /\ age[p] = 0
      \/ p \notin Tracked /\ Status(p) \in {"Offline", "None"}
=============================================================================
