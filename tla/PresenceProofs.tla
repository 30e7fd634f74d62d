--------------------------- MODULE PresenceProofs ---------------------------
(***************************************************************************)
(* Proofs of the safety properties of Presence, for any set of peers, any  *)
(* thresholds, any capacity of the backup store and any number of          *)
(* messages and restarts.                                                  *)
(***************************************************************************)
EXTENDS Presence, FiniteSetTheorems, WellFoundedInduction, TLAPS

\* A relay that has no score and did not say itself that it is one is offline, and
\* nothing has been heard of it that a tick could make it online for.
UnearnedIsAway ==
  \A p \in Known :
    topology[p].role = "Relay" /\ p \notin claims /\ p \notin Scored =>
      topology[p].status = "Offline" /\ (p \in Tracked => age[p] >= Offline)

\* The application takes no known peer for more present than the topology does.
ToldNoBetter ==
  \A p \in Known :
    /\ topology[p].status = "Stale" => told[p] # "Online"
    /\ topology[p].status = "Offline" => told[p] \in {"Offline", "None"}

\* The application has been told of every peer the tracker calls discovered.
DiscoveredIsTold == \A p \in discovered : told[p] # "None"

PresenceInv == TypeOK /\ UnearnedIsAway /\ ToldNoBetter /\ DiscoveredIsTold /\ NewestKept

\* The constants as single facts.
LEMMA Constants ==
  /\ Stale \in Nat /\ Offline \in Nat /\ Throttle \in Nat /\ MaxStored \in Nat
  /\ Stale > 0 /\ Offline > 0 /\ Throttle > 0 /\ MaxStored > 0
  /\ Stale < Offline /\ Forget \in Nat /\ Forget > Offline
  /\ MaxSends \in Nat
BY PresenceAssumption DEF Forget

-----------------------------------------------------------------------------
(* The parts *)

LEMMA HeartbeatRecorded ==
  ASSUME TypeOK, NEW p \in Peers, RecordHeartbeat(p)
  PROVE  /\ DOMAIN age' = Tracked \cup {p}
         /\ age' \in [DOMAIN age' -> 0..Forget]
         /\ DOMAIN age' \subseteq Peers
         /\ \A q \in Tracked : q # p => age'[q] = age[q]
         /\ age'[p] = 0
BY Constants DEF TypeOK, RecordHeartbeat, Tracked, With

LEMMA Upserted ==
  ASSUME TypeOK, NEW p \in Peers, NEW info \in Infos, topology' = Upsert(p, info)
  PROVE  /\ DOMAIN topology' \in {Known, Known \cup {p}}
         /\ topology' \in [DOMAIN topology' -> Infos]
         /\ \A q \in Known : q # p => topology'[q] = topology[q]
         /\ p \in DOMAIN topology' => topology'[p] = info
BY DEF TypeOK, Upsert, Known, With

LEMMA BytesRecorded ==
  ASSUME TypeOK, NEW p \in Peers, RecordBytes(p)
  PROVE  /\ DOMAIN score' = Scored \cup {p}
         /\ score' \in [DOMAIN score' -> Levels]
BY DEF TypeOK, RecordBytes, Scored, Levels, With

LEMMA RelayRecorded ==
  ASSUME TypeOK, NEW p \in Peers, RecordRelay(p)
  PROVE  /\ DOMAIN score' = Scored \cup {p}
         /\ score' \in [DOMAIN score' -> Levels]
<1>1. PICK s \in IF p \in Scored /\ score[p] # "low" THEN {score[p], "high"} ELSE {"middle"} :
              score' = With(score, p, s)
  BY DEF RecordRelay
<1>2. s \in Levels
  BY <1>1 DEF TypeOK, Levels, Scored
<1>3. QED
  BY <1>1, <1>2 DEF TypeOK, Scored, With

LEMMA Claimed ==
  ASSUME TypeOK, NEW p \in Peers, NEW role \in Roles, Claim(p, role)
  PROVE  /\ claims' \subseteq Peers
         /\ \A q \in Peers : q # p => (q \in claims' <=> q \in claims)
         /\ role = "Relay" => p \in claims'
BY DEF TypeOK, Claim

\* The liveness of a tracked peer in the order of its age.
LEMMA LivenessCases ==
  ASSUME TypeOK, NEW p \in Tracked
  PROVE  /\ Liveness(p) \in Statuses
         /\ age[p] >= Offline <=> Liveness(p) = "Offline"
BY Constants DEF TypeOK, Liveness, Statuses

\* What the other peers' entries keep when one peer is heard of: p comes to be scored,
\* to be a plain peer, or to be a relay by its own claim, or nothing is heard of it.
LEMMA OneHeard ==
  ASSUME PresenceInv, NEW p \in Peers, NEW info \in Infos,
         DOMAIN topology' \subseteq Known \cup {p},
         DOMAIN age' \subseteq Tracked \cup {p},
         Scored \subseteq DOMAIN score',
         \A q \in Peers \ {p} :
           /\ q \in DOMAIN topology' => topology'[q] = topology[q]
           /\ q \in DOMAIN age' => age'[q] = age[q]
           /\ q \in claims' <=> q \in claims,
         p \in DOMAIN topology' =>
           \/ p \in DOMAIN score'
           \/ topology'[p].role = "Peer"
           \/ p \in claims'
  PROVE  UnearnedIsAway'
BY DEF PresenceInv, TypeOK, UnearnedIsAway, Known, Tracked, Scored

\* The types of what most handlers leave alone.
LEMMA HeardType ==
  ASSUME TypeOK, UNCHANGED <<discovered, full, backupVars, restarts>>,
         DOMAIN age' \subseteq Peers, age' \in [DOMAIN age' -> 0..Forget],
         DOMAIN topology' \subseteq Peers, topology' \in [DOMAIN topology' -> Infos],
         DOMAIN score' \subseteq Peers, score' \in [DOMAIN score' -> Levels],
         quiet' \in [Peers -> 0..Throttle],
         told' \in [Peers -> Statuses \cup {"None"}],
         claims' \subseteq Peers
  PROVE  TypeOK'
BY DEF TypeOK, Tracked, Known, Scored, backupVars

\* Handlers that leave what the application was told alone, and enter or set peers
\* as online only.
LEMMA NewsStay ==
  ASSUME PresenceInv, UNCHANGED <<discovered, told, backupVars>>,
         \A q \in DOMAIN topology' :
           \/ q \in Known /\ topology'[q].status = topology[q].status
           \/ topology'[q].status = "Online"
  PROVE  ToldNoBetter' /\ DiscoveredIsTold' /\ NewestKept'
<1>1. DiscoveredIsTold'
  BY DEF PresenceInv, DiscoveredIsTold
<1>2. NewestKept'
  BY DEF PresenceInv, NewestKept, backupVars
<1>3. ToldNoBetter'
  BY DEF PresenceInv, ToldNoBetter, Known
<1>4. QED
  BY <1>1, <1>2, <1>3

-----------------------------------------------------------------------------
(* The steps *)

\* handle_incoming, with or without the forwarding of what came.
LEMMA IncomingInv ==
  ASSUME PresenceInv, NEW p \in Peers, Incoming(p) \/ Forward(p)
  PROVE  PresenceInv'
<1>0. TypeOK
  BY DEF PresenceInv
<1>1. /\ RecordHeartbeat(p)
      /\ topology' = IF p \in Known THEN topology ELSE Upsert(p, Info("Peer", "Online"))
      /\ UNCHANGED <<discovered, claims, quiet, full, backupVars, told, restarts>>
  BY DEF Incoming, Forward
<1>2. DOMAIN score' = Scored \cup {p} /\ score' \in [DOMAIN score' -> Levels]
  BY ZenonT(30), <1>0, BytesRecorded, RelayRecorded DEF Incoming, Forward
<1>3. /\ DOMAIN age' = Tracked \cup {p} /\ age' \in [DOMAIN age' -> 0..Forget]
      /\ DOMAIN age' \subseteq Peers
      /\ \A q \in Tracked : q # p => age'[q] = age[q]
  BY <1>0, <1>1, HeartbeatRecorded
<1>4. Info("Peer", "Online") \in Infos
  BY DEF Info, Infos, Roles, Statuses
<1>5. /\ DOMAIN topology' \in {Known, Known \cup {p}}
      /\ topology' \in [DOMAIN topology' -> Infos]
      /\ \A q \in Known : topology'[q] = topology[q]
      /\ p \in DOMAIN topology' /\ p \notin Known => topology'[p] = Info("Peer", "Online")
  <2>1. CASE p \in Known
    BY <1>0, <1>1, <2>1 DEF TypeOK, Known
  <2>2. CASE p \notin Known
    BY ZenonT(30), <1>0, <1>1, <1>4, <2>2, Upserted
  <2>3. QED
    BY <2>1, <2>2
<1>6. TypeOK'
  BY <1>0, <1>1, <1>2, <1>3, <1>5, HeardType DEF TypeOK
<1>7. UnearnedIsAway'
  BY <1>0, <1>1, <1>2, <1>3, <1>4, <1>5, OneHeard DEF TypeOK
<1>8. ToldNoBetter' /\ DiscoveredIsTold' /\ NewestKept'
  BY <1>1, <1>5, NewsStay DEF Info
<1>9. QED
  BY <1>6, <1>7, <1>8 DEF PresenceInv

\* The announcements: of the peer itself, by gossip, of a neighbour.
LEMMA AnnounceInv ==
  ASSUME PresenceInv, NEW p \in Peers, NEW role \in Roles,
         (role = "Peer" /\ DirectAnnounce(p)) \/ GossipAnnounce(p, role)
  PROVE  PresenceInv'
<1>0. TypeOK
  BY DEF PresenceInv
<1>1. /\ RecordHeartbeat(p) /\ Claim(p, role)
      /\ topology' = Upsert(p, Info(role, "Online"))
      /\ UNCHANGED <<discovered, quiet, full, backupVars, told, restarts>>
  BY DEF DirectAnnounce, GossipAnnounce, Present
<1>2. /\ DOMAIN score' \in {Scored, Scored \cup {p}}
      /\ score' \in [DOMAIN score' -> Levels]
  BY ZenonT(30), <1>0, BytesRecorded DEF DirectAnnounce, GossipAnnounce, TypeOK, Scored
<1>3. /\ DOMAIN age' = Tracked \cup {p} /\ age' \in [DOMAIN age' -> 0..Forget]
      /\ DOMAIN age' \subseteq Peers
      /\ \A q \in Tracked : q # p => age'[q] = age[q]
  BY ZenonT(30), <1>0, <1>1, HeartbeatRecorded
<1>4. Info(role, "Online") \in Infos
  BY DEF Info, Infos, Statuses
<1>5. /\ DOMAIN topology' \in {Known, Known \cup {p}}
      /\ topology' \in [DOMAIN topology' -> Infos]
      /\ \A q \in Known : q # p => topology'[q] = topology[q]
      /\ p \in DOMAIN topology' => topology'[p] = Info(role, "Online")
  BY ZenonT(30), <1>0, <1>1, <1>4, Upserted
<1>6. /\ claims' \subseteq Peers
      /\ \A q \in Peers : q # p => (q \in claims' <=> q \in claims)
      /\ role = "Relay" => p \in claims'
  BY <1>0, <1>1, Claimed
<1>7. TypeOK'
  BY <1>0, <1>1, <1>2, <1>3, <1>5, <1>6, HeardType DEF TypeOK
<1>8. UnearnedIsAway'
  <2>1. p \in DOMAIN topology' => topology'[p].role = "Peer" \/ p \in claims'
    BY <1>5, <1>6 DEF Info, Roles
  <2>2. QED
    BY <1>0, <1>1, <1>2, <1>3, <1>4, <1>5, <1>6, <2>1, OneHeard DEF TypeOK
<1>9. ToldNoBetter' /\ DiscoveredIsTold' /\ NewestKept'
  BY <1>1, <1>5, NewsStay DEF Info
<1>10. QED
  BY <1>7, <1>8, <1>9 DEF PresenceInv

LEMMA RoleAnnounceInv ==
  ASSUME PresenceInv, NEW p \in Peers, NEW role \in Roles, RoleAnnounce(p, role)
  PROVE  PresenceInv'
<1>0. TypeOK
  BY DEF PresenceInv
<1>1. /\ Claim(p, role)
      /\ topology' = IF p \in Known THEN [topology EXCEPT ![p].role = role]
                     ELSE Upsert(p, Info(role, "Online"))
      /\ quiet' = [quiet EXCEPT ![p] = Throttle]
      /\ UNCHANGED <<age, discovered, score, full, backupVars, told, restarts>>
  BY DEF RoleAnnounce, trackerVars
<1>2. Info(role, "Online") \in Infos
  BY DEF Info, Infos, Statuses
<1>3. /\ DOMAIN topology' \in {Known, Known \cup {p}}
      /\ topology' \in [DOMAIN topology' -> Infos]
      /\ \A q \in Known : q # p => topology'[q] = topology[q]
      /\ p \in Known => topology'[p].status = topology[p].status
      /\ p \in DOMAIN topology' =>
           topology'[p].role = role /\ (p \notin Known => topology'[p].status = "Online")
  <2>1. CASE p \in Known
    BY <1>0, <1>1, <2>1 DEF TypeOK, Known, Infos
  <2>2. CASE p \notin Known
    BY <1>0, <1>1, <1>2, <2>2, Upserted DEF Info
  <2>3. QED
    BY <2>1, <2>2
<1>4. /\ claims' \subseteq Peers
      /\ \A q \in Peers : q # p => (q \in claims' <=> q \in claims)
      /\ role = "Relay" => p \in claims'
  BY <1>0, <1>1, Claimed
<1>5. quiet' \in [Peers -> 0..Throttle]
  BY <1>0, <1>1, Constants DEF TypeOK
<1>6. TypeOK'
  BY SMTT(30), <1>0, <1>1, <1>3, <1>4, <1>5, HeardType DEF TypeOK, Tracked, Scored
<1>7. UnearnedIsAway'
  <2>1. p \in DOMAIN topology' => topology'[p].role = "Peer" \/ p \in claims'
    BY <1>3, <1>4 DEF Roles
  <2>2. QED
    BY <1>0, <1>1, <1>2, <1>3, <1>4, <2>1, OneHeard DEF TypeOK, Tracked, Scored
<1>8. ToldNoBetter' /\ DiscoveredIsTold' /\ NewestKept'
  BY <1>1, <1>3, NewsStay
<1>9. QED
  BY <1>6, <1>7, <1>8 DEF PresenceInv

LEMMA UpsertPeerInv ==
  ASSUME PresenceInv, NEW p \in Peers, NEW info \in Infos, UpsertPeer(p, info)
  PROVE  PresenceInv'
<1>0. TypeOK /\ info.role \in Roles /\ info.status \in Statuses
  BY DEF PresenceInv, Infos
<1>1. /\ RecordHeartbeat(p) /\ Claim(p, info.role)
      /\ topology' = Upsert(p, info)
      /\ told' = [told EXCEPT ![p] = info.status]
      /\ UNCHANGED <<discovered, score, quiet, full, backupVars, restarts>>
  BY DEF UpsertPeer
<1>2. /\ DOMAIN age' = Tracked \cup {p} /\ age' \in [DOMAIN age' -> 0..Forget]
      /\ DOMAIN age' \subseteq Peers
      /\ \A q \in Tracked : q # p => age'[q] = age[q]
  BY SMTT(30), <1>0, <1>1, HeartbeatRecorded
<1>3. /\ DOMAIN topology' \in {Known, Known \cup {p}}
      /\ topology' \in [DOMAIN topology' -> Infos]
      /\ \A q \in Known : q # p => topology'[q] = topology[q]
      /\ p \in DOMAIN topology' => topology'[p] = info
  BY ZenonT(30), <1>0, <1>1, Upserted
<1>4. /\ claims' \subseteq Peers
      /\ \A q \in Peers : q # p => (q \in claims' <=> q \in claims)
      /\ info.role = "Relay" => p \in claims'
  BY <1>0, <1>1, Claimed
<1>5. /\ told' \in [Peers -> Statuses \cup {"None"}]
      /\ told'[p] = info.status /\ told'[p] # "None"
      /\ \A q \in Peers : q # p => told'[q] = told[q]
  BY SMTT(30), <1>0, <1>1 DEF TypeOK, Statuses
<1>6. TypeOK'
  BY SMTT(30), <1>0, <1>1, <1>2, <1>3, <1>4, <1>5, HeardType DEF TypeOK, Scored
<1>7. UnearnedIsAway'
  <2>1. p \in DOMAIN topology' => topology'[p].role = "Peer" \/ p \in claims'
    BY <1>0, <1>3, <1>4 DEF Roles
  <2>2. QED
    BY SMTT(30), <1>0, <1>1, <1>2, <1>3, <1>4, <2>1, OneHeard DEF TypeOK, Scored
<1>8. ToldNoBetter'
  BY <1>0, <1>3, <1>5 DEF PresenceInv, ToldNoBetter, TypeOK, Known
<1>9. DiscoveredIsTold' /\ NewestKept'
  <2>1. DiscoveredIsTold'
    BY <1>0, <1>1, <1>5 DEF PresenceInv, DiscoveredIsTold, TypeOK
  <2>2. NewestKept'
    BY <1>1 DEF PresenceInv, NewestKept, backupVars
  <2>3. QED
    BY <2>1, <2>2
<1>10. QED
  BY <1>6, <1>7, <1>8, <1>9 DEF PresenceInv

LEMMA RemovePeerInv ==
  ASSUME PresenceInv, NEW p \in Peers, RemovePeer(p)
  PROVE  PresenceInv'
<1>0. TypeOK
  BY DEF PresenceInv
<1>1. /\ topology' = Restrict(topology, Known \ {p})
      /\ age' = Restrict(age, Tracked \ {p})
      /\ claims' = claims \ {p}
      /\ UNCHANGED <<discovered, score, quiet, full, backupVars, told, restarts>>
  BY DEF RemovePeer
<1>2. /\ DOMAIN topology' = Known \ {p} /\ topology' \in [DOMAIN topology' -> Infos]
      /\ \A q \in Known \ {p} : topology'[q] = topology[q]
  BY <1>0, <1>1 DEF TypeOK, Restrict, Known
<1>3. /\ DOMAIN age' = Tracked \ {p} /\ age' \in [DOMAIN age' -> 0..Forget]
      /\ \A q \in Tracked \ {p} : age'[q] = age[q]
  BY <1>0, <1>1 DEF TypeOK, Restrict, Tracked
<1>4. TypeOK'
  BY ZenonT(30), <1>0, <1>1, <1>2, <1>3, HeardType DEF TypeOK, Scored
<1>5. Info("Peer", "Online") \in Infos
  BY DEF Info, Infos, Roles, Statuses
<1>6. UnearnedIsAway'
  BY ZenonT(30), <1>0, <1>1, <1>2, <1>3, <1>5, OneHeard DEF TypeOK, Scored
<1>7. ToldNoBetter' /\ DiscoveredIsTold' /\ NewestKept'
  BY <1>1, <1>2, NewsStay
<1>8. QED
  BY <1>4, <1>6, <1>7 DEF PresenceInv

\* The clock, the decay of scores and the peers that fill the topology.
LEMMA TimeInv ==
  ASSUME PresenceInv, Elapse \/ HoursPass \/ OthersCome \/ UNCHANGED vars
  PROVE  PresenceInv'
<1>0. TypeOK
  BY DEF PresenceInv
<1>1. UNCHANGED <<discovered, topology, claims, told, backup, sent>>
  BY DEF Elapse, HoursPass, OthersCome, vars, trackerVars, topologyVars, backupVars
<1>2. /\ DOMAIN age' = Tracked /\ age' \in [Tracked -> 0..Forget]
      /\ \A p \in Tracked : age[p] >= Offline => age'[p] >= Offline
  <2>1. CASE Elapse
    BY <1>0, <2>1, Constants DEF Elapse, TypeOK, Tracked
  <2>2. CASE age' = age
    BY <1>0, <2>2 DEF TypeOK, Tracked
  <2>3. QED
    BY <2>1, <2>2 DEF HoursPass, OthersCome, vars, trackerVars
<1>3. DOMAIN score' = Scored /\ score' \in [Scored -> Levels]
  <2>1. ASSUME NEW p \in Scored,
               score' = [score EXCEPT ![p] = IF @ = "high" THEN "middle" ELSE "low"]
        PROVE  DOMAIN score' = Scored /\ score' \in [Scored -> Levels]
    BY <1>0, <2>1 DEF TypeOK, Scored, Levels
  <2>2. CASE score' = score
    BY <1>0, <2>2 DEF TypeOK, Scored
  <2>3. QED
    BY <2>1, <2>2 DEF Elapse, HoursPass, OthersCome, vars
<1>4. quiet' \in [Peers -> 0..Throttle]
  <2>1. CASE Elapse
    BY <1>0, <2>1, Constants DEF Elapse, TypeOK
  <2>2. CASE quiet' = quiet
    BY <1>0, <2>2 DEF TypeOK
  <2>3. QED
    BY <2>1, <2>2 DEF HoursPass, OthersCome, vars
<1>5. horizon' \in 0..sent /\ horizon' >= horizon
  BY <1>0, Constants DEF TypeOK, Elapse, HoursPass, OthersCome, vars, backupVars
<1>6. TypeOK'
  BY <1>0, <1>1, <1>2, <1>3, <1>4, <1>5 DEF TypeOK, Known, Tracked, Scored
<1>7. UnearnedIsAway'
  BY <1>1, <1>2, <1>3 DEF PresenceInv, UnearnedIsAway, Known, Tracked, Scored
<1>8. ToldNoBetter' /\ DiscoveredIsTold'
  BY <1>1 DEF PresenceInv, ToldNoBetter, DiscoveredIsTold, Known
<1>9. NewestKept'
  BY <1>0, <1>1, <1>5, Constants DEF PresenceInv, NewestKept, TypeOK
<1>10. QED
  BY <1>6, <1>7, <1>8, <1>9 DEF PresenceInv

\* What check_all reports of a known tracked peer leaves it told and set alike.
LEMMA HeartbeatTickInv ==
  ASSUME PresenceInv, HeartbeatTick
  PROVE  PresenceInv'
<1>0. TypeOK
  BY DEF PresenceInv
<1>1. /\ DOMAIN topology' = Known /\ topology' \in [Known -> Infos]
      /\ \A p \in Known : topology'[p].role = topology[p].role
      /\ \A p \in Known \cap Tracked : topology'[p].status = Liveness(p)
      /\ \A p \in Known \ Tracked : topology'[p] = topology[p]
  <2>1. topology' = [p \in Known |-> IF p \in Tracked
                                     THEN [topology[p] EXCEPT !.status = Liveness(p)]
                                     ELSE topology[p]]
    BY DEF HeartbeatTick
  <2>2. \A p \in Tracked : Liveness(p) \in Statuses
    BY <1>0, LivenessCases
  <2>3. \A p \in Known : topology[p] \in Infos
    BY <1>0 DEF TypeOK
  <2>4. QED
    BY <2>1, <2>2, <2>3 DEF Infos
<1>2. /\ DOMAIN age' = Tracked \ Departed /\ age' \in [DOMAIN age' -> 0..Forget]
      /\ \A p \in DOMAIN age' : age'[p] = age[p]
  BY <1>0 DEF HeartbeatTick, Restrict, TypeOK, Tracked
<1>3. /\ DOMAIN score' = Scored \ Reported("Offline")
      /\ score' \in [DOMAIN score' -> Levels]
  BY <1>0 DEF HeartbeatTick, Restrict, TypeOK, Scored
<1>4. /\ \A p \in Peers : told'[p] = Notify(p)
      /\ discovered' = (discovered \cup Reported("Discovered")) \ Departed
      /\ UNCHANGED <<claims, quiet, full, backup, sent, horizon, restarts>>
  BY DEF HeartbeatTick
<1>5. ASSUME NEW p \in Peers
      PROVE  /\ p \notin Tracked => Notify(p) = told[p]
             /\ p \in Tracked /\ Event(p) = "None" => Notify(p) = told[p]
             /\ p \in Tracked /\ Event(p) = "Discovered" => Notify(p) = "Online"
             /\ p \in Tracked /\ Event(p) \in Statuses => Notify(p) = Event(p)
  BY DEF Notify, Reported, Statuses
<1>6. ASSUME NEW p \in Tracked
      PROVE  /\ Event(p) \in Statuses \cup {"None", "Discovered"}
             /\ Event(p) = "Discovered" => Liveness(p) = "Online"
             /\ Event(p) \in Statuses => Event(p) = Liveness(p)
             /\ Event(p) = "None" => Liveness(p) = "Online" \/ Status(p) = Liveness(p)
  BY <1>0, LivenessCases DEF Event, Statuses
<1>7. told' \in [Peers -> Statuses \cup {"None"}]
  <2>1. \A p \in Peers : Notify(p) \in Statuses \cup {"None"}
    BY <1>0, <1>5, <1>6 DEF TypeOK, Statuses
  <2>2. told' = [p \in Peers |-> Notify(p)]
    BY DEF HeartbeatTick
  <2>3. QED
    BY <2>1, <2>2
<1>8. TypeOK'
  <2>1. discovered' \subseteq Peers
    BY <1>0, <1>4 DEF TypeOK, Reported
  <2>2. QED
    BY SMTT(30), <1>0, <1>1, <1>2, <1>3, <1>4, <1>7, <2>1 DEF TypeOK, Known, Tracked, Scored
<1>9. UnearnedIsAway'
  <2> SUFFICES ASSUME NEW p \in Known,
                      topology'[p].role = "Relay", p \notin claims, p \notin DOMAIN score'
               PROVE  topology'[p].status = "Offline" /\ (p \in DOMAIN age' => age'[p] >= Offline)
    BY <1>1, <1>4 DEF UnearnedIsAway, Known, Tracked, Scored
  <2>1. CASE p \in Reported("Offline")
    <3>1. p \in Tracked /\ Event(p) = "Offline"
      BY <2>1 DEF Reported
    <3>2. Liveness(p) = "Offline"
      BY <1>6, <3>1 DEF Statuses
    <3>3. QED
      BY <1>0, <1>1, <1>2, <3>1, <3>2, LivenessCases
  <2>2. CASE p \notin Scored
    <3>1. topology[p].status = "Offline" /\ (p \in Tracked => age[p] >= Offline)
      BY <1>1, <2>2 DEF PresenceInv, UnearnedIsAway
    <3>2. CASE p \in Tracked
      BY <1>0, <1>1, <1>2, <3>1, <3>2, LivenessCases
    <3>3. CASE p \notin Tracked
      BY <1>1, <1>2, <3>1, <3>3
    <3>4. QED
      BY <3>2, <3>3
  <2>3. QED
    BY <1>3, <2>1, <2>2
<1>10. ToldNoBetter'
  <2> SUFFICES ASSUME NEW p \in Known
               PROVE  /\ topology'[p].status = "Stale" => told'[p] # "Online"
                      /\ topology'[p].status = "Offline" => told'[p] \in {"Offline", "None"}
    BY <1>1 DEF ToldNoBetter, Known
  <2>0. p \in Peers
    BY <1>0 DEF TypeOK
  <2>1. /\ topology[p].status = "Stale" => told[p] # "Online"
        /\ topology[p].status = "Offline" => told[p] \in {"Offline", "None"}
    BY DEF PresenceInv, ToldNoBetter
  <2>2. CASE p \notin Tracked
    BY <1>1, <1>4, <1>5, <2>0, <2>1, <2>2
  <2>3. CASE p \in Tracked /\ Event(p) = "None"
    <3>1. told'[p] = told[p] /\ topology'[p].status = Liveness(p)
      BY <1>1, <1>4, <1>5, <2>0, <2>3
    <3>2. Liveness(p) = "Online" \/ topology[p].status = Liveness(p)
      BY <1>6, <2>3 DEF Status
    <3>3. QED
      BY <2>1, <3>1, <3>2
  <2>4. CASE p \in Tracked /\ Event(p) # "None"
    <3>1. topology'[p].status = Liveness(p) /\ told'[p] = Notify(p)
      BY <1>1, <1>4, <2>0, <2>4
    <3>2. Event(p) = "Discovered" \/ Event(p) \in Statuses
      BY <1>6, <2>4
    <3>3. QED
      BY SMTT(30), <1>5, <1>6, <2>0, <2>4, <3>1, <3>2
  <2>5. QED
    BY <2>2, <2>3, <2>4
<1>11. DiscoveredIsTold'
  <2> SUFFICES ASSUME NEW p \in discovered' PROVE told'[p] # "None"
    BY DEF DiscoveredIsTold
  <2>0. p \in Peers
    BY <1>8 DEF TypeOK
  <2>1. CASE p \in discovered
    <3>1. told[p] # "None"
      BY <2>1 DEF PresenceInv, DiscoveredIsTold
    <3>2. CASE p \notin Tracked \/ Event(p) = "None"
      BY SMTT(30), <1>4, <1>5, <2>0, <3>1, <3>2
    <3>3. CASE p \in Tracked /\ Event(p) # "None"
      BY <1>4, <1>5, <1>6, <2>0, <3>3 DEF Statuses
    <3>4. QED
      BY <3>2, <3>3
  <2>2. CASE p \in Reported("Discovered")
    BY <1>4, <1>5, <2>0, <2>2 DEF Reported
  <2>3. QED
    BY <1>4, <2>1, <2>2
<1>12. NewestKept'
  BY <1>4 DEF PresenceInv, NewestKept
<1>13. QED
  BY <1>8, <1>9, <1>10, <1>11, <1>12 DEF PresenceInv

LEMMA RoleTickInv ==
  ASSUME PresenceInv, RoleTick
  PROVE  PresenceInv'
<1>0. TypeOK
  BY DEF PresenceInv
<1>1. /\ DOMAIN topology' = Known /\ topology' \in [Known -> Infos]
      /\ \A p \in Known : topology'[p].status = topology[p].status
      /\ \A p \in Known : topology'[p].role = "Relay" =>
           p \notin Demoted /\ (p \in Scored \/ topology[p].role = "Relay")
  <2>1. topology' = [p \in Known |->
                      IF p \in Promoted THEN [topology[p] EXCEPT !.role = "Relay"]
                      ELSE IF p \in Demoted THEN [topology[p] EXCEPT !.role = "Peer"]
                      ELSE topology[p]]
    BY DEF RoleTick
  <2>2. \A p \in Known : topology[p] \in Infos
    BY <1>0 DEF TypeOK
  <2>3. Promoted \subseteq Scored /\ Promoted \cap Demoted = {}
    BY DEF Promoted, Demoted
  <2>4. QED
    BY <2>1, <2>2, <2>3 DEF Infos, Roles
<1>2. /\ claims' = claims \ Demoted
      /\ UNCHANGED <<age, discovered, score, quiet, full, backupVars, told, restarts>>
  BY DEF RoleTick, trackerVars
<1>3. TypeOK'
  BY SMTT(30), <1>0, <1>1, <1>2, HeardType DEF TypeOK, Tracked, Scored, Known
<1>4. UnearnedIsAway'
  BY SMTT(30), <1>1, <1>2 DEF PresenceInv, UnearnedIsAway, Known, Tracked, Scored
<1>5. ToldNoBetter' /\ DiscoveredIsTold' /\ NewestKept'
  BY <1>1, <1>2, NewsStay
<1>6. QED
  BY <1>3, <1>4, <1>5 DEF PresenceInv

\* A set of numbers that is not empty has a least one.
LEMMA OldestExists ==
  ASSUME NEW S \in SUBSET Nat, S # {}
  PROVE  \E m \in S : \A n \in S : m <= n
<1> DEFINE R == OpToRel(<, Nat)
<1>1. IsWellFoundedOn(R, Nat)
  BY NatLessThanWellFounded
<1>2. \A x, y \in Nat : <<x, y>> \in R <=> x < y
  BY DEF OpToRel
<1> HIDE DEF R
<1>3. PICK x \in S : \A y \in S : ~(<<y, x>> \in R)
  BY ZenonT(30), <1>1, WFMin
<1>4. ASSUME NEW y \in S PROVE x <= y
  <2>1. x \in Nat /\ y \in Nat
    OBVIOUS
  <2>2. ~(y < x)
    BY Zenon, <1>2, <1>3, <2>1
  <2>3. QED
    BY <2>1, <2>2
<1>5. QED
  BY <1>4

\* The store makes room by the oldest message, which is none of the newest: as many
\* numbers as the store holds do not fit above it.
LEMMA RoomMade ==
  ASSUME TypeOK
  PROVE  /\ EvictOldest(backup) \subseteq backup
         /\ IsFiniteSet(EvictOldest(backup))
         /\ Cardinality(EvictOldest(backup)) < MaxStored
         /\ \A m \in backup : m > sent + 1 - MaxStored => m \in EvictOldest(backup)
<1>0. /\ backup \subseteq 1..sent /\ sent \in Nat /\ MaxStored \in Nat /\ MaxStored > 0
      /\ Cardinality(backup) <= MaxStored
  BY Constants DEF TypeOK
<1>1. IsFiniteSet(backup) /\ Cardinality(backup) \in Nat
  <2>1. IsFiniteSet(1..sent)
    BY <1>0, FS_Interval
  <2>2. QED
    BY ZenonT(30), <1>0, <2>1, FS_Subset, FS_CardinalityType
<1>2. CASE Cardinality(backup) < MaxStored
  BY <1>1, <1>2 DEF EvictOldest
<1>3. CASE ~(Cardinality(backup) < MaxStored)
  <2> DEFINE old == CHOOSE m \in backup : \A n \in backup : m <= n
  <2>1. backup \in SUBSET Nat /\ backup # {}
    BY <1>0, <1>1, <1>3, FS_EmptySet
  <2>2. old \in backup /\ \A n \in backup : old <= n
    BY ZenonT(30), <2>1, OldestExists
  <2>3. EvictOldest(backup) = backup \ {old}
    BY <1>3 DEF EvictOldest
  <2> HIDE DEF old
  <2>4. /\ IsFiniteSet(backup \ {old})
        /\ Cardinality(backup \ {old}) = Cardinality(backup) - 1
    BY <1>1, <2>2, FS_RemoveElement
  <2>5. ~(old > sent + 1 - MaxStored)
    <3>1. SUFFICES ASSUME old > sent + 1 - MaxStored PROVE FALSE
      OBVIOUS
    <3>2. old \in Int /\ old <= sent
      BY <1>0, <2>2
    <3>3. backup \subseteq old..sent
      BY <1>0, <2>2, <3>2
    <3>4. /\ IsFiniteSet(old..sent)
          /\ Cardinality(old..sent) = IF old > sent THEN 0 ELSE sent - old + 1
      BY <1>0, <3>2, FS_Interval
    <3>5. Cardinality(backup) <= Cardinality(old..sent)
      BY ZenonT(30), <3>3, <3>4, FS_Subset
    <3>6. Cardinality(old..sent) = sent - old + 1
      BY <1>0, <3>2, <3>4
    <3>7. sent - old + 1 < MaxStored
      BY <1>0, <3>1, <3>2
    <3>8. QED
      BY <1>0, <1>1, <1>3, <3>2, <3>5, <3>6, <3>7
  <2>6. QED
    BY <1>0, <1>1, <2>2, <2>3, <2>4, <2>5
<1>4. QED
  BY <1>2, <1>3

LEMMA BackupInv ==
  ASSUME PresenceInv, SendMessage \/ BackupTick
  PROVE  PresenceInv'
<1>0. TypeOK /\ NewestKept
  BY DEF PresenceInv
<1>1. UNCHANGED <<age, discovered, topology, claims, score, quiet, full, horizon, told, restarts>>
  BY DEF SendMessage, BackupTick, trackerVars, topologyVars
<1>2. UnearnedIsAway' /\ ToldNoBetter' /\ DiscoveredIsTold'
  BY <1>1 DEF PresenceInv, UnearnedIsAway, ToldNoBetter, DiscoveredIsTold, Known, Tracked, Scored
<1>3. sent \in Nat /\ horizon \in Nat /\ MaxStored \in Nat /\ backup \subseteq 1..sent
  BY <1>0, Constants DEF TypeOK
<1>4. CASE SendMessage
  <2>1. sent < MaxSends /\ sent' = sent + 1 /\ backup' = EvictOldest(backup) \cup {sent + 1}
    BY <1>4 DEF SendMessage
  <2>2. /\ EvictOldest(backup) \subseteq backup
        /\ IsFiniteSet(EvictOldest(backup))
        /\ Cardinality(EvictOldest(backup)) < MaxStored
        /\ \A m \in backup : m > sent + 1 - MaxStored => m \in EvictOldest(backup)
    BY <1>0, RoomMade
  <2>3. /\ Cardinality(EvictOldest(backup)) \in Nat
        /\ Cardinality(backup') = IF sent + 1 \in EvictOldest(backup)
                                  THEN Cardinality(EvictOldest(backup))
                                  ELSE Cardinality(EvictOldest(backup)) + 1
    BY SMTT(30), <2>1, <2>2, FS_AddElement, FS_CardinalityType
  <2>4. Cardinality(backup') <= MaxStored
    BY <1>3, <2>2, <2>3
  <2>5. sent' \in 0..MaxSends /\ horizon' \in 0..sent' /\ backup' \subseteq 1..sent'
    <3>1. MaxSends \in Nat /\ horizon \in 0..sent /\ horizon' = horizon
      BY <1>0, <1>1, Constants DEF TypeOK
    <3>2. sent' \in 0..MaxSends /\ horizon' \in 0..sent'
      BY <1>3, <2>1, <3>1
    <3>3. 1..sent \subseteq 1..sent' /\ sent + 1 \in 1..sent'
      BY SMTT(30), <1>3, <2>1
    <3>4. QED
      BY ZenonT(30), <1>3, <2>1, <2>2, <3>2, <3>3
  <2>6. TypeOK'
    BY <1>0, <1>1, <2>4, <2>5 DEF TypeOK, Known, Tracked, Scored
  <2>7. NewestKept'
    <3> SUFFICES ASSUME NEW m \in 1..sent', m > horizon, m > sent' - MaxStored
                 PROVE  m \in backup'
      BY <1>1 DEF NewestKept
    <3>1. CASE m = sent + 1
      BY <2>1, <3>1
    <3>2. CASE m # sent + 1
      <4>1. m \in 1..sent /\ m > sent - MaxStored /\ m > sent + 1 - MaxStored
        BY <1>3, <2>1, <3>2
      <4>2. m \in backup
        BY <1>0, <4>1 DEF NewestKept
      <4>3. QED
        BY <2>1, <2>2, <4>1, <4>2
    <3>3. QED
      BY <3>1, <3>2
  <2>8. QED
    BY <1>2, <2>6, <2>7 DEF PresenceInv
<1>5. CASE BackupTick
  <2>1. sent' = sent /\ backup' = backup \ Expired
    BY <1>5 DEF BackupTick
  <2>2. Cardinality(backup') <= MaxStored
    <3>0. IsFiniteSet(1..sent)
      BY <1>3, FS_Interval
    <3>1. IsFiniteSet(backup)
      BY ZenonT(30), <1>3, <3>0, FS_Subset
    <3>2. Cardinality(backup') <= Cardinality(backup) /\ IsFiniteSet(backup')
      BY <2>1, <3>1, FS_Subset
    <3>3. Cardinality(backup) \in Nat /\ Cardinality(backup') \in Nat
      BY <3>1, <3>2, FS_CardinalityType
    <3>4. QED
      BY <1>0, <1>3, <3>2, <3>3 DEF TypeOK
  <2>3. TypeOK'
    BY <1>0, <1>1, <2>1, <2>2 DEF TypeOK, Known, Tracked, Scored
  <2>4. NewestKept'
    BY <1>0, <1>1, <1>3, <2>1 DEF NewestKept, Expired
  <2>5. QED
    BY <1>2, <2>3, <2>4 DEF PresenceInv
<1>6. QED
  BY <1>4, <1>5

LEMMA RestartInv ==
  ASSUME PresenceInv, Restart
  PROVE  PresenceInv'
<1>0. TypeOK
  BY DEF PresenceInv
<1>1. /\ DOMAIN topology' = Known /\ topology' \in [Known -> Infos]
      /\ \A p \in Known : topology'[p].status = "Offline"
  BY ZenonT(30), <1>0 DEF Restart, TypeOK, Infos, Statuses, Known
<1>2. /\ DOMAIN age' = {} /\ age' \in [DOMAIN age' -> 0..Forget]
      /\ discovered' = {} /\ backup' = {} /\ sent' = 0 /\ horizon' = 0
      /\ UNCHANGED <<score, claims>>
  BY DEF Restart, Empty
<1>3. /\ told' = [p \in Peers |-> "None"]
      /\ quiet' \in [Peers -> 0..Throttle]
  BY Constants DEF Restart
<1>4. Cardinality(backup') <= MaxStored
  <2>1. Cardinality({}) = 0
    BY FS_EmptySet
  <2>2. QED
    BY <1>2, <2>1, Constants
<1>5. TypeOK'
  <2>1. sent' \in 0..MaxSends /\ horizon' \in 0..sent' /\ backup' \subseteq 1..sent'
    BY <1>2, Constants
  <2>2. QED
    BY <1>0, <1>1, <1>2, <1>3, <1>4, <2>1 DEF TypeOK, Known, Tracked, Scored
<1>6. UnearnedIsAway' /\ ToldNoBetter' /\ DiscoveredIsTold'
  BY <1>0, <1>1, <1>2, <1>3 DEF TypeOK, UnearnedIsAway, ToldNoBetter, DiscoveredIsTold,
     Known, Tracked
<1>7. NewestKept'
  BY <1>2 DEF NewestKept
<1>8. QED
  BY <1>5, <1>6, <1>7 DEF PresenceInv

LEMMA PresenceInit ==
  ASSUME Init
  PROVE  PresenceInv
<1>1. /\ DOMAIN age = {} /\ age \in [DOMAIN age -> 0..Forget]
      /\ DOMAIN topology = {} /\ topology \in [DOMAIN topology -> Infos]
      /\ DOMAIN score = {} /\ score \in [DOMAIN score -> Levels]
  BY DEF Init, Empty
<1>2. /\ discovered = {} /\ claims = {} /\ backup = {} /\ sent = 0 /\ horizon = 0
      /\ told = [p \in Peers |-> "None"] /\ quiet \in [Peers -> 0..Throttle]
  BY Constants DEF Init
<1>3. Cardinality(backup) <= MaxStored
  <2>1. Cardinality({}) = 0
    BY FS_EmptySet
  <2>2. QED
    BY <1>2, <2>1, Constants
<1>4. TypeOK
  <2>1. sent \in 0..MaxSends /\ horizon \in 0..sent /\ backup \subseteq 1..sent
    BY <1>2, Constants
  <2>2. QED
    BY <1>1, <1>2, <1>3, <2>1 DEF TypeOK, Known, Tracked, Scored
<1>5. UnearnedIsAway /\ ToldNoBetter /\ DiscoveredIsTold /\ NewestKept
  BY <1>1, <1>2 DEF UnearnedIsAway, ToldNoBetter, DiscoveredIsTold, NewestKept, Known
<1>6. QED
  BY <1>4, <1>5 DEF PresenceInv

LEMMA PresenceStep ==
  ASSUME PresenceInv, [Next]_vars
  PROVE  PresenceInv'
<1>1. ASSUME NEW p \in Peers, NeighborUp(p) PROVE PresenceInv'
  <2>1. GossipAnnounce(p, "Peer") /\ "Peer" \in Roles
    BY <1>1 DEF NeighborUp, Roles
  <2>2. QED
    BY <2>1, AnnounceInv
<1>2. ASSUME NEW p \in Peers, DirectAnnounce(p) PROVE PresenceInv'
  <2>1. "Peer" \in Roles
    BY DEF Roles
  <2>2. QED
    BY <1>2, <2>1, AnnounceInv
<1>3. ASSUME NEW p \in Peers, NEW role \in Roles, NEW status \in Statuses,
             UpsertPeer(p, Info(role, status))
      PROVE  PresenceInv'
  <2>1. Info(role, status) \in Infos
    BY DEF Info, Infos
  <2>2. QED
    BY <1>3, <2>1, UpsertPeerInv
<1>4. QED
  BY Zenon, <1>1, <1>2, <1>3, IncomingInv, AnnounceInv, RoleAnnounceInv, RemovePeerInv, BackupInv,
     HeartbeatTickInv, RoleTickInv, TimeInv, RestartInv DEF Next

THEOREM PresenceInvariant == Spec => []PresenceInv
<1>1. Init => PresenceInv
  BY PresenceInit
<1>2. PresenceInv /\ [Next]_vars => PresenceInv'
  BY PresenceStep
<1>3. QED
  BY <1>1, <1>2, PTL DEF Spec

-----------------------------------------------------------------------------
(* The properties *)

\* Tracker, topology, scores and throttle keep their types, and the backup store
\* never holds more than MAX_TOTAL_MESSAGES.
THEOREM TypeCorrectness == Spec => []TypeOK
<1>1. PresenceInv => TypeOK
  BY DEF PresenceInv
<1>2. QED
  BY <1>1, PresenceInvariant, PTL

\* Whatever order announcements, commands, ticks and restarts come in, check_all and
\* the handlers leave the application with no better news of a peer than the topology
\* has, unless the next tick has something to report.
THEOREM NewsAreNotTooGood == Spec => []NotToldTooWell
<1>1. PresenceInv => NotToldTooWell
  <2> SUFFICES ASSUME PresenceInv, NEW p \in Tracked \cap Known, Event(p) = "None"
               PROVE  /\ Rank[told[p]] >= Rank[Status(p)]
                      /\ Status(p) = "Online" => told[p] # "None"
    BY DEF NotToldTooWell
  <2>0. TypeOK /\ p \in Peers /\ told[p] \in Statuses \cup {"None"} /\ Status(p) \in Statuses
    BY DEF PresenceInv, TypeOK, Status, Infos
  <2>1. /\ Rank["Online"] = 1 /\ Rank["Stale"] = 2 /\ Rank["Offline"] = 3 /\ Rank["None"] = 4
    BY DEF Rank, Statuses
  <2>2. /\ Status(p) = "Stale" => told[p] # "Online"
        /\ Status(p) = "Offline" => told[p] \in {"Offline", "None"}
    BY DEF PresenceInv, ToldNoBetter, Status
  <2>3. Status(p) = "Online" => p \in discovered
    BY <2>0, LivenessCases DEF Event, Statuses
  <2>4. Status(p) = "Online" => told[p] # "None"
    BY <2>3 DEF PresenceInv, DiscoveredIsTold
  <2>5. QED
    BY <2>0, <2>1, <2>2, <2>4 DEF Statuses
<1>2. QED
  BY <1>1, PresenceInvariant, PTL

\* A peer that is online as a relay and that the next evaluate leaves one has a score
\* above the demotion threshold or claimed the role, although remove_node deletes the
\* scores of peers that go offline.
THEOREM RelaysAreEarned == Spec => []OnlineRelayEarned
<1>1. PresenceInv => OnlineRelayEarned
  BY DEF PresenceInv, UnearnedIsAway, OnlineRelayEarned, Promoted, Demoted, Info
<1>2. QED
  BY <1>1, PresenceInvariant, PTL

\* evict_oldest and cleanup_expired never take one of the newest messages whose time
\* is not over, for any capacity of the store.
THEOREM NewestAreKept == Spec => []NewestKept
<1>1. PresenceInv => NewestKept
  BY DEF PresenceInv
<1>2. QED
  BY <1>1, PresenceInvariant, PTL

\* cleanup_departed drops a peer only in a tick that has it offline in the topology.
THEOREM ForgottenAreOffline == Spec => ForgottenIsOffline
<1> DEFINE Gone == \A p \in Tracked \ DOMAIN age' :
                     p \in DOMAIN topology' => topology'[p].status = "Offline"
<1>1. ASSUME PresenceInv, [Next]_vars PROVE [Gone]_vars
  <2>0. TypeOK
    BY <1>1 DEF PresenceInv
  <2>1. CASE HeartbeatTick
    <3> SUFFICES ASSUME NEW p \in Tracked \ DOMAIN age', p \in DOMAIN topology'
                 PROVE  topology'[p].status = "Offline"
      OBVIOUS
    <3>1. p \in Departed
      BY <2>1 DEF HeartbeatTick, Restrict
    <3>2. age[p] >= Offline
      BY <2>0, <3>1, Constants DEF Departed, TypeOK
    <3>3. Liveness(p) = "Offline"
      BY <2>0, <3>2, LivenessCases
    <3>4. QED
      BY <2>0, <2>1, <3>3 DEF HeartbeatTick, TypeOK, Infos
  <2>2. ASSUME NEW p \in Peers, RemovePeer(p) PROVE Gone
    BY <2>0, <2>2 DEF RemovePeer, Restrict, TypeOK
  <2>3. CASE Restart
    BY <2>0, <2>3 DEF Restart, TypeOK, Infos
  <2>4. CASE Tracked \subseteq DOMAIN age'
    BY <2>4
  <2>5. ASSUME NEW p \in Peers, RecordHeartbeat(p) PROVE Tracked \subseteq DOMAIN age'
    BY ZenonT(30), <2>0, <2>5, HeartbeatRecorded
  <2>6. CASE Elapse
    BY <2>6 DEF Elapse, Tracked
  <2> HIDE DEF Gone
  <2>7. CASE age' = age
    BY <2>4, <2>7 DEF Tracked
  <2>8. QED
    BY Zenon, <1>1, <2>1, <2>2, <2>3, <2>4, <2>5, <2>6, <2>7
       DEF Next, Incoming, Forward, DirectAnnounce, GossipAnnounce, NeighborUp, Present, RoleAnnounce,
           UpsertPeer, SendMessage, RoleTick, BackupTick, HoursPass, OthersCome, trackerVars
<1>2. QED
  BY <1>1, PresenceInvariant, PTL DEF Spec, ForgottenIsOffline
=============================================================================
