--------------------------- MODULE FailoverProofs ---------------------------
(***************************************************************************)
(* Failover has its types, and one leader as long as the hub has named one *)
(* shadow, has not come back and false alarms are few.                     *)
(***************************************************************************)
EXTENDS Failover, TLAPS

\* Whoever is, or is about to be, a shadow has been named by the hub.
ShadowsAreNamed ==
  /\ \A n \in Peers : IsShadow(n) => n \in named
  /\ \A m \in net : m.kind = "shadowSync" => m.to \in named

\* Whoever is followed, now or in a snapshot or on the word of a message, has been
\* named by the hub.
LeadersAreNamed ==
  /\ \A n \in Peers : hubOf[n] \in Peers => hubOf[n] \in named
  /\ \A n \in Peers : savedHub[n] \in Peers => savedHub[n] \in named
  /\ \A m \in net : m.kind = "migration" => m.from \in named

\* The signals a shadow has counted have been sent: before the hub's first crash
\* every missed ping is a late one, and reports come from members.
AlarmsAreCounted ==
  /\ hubUp /\ count["return"] = 0 =>
       \A n \in Peers : IsShadow(n) => shadow[n].failures <= count["late"]
  /\ count["report"] = 0 =>
       /\ \A n \in Peers : shadow[n].reports = 0
       /\ \A m \in net : m.kind # "unreachable"

\* The hub has been up from the start, and false alarms are few.
Quiet == hubUp /\ count["return"] = 0 /\ FewFalseAlarms

\* As long as that is so nobody leads in its place, or is about to.
QuietWhileUp ==
  Quiet =>
    /\ \A n \in Peers : hubOf[n] \notin Peers /\ savedHub[n] \notin Peers
    /\ \A m \in net : m.kind # "migration"

IInv == TypeOK /\ ShadowsAreNamed /\ LeadersAreNamed /\ AlarmsAreCounted /\ QuietWhileUp

-----------------------------------------------------------------------------
LEMMA InitHolds == Init => IInv
<1> SUFFICES ASSUME Init PROVE IInv
  OBVIOUS
<1> USE FailoverAssumption DEF Init
<1>1. Lowest(Initial) \subseteq Peers
  BY DEF Lowest
<1>2. \A n \in Peers : ~IsShadow(n)
  BY DEF IsShadow
<1>3. /\ ShadowSync(Initial) \subseteq Payload
      /\ \A m \in ShadowSync(Initial) : m.kind = "shadowSync" /\ m.to \in Lowest(Initial)
  BY <1>1 DEF ShadowSync, Payload
<1>4. NoShadow \in ShadowState
  BY DEF NoShadow, Signals, ShadowState
<1>5. TypeOK
  BY <1>1, <1>2, <1>3, <1>4 DEF TypeOK
<1>6. ShadowsAreNamed
  BY <1>2, <1>3 DEF ShadowsAreNamed
<1>7. LeadersAreNamed
  BY <1>3 DEF LeadersAreNamed
<1>8. AlarmsAreCounted
  BY <1>2, <1>3 DEF AlarmsAreCounted, NoShadow, Signals
<1>9. QuietWhileUp
  BY <1>3 DEF QuietWhileUp
<1> QED
  BY <1>5, <1>6, <1>7, <1>8, <1>9 DEF IInv

\* The counts of the events never fall, so what is quiet after a step was before.
LEMMA QuietBefore ==
  ASSUME count \in [Events -> Nat], count' \in [Events -> Nat],
         hubUp' /\ count'["return"] = 0 => hubUp /\ count["return"] = 0,
         count'["report"] = 0 => count["report"] = 0,
         count["late"] <= count'["late"]
  PROVE  Quiet' => Quiet
<1>1. "late" \in Events /\ "report" \in Events
  BY DEF Events
<1>2. count["late"] \in Nat /\ count'["late"] \in Nat
  BY <1>1
<1>3. FewFalseAlarms' => FewFalseAlarms
  BY <1>2 DEF FewFalseAlarms
<1> QED
  BY <1>3 DEF Quiet

\* A step that changes no peer's shadow_state or hub and sends, if anything, requests
\* to a hub.
LEMMA QuietStep ==
  ASSUME IInv, UNCHANGED <<hubOf, savedHub, shadow>>,
         \A m \in net' : m \in net
                         \/ /\ m \in Payload
                            /\ m.kind \notin {"shadowSync", "migration"}
                            /\ m.kind = "unreachable" => count'["report"] # 0,
         named' = named, count' \in [Events -> Nat], hubUp' \in BOOLEAN,
         members' \subseteq Peers, savedMembers' \subseteq Peers, waiting' \subseteq Peers,
         hubUp' /\ count'["return"] = 0 => hubUp /\ count["return"] = 0,
         count'["report"] = 0 => count["report"] = 0,
         count'["late"] = count["late"]
  PROVE  IInv'
<1>1. TypeOK'
  BY DEF IInv, TypeOK, IsShadow
<1>2. ShadowsAreNamed'
  BY DEF IInv, ShadowsAreNamed, IsShadow
<1>3. LeadersAreNamed'
  BY DEF IInv, LeadersAreNamed
<1>4. AlarmsAreCounted'
  BY DEF IInv, AlarmsAreCounted, IsShadow
<1>5. Quiet' => Quiet
  <2>1. count \in [Events -> Nat] /\ count["late"] <= count'["late"]
    BY DEF IInv, TypeOK, Events
  <2> QED
    BY <2>1, QuietBefore
<1>6. QuietWhileUp'
  BY <1>5 DEF IInv, QuietWhileUp
<1> QED
  BY <1>1, <1>2, <1>3, <1>4, <1>6 DEF IInv

\* The hub handles a request and names a shadow.
LEMMA HubStep ==
  ASSUME IInv, NEW m, NEW ms, ms \subseteq Peers,
         NEW answer, \A a \in answer : a \in Payload /\ a.kind = "sync",
         HubHandles(m, ms, answer)
  PROVE  IInv'
<1> USE FailoverAssumption DEF HubHandles
<1>1. Lowest(ms) \subseteq Peers
  BY DEF Lowest
<1>2. \A a \in ShadowSync(ms) : a \in Payload /\ a.kind = "shadowSync" /\ a.to \in Lowest(ms)
  BY SMTT(30), <1>1 DEF ShadowSync, Payload
<1>3. TypeOK'
  BY <1>1, <1>2 DEF IInv, TypeOK, IsShadow
<1>4. ShadowsAreNamed'
  BY <1>2 DEF IInv, ShadowsAreNamed, IsShadow
<1>5. LeadersAreNamed'
  BY <1>2 DEF IInv, LeadersAreNamed
<1>6. AlarmsAreCounted'
  BY <1>2 DEF IInv, AlarmsAreCounted, IsShadow
<1>7. QuietWhileUp'
  BY <1>2 DEF IInv, QuietWhileUp, Quiet, FewFalseAlarms
<1> QED
  BY <1>3, <1>4, <1>5, <1>6, <1>7 DEF IInv

\* Peer n comes to follow another hub, and its shadow_state changes.
LEMMA PeerStep ==
  ASSUME IInv, NEW n \in Peers,
         hubOf' \in [Peers -> Peers \cup {Hub, None}],
         shadow' \in [Peers -> ShadowState],
         \A p \in Peers \ {n} : hubOf'[p] = hubOf[p] /\ shadow'[p] = shadow[p],
         hubOf'[n] \in Peers => hubOf'[n] \in named /\ ~Quiet',
         shadow'[n] # NoShadow => n \in named /\ shadow'[n].failures \in 0..Threshold - 1,
         hubUp /\ count["return"] = 0 /\ shadow'[n] # NoShadow =>
           shadow'[n].failures <= count'["late"],
         count["report"] = 0 => shadow'[n].reports = 0,
         \A m \in net' : m \in net
                         \/ /\ m \in Payload
                            /\ m.kind \notin {"shadowSync", "unreachable"}
                            /\ m.kind = "migration" => m.from \in named /\ ~Quiet',
         waiting' \subseteq Peers, count' \in [Events -> Nat],
         count'["return"] = count["return"], count'["report"] = count["report"],
         count["late"] <= count'["late"],
         UNCHANGED <<hubUp, members, savedMembers, savedHub, named>>
  PROVE  IInv'
<1>1. TypeOK'
  <2>1. \A p \in Peers : IsShadow(p)' => shadow'[p].failures \in 0..Threshold - 1
    BY DEF IInv, TypeOK, IsShadow
  <2> QED
    BY <2>1 DEF IInv, TypeOK, IsShadow
<1>2. ShadowsAreNamed'
  BY DEF IInv, TypeOK, ShadowsAreNamed, IsShadow
<1>3. LeadersAreNamed'
  BY DEF IInv, TypeOK, LeadersAreNamed
<1>4. AlarmsAreCounted'
  <2>1. \A p \in Peers : shadow[p] \in ShadowState /\ (p # n => shadow'[p] = shadow[p])
    BY DEF IInv, TypeOK
  <2>2. count["late"] \in Nat /\ count'["late"] \in Nat
    BY DEF IInv, TypeOK, Events
  <2>3. ASSUME hubUp, count["return"] = 0, NEW p \in Peers, IsShadow(p)'
        PROVE  shadow'[p].failures <= count'["late"]
    <3>1. CASE p = n
      BY SMTT(30), <2>1, <2>3, <3>1 DEF IsShadow
    <3>2. CASE p # n
      <4>1. shadow[p].failures <= count["late"] /\ shadow[p].failures \in Nat \cup {-1}
        BY SMTT(30), <2>1, <2>3, <3>2 DEF IInv, AlarmsAreCounted, IsShadow, ShadowState
      <4>2. shadow'[p] = shadow[p]
        BY SMTT(30), <2>1, <3>2
      <4> QED
        BY SMTT(30), <2>2, <4>1, <4>2
    <3> QED
      BY SMTT(30), <3>1, <3>2
  <2>4. ASSUME count["report"] = 0
        PROVE  /\ \A p \in Peers : shadow'[p].reports = 0
               /\ \A m \in net' : m.kind # "unreachable"
    BY SMTT(30), <2>1, <2>4 DEF IInv, AlarmsAreCounted
  <2> QED
    BY SMTT(30), <2>3, <2>4 DEF AlarmsAreCounted
<1>5. Quiet' => Quiet
  <2>1. count \in [Events -> Nat]
    BY SMTT(30) DEF IInv, TypeOK
  <2> QED
    BY SMTT(30), <2>1, QuietBefore
<1>6. QuietWhileUp'
  BY SMTT(30), <1>5 DEF IInv, TypeOK, QuietWhileUp
<1> QED
  BY SMTT(30), <1>1, <1>2, <1>3, <1>4, <1>6 DEF IInv

\* Peer n gets a further signal that the hub is down, and may promote itself.
LEMMA SignalStep ==
  ASSUME IInv, NEW n \in Peers, IsShadow(n), NEW s \in ShadowState, s.failures \in Nat,
         s.members \subseteq Peers,
         hubUp /\ count["return"] = 0 => s.failures <= count'["late"],
         count["report"] = 0 => s.reports = 0,
         NEW sent, sent \subseteq net, Signal(n, s, sent),
         waiting' \subseteq Peers, count' \in [Events -> Nat],
         count'["return"] = count["return"], count'["report"] = count["report"],
         count["late"] <= count'["late"],
         UNCHANGED <<hubUp, members, savedMembers, savedHub, named>>
  PROVE  IInv'
<1> USE FailoverAssumption
<1>1. n \in named /\ hubOf[n] \in Peers \cup {Hub, None} /\ hubOf = [hubOf EXCEPT ![n] = hubOf[n]]
  BY SMTT(30) DEF IInv, TypeOK, ShadowsAreNamed
<1>2. Quiet' => Quiet
  <2>1. count \in [Events -> Nat]
    BY SMTT(30) DEF IInv, TypeOK
  <2> QED
    BY SMTT(30), <2>1, QuietBefore
<1>3. hubOf[n] \in Peers => hubOf[n] \in named /\ ~Quiet'
  BY SMTT(30), <1>2 DEF IInv, LeadersAreNamed, QuietWhileUp
<1>4. CASE ~ShouldPromote(s)
  <2>1. s.failures \in 0..Threshold - 1
    BY <1>4 DEF ShouldPromote
  <2>2. /\ hubOf' = hubOf /\ shadow' = [shadow EXCEPT ![n] = s]
        /\ net' = sent
    BY ZenonT(30), <1>4 DEF Signal
  <2>3. /\ hubOf' \in [Peers -> Peers \cup {Hub, None}]
        /\ shadow' \in [Peers -> ShadowState]
        /\ \A p \in Peers \ {n} : hubOf'[p] = hubOf[p] /\ shadow'[p] = shadow[p]
        /\ hubOf'[n] = hubOf[n] /\ shadow'[n] = s
    BY ZenonT(30), <2>2 DEF IInv, TypeOK
  <2> QED
    BY SMTT(30), ZenonT(30), <1>1, <1>3, <2>1, <2>2, <2>3, PeerStep
<1>5. CASE ShouldPromote(s)
  <2>1. ~Quiet'
    <3> SUFFICES ASSUME Quiet' PROVE FALSE
      OBVIOUS
    <3>1. s.failures <= count'["late"]
      BY DEF Quiet
    <3>2. count'["late"] = 0 \/ (count'["late"] = 1 /\ s.reports = 0)
      BY SMTT(30) DEF Quiet, FewFalseAlarms
    <3> QED
      BY SMTT(30), ZenonT(30), <1>5, <3>1, <3>2 DEF ShouldPromote
  <2>2. NoShadow \in ShadowState /\ NoShadow.reports = 0
    BY SMTT(30) DEF NoShadow, Signals, ShadowState
  <2>3. \A q \in Followers(n, s) : Msg("migration", n, q) \in Payload
    BY SMTT(30) DEF Followers, Msg, Payload
  <2>4. \A m \in net' : m \in net \/ (m \in Payload /\ m.kind = "migration" /\ m.from = n)
    <3>1. \A q \in Followers(n, s) :
            Msg("migration", n, q).kind = "migration" /\ Msg("migration", n, q).from = n
      BY DEF Msg
    <3>2. \A m \in net' : m \in sent \/ \E q \in Followers(n, s) : m = Msg("migration", n, q)
      <4>1. net' \subseteq sent \cup {Msg("migration", n, q) : q \in Followers(n, s)}
        BY <1>5 DEF Signal
      <4> QED
        BY <4>1
    <3>3. ASSUME NEW m \in net', NEW q \in Followers(n, s), m = Msg("migration", n, q)
          PROVE  m \in Payload /\ m.kind = "migration" /\ m.from = n
      BY <2>3, <3>1, <3>3
    <3>4. ASSUME NEW m \in net', m \notin net
          PROVE  m \in Payload /\ m.kind = "migration" /\ m.from = n
      <4>1. PICK q \in Followers(n, s) : m = Msg("migration", n, q)
        BY <3>2, <3>4
      <4> QED
        BY <3>3, <4>1
    <3> QED
      BY <3>4
  <2>5. /\ hubOf' = hubOf \/ hubOf' = [hubOf EXCEPT ![n] = n]
        /\ shadow' = [shadow EXCEPT ![n] = NoShadow]
    BY <1>5 DEF Signal
  <2>6. /\ hubOf' \in [Peers -> Peers \cup {Hub, None}]
        /\ shadow' \in [Peers -> ShadowState]
        /\ \A p \in Peers \ {n} : hubOf'[p] = hubOf[p] /\ shadow'[p] = shadow[p]
        /\ hubOf'[n] = hubOf[n] \/ hubOf'[n] = n
        /\ shadow'[n] = NoShadow
    BY <2>2, <2>5 DEF IInv, TypeOK
  <2>7. hubOf'[n] \in Peers => hubOf'[n] \in named /\ ~Quiet'
    BY <1>1, <1>3, <2>1, <2>6
  <2>8. \A m \in net' : m \in net
                        \/ /\ m \in Payload
                           /\ m.kind \notin {"shadowSync", "unreachable"}
                           /\ m.kind = "migration" => m.from \in named /\ ~Quiet'
    BY <1>1, <2>1, <2>4
  <2>9. shadow'[n] = NoShadow /\ shadow'[n].reports = 0
    BY <2>2, <2>6
  <2> QED
    BY ZenonT(30), <2>6, <2>7, <2>8, <2>9, PeerStep
<1> QED
  BY SMTT(30), <1>4, <1>5

LEMMA ReceivePreserves ==
  ASSUME IInv, NEW m \in net, Receive(m)
  PROVE  IInv'
<1> USE FailoverAssumption
<1>m. /\ m \in Payload
      /\ net \subseteq Payload
      /\ count \in [Events -> Nat]
      /\ waiting \subseteq Peers /\ members \subseteq Peers /\ savedMembers \subseteq Peers
      /\ hubUp \in BOOLEAN
  BY DEF IInv, TypeOK
<1>k. /\ m.kind \in {"join", "leave", "ping"} => m.from \in Peers
      /\ m.kind \in {"sync", "shadowSync", "pong", "unreachable", "migration"} =>
           m.to \in Peers /\ m.members \subseteq Peers
  BY <1>m DEF Payload
<1>n. NoShadow \in ShadowState /\ NoShadow.reports = 0
  BY DEF NoShadow, Signals, ShadowState
<1>p. \A n \in Peers : /\ hubOf[n] \in Peers \cup {Hub, None}
                       /\ hubOf[n] \in Peers =>
                            hubOf[n] \in named /\ ~Quiet
                       /\ shadow[n] \in ShadowState
                       /\ IsShadow(n) => n \in named /\ shadow[n].failures \in 0..Threshold - 1
                       /\ hubUp /\ count["return"] = 0 /\ IsShadow(n) =>
                            shadow[n].failures <= count["late"]
                       /\ count["report"] = 0 => shadow[n].reports = 0
                       /\ hubOf = [hubOf EXCEPT ![n] = hubOf[n]]
                       /\ shadow = [shadow EXCEPT ![n] = shadow[n]]
  BY DEF IInv, TypeOK, ShadowsAreNamed, LeadersAreNamed, AlarmsAreCounted, QuietWhileUp
<1>c. count["late"] \in Nat /\ count["late"] <= count["late"]
  BY <1>m DEF Events
<1>q. hubUp' = hubUp /\ count' = count => (Quiet' <=> Quiet)
  BY DEF Quiet, FewFalseAlarms
<1>1. CASE HubJoin(m)
  <2>1. Msg("sync", Hub, m.from) \in Payload /\ Msg("sync", Hub, m.from).kind = "sync"
    BY <1>1, <1>k DEF HubJoin, Msg, Payload
  <2>2. members \cup {m.from} \subseteq Peers
    BY <1>1, <1>k, <1>m DEF HubJoin
  <2> QED
    BY <1>1, <2>1, <2>2, HubStep DEF HubJoin
<1>2. CASE HubLeave(m)
  BY <1>2, <1>m, HubStep DEF HubLeave
<1>3. CASE HubPing(m)
  <2>1. Msg("pong", Hub, m.from) \in Payload /\ Msg("pong", Hub, m.from).kind = "pong"
    BY <1>3, <1>k DEF HubPing, Msg, Payload
  <2> QED
    BY <1>3, <1>m, <2>1, QuietStep DEF HubPing
<1>4. CASE Ignored(m)
  BY <1>4, <1>m, QuietStep DEF Ignored
<1>5. CASE RecvSync(m)
  <2>1. m.to \in Peers
    BY <1>5, <1>k DEF RecvSync
  <2>2. /\ hubOf' \in [Peers -> Peers \cup {Hub, None}]
        /\ \A p \in Peers \ {m.to} : hubOf'[p] = hubOf[p]
        /\ hubOf'[m.to] \notin Peers
    BY <1>5, <2>1 DEF RecvSync, IInv, TypeOK
  <2>3. /\ shadow \in [Peers -> ShadowState]
        /\ net' \subseteq net
        /\ UNCHANGED <<hubUp, members, savedMembers, savedHub, shadow, waiting, named, count>>
    BY <1>5 DEF RecvSync, IInv, TypeOK
  <2> QED
    BY <1>m, <1>c, <1>p, <2>1, <2>2, <2>3, PeerStep DEF IsShadow
<1>6. CASE RecvShadowSync(m)
  <2>1. m.to \in Peers /\ m.to \in named /\ m.members \subseteq Peers
    BY <1>6, <1>k DEF RecvShadowSync, IInv, ShadowsAreNamed
  <2>2. Signals(m.members, 0, 0) \in ShadowState /\ Signals(m.members, 0, 0).failures = 0
    BY <2>1 DEF Signals, ShadowState
  <2>3. CASE hubOf[m.to] = None
    BY <1>6, <1>m, <2>3, QuietStep DEF RecvShadowSync
  <2>4. CASE hubOf[m.to] # None
    <3>1. /\ hubOf' = hubOf
          /\ shadow' = [shadow EXCEPT ![m.to] = Signals(m.members, 0, 0)]
          /\ net' \subseteq net
          /\ UNCHANGED <<hubUp, members, savedMembers, savedHub, waiting, named, count>>
      BY <1>6, <1>p, <2>1, <2>4 DEF RecvShadowSync
    <3>2. 0 \in 0..Threshold - 1 /\ 0 <= count["late"]
      BY <1>c
    <3>3. /\ hubOf[m.to] \in Peers \cup {Hub, None}
          /\ hubOf[m.to] \in Peers => hubOf[m.to] \in named /\ ~Quiet
      BY <1>p, <2>1
    <3> DEFINE t == Signals(m.members, 0, 0)
    <3>4. shadow' = [shadow EXCEPT ![m.to] = t] /\ t \in ShadowState /\ t.failures = 0 /\ t.reports = 0
      BY <2>2, <3>1 DEF Signals
    <3> HIDE DEF t
    <3>5. /\ hubOf \in [Peers -> Peers \cup {Hub, None}]
          /\ shadow' \in [Peers -> ShadowState]
          /\ \A p \in Peers \ {m.to} : shadow'[p] = shadow[p]
          /\ shadow'[m.to] = t
      BY <2>1, <3>4 DEF IInv, TypeOK
    <3> QED
      BY <1>m, <1>c, <1>q, <2>1, <3>1, <3>2, <3>3, <3>4, <3>5, PeerStep
  <2> QED
    BY <2>3, <2>4
<1>7. CASE RecvPong(m)
  <2>1. m.to \in Peers
    BY <1>7, <1>k DEF RecvPong
  <2>2. CASE ~IsShadow(m.to)
    BY SMTT(30), <1>7, <1>m, <2>2, QuietStep DEF RecvPong
  <2>3. CASE IsShadow(m.to)
    <3>1. /\ Signals(shadow[m.to].members, 0, 0) \in ShadowState
          /\ Signals(shadow[m.to].members, 0, 0).failures = 0
      BY <1>p, <2>1 DEF Signals, ShadowState
    <3>2. /\ hubOf' = hubOf
          /\ shadow' = [shadow EXCEPT ![m.to] = Signals(shadow[m.to].members, 0, 0)]
          /\ net' \subseteq net
          /\ waiting' \subseteq waiting
          /\ UNCHANGED <<hubUp, members, savedMembers, savedHub, named, count>>
      BY <1>7, <1>p, <2>1, <2>3 DEF RecvPong
    <3>3. 0 \in 0..Threshold - 1 /\ 0 <= count["late"]
      BY <1>c
    <3>4. /\ hubOf[m.to] \in Peers \cup {Hub, None}
          /\ hubOf[m.to] \in Peers => hubOf[m.to] \in named /\ ~Quiet
          /\ m.to \in named
      BY <1>p, <2>1, <2>3
    <3> DEFINE t == Signals(shadow[m.to].members, 0, 0)
    <3>5. shadow' = [shadow EXCEPT ![m.to] = t] /\ t \in ShadowState /\ t.failures = 0 /\ t.reports = 0
      BY <3>1, <3>2 DEF Signals
    <3> HIDE DEF t
    <3>6. /\ hubOf \in [Peers -> Peers \cup {Hub, None}]
          /\ shadow' \in [Peers -> ShadowState]
          /\ \A p \in Peers \ {m.to} : shadow'[p] = shadow[p]
          /\ shadow'[m.to] = t
      BY <2>1, <3>5 DEF IInv, TypeOK
    <3> QED
      BY <1>m, <1>c, <1>q, <2>1, <3>2, <3>3, <3>4, <3>5, <3>6, PeerStep
  <2> QED
    BY <2>2, <2>3
<1>8. CASE RecvUnreachable(m)
  <2>1. m.to \in Peers
    BY <1>8, <1>k DEF RecvUnreachable
  <2>2. CASE ~IsShadow(m.to)
    BY <1>8, <1>m, <2>2, QuietStep DEF RecvUnreachable
  <2>3. CASE IsShadow(m.to)
    <3> DEFINE s == shadow[m.to]
               t == Signals(s.members, s.failures, s.reports + 1)
    <3>1. t \in ShadowState /\ t.failures = s.failures /\ t.members \subseteq Peers
      BY <1>p, <2>1 DEF Signals, ShadowState
    <3>2. /\ s.failures \in Nat
          /\ hubUp /\ count["return"] = 0 => s.failures <= count["late"]
          /\ count["report"] # 0
      BY <1>8, <1>p, <2>1, <2>3 DEF RecvUnreachable, IInv, AlarmsAreCounted
    <3>3. Signal(m.to, t, net \ {m})
      BY <1>8, <2>3 DEF RecvUnreachable
    <3>4. UNCHANGED <<hubUp, members, savedMembers, savedHub, waiting, named, count>>
      BY <1>8 DEF RecvUnreachable
    <3> HIDE DEF t, s
    <3> QED
      BY <1>m, <1>c, <2>1, <2>3, <3>1, <3>2, <3>3, <3>4, SignalStep
  <2> QED
    BY <2>2, <2>3
<1>9. CASE RecvMigration(m)
  <2>1. m.to \in Peers /\ m.from \in named /\ ~Quiet /\ m.from \in Peers
    BY <1>9, <1>k DEF RecvMigration, IInv, TypeOK, LeadersAreNamed, QuietWhileUp
  <2>2. CASE hubOf[m.to] = None
    BY <1>9, <1>m, <2>2, QuietStep DEF RecvMigration
  <2>3. CASE hubOf[m.to] # None
    <3>1. /\ hubOf' = [hubOf EXCEPT ![m.to] = m.from]
          /\ net' \subseteq net
          /\ UNCHANGED <<hubUp, members, savedMembers, savedHub, shadow, waiting, named, count>>
      BY <1>9, <2>3 DEF RecvMigration
    <3>2. /\ hubOf' \in [Peers -> Peers \cup {Hub, None}]
          /\ \A p \in Peers \ {m.to} : hubOf'[p] = hubOf[p]
          /\ hubOf'[m.to] = m.from
          /\ shadow \in [Peers -> ShadowState]
      BY <2>1, <3>1 DEF IInv, TypeOK
    <3> QED
      BY SMTT(30), <1>m, <1>c, <1>q, <1>p, <2>1, <3>1, <3>2, PeerStep DEF IsShadow
  <2> QED
    BY <2>2, <2>3
<1> QED
  BY <1>1, <1>2, <1>3, <1>4, <1>5, <1>6, <1>7, <1>8, <1>9 DEF Receive

LEMMA StepPreserves == IInv /\ [Next]_vars => IInv'
<1> SUFFICES ASSUME IInv, [Next]_vars PROVE IInv'
  OBVIOUS
<1> USE FailoverAssumption
<1>m. /\ net \subseteq Payload
      /\ count \in [Events -> Nat]
      /\ waiting \subseteq Peers /\ members \subseteq Peers /\ savedMembers \subseteq Peers
      /\ hubUp \in BOOLEAN
  BY DEF IInv, TypeOK
<1>n. NoShadow \in ShadowState /\ NoShadow.reports = 0
  BY DEF NoShadow, Signals, ShadowState
<1>p. \A n \in Peers : /\ hubOf[n] \in Peers \cup {Hub, None}
                       /\ savedHub[n] \in Peers \cup {Hub, None}
                       /\ savedHub[n] \in Peers =>
                            savedHub[n] \in named /\ ~Quiet
                       /\ shadow[n] \in ShadowState
                       /\ hubOf = [hubOf EXCEPT ![n] = hubOf[n]]
  BY DEF IInv, TypeOK, LeadersAreNamed, QuietWhileUp
<1>h. ASSUME NEW e \in Events, Happens(e)
      PROVE  /\ count' \in [Events -> Nat]
             /\ e # "return" => count'["return"] = count["return"]
             /\ e = "return" => count'["return"] # 0
             /\ e # "report" => count'["report"] = count["report"]
             /\ e = "report" => count'["report"] # 0
             /\ e # "late" => count'["late"] = count["late"]
             /\ e = "late" => count'["late"] = count["late"] + 1
  BY <1>h, <1>m DEF Happens, Events
<1>c. count["late"] \in Nat /\ count["late"] <= count["late"]
  BY <1>m DEF Events
<1>e. {"crash", "return", "restart", "loss", "join", "leave", "late", "report"} \subseteq Events
  BY DEF Events
<1>1. CASE UNCHANGED vars
  BY <1>1, <1>m, QuietStep DEF vars
<1>2. ASSUME NEW m \in net, Receive(m) PROVE IInv'
  BY <1>2, ReceivePreserves
<1>3. CASE HubSave
  BY <1>3, <1>m, QuietStep DEF HubSave
<1>4. CASE HubCrash
  BY Zenon, <1>4, <1>m, <1>h, <1>e, QuietStep DEF HubCrash
<1>5. CASE HubReturn
  BY <1>5, <1>m, <1>h, <1>e, QuietStep DEF HubReturn
<1>6. ASSUME NEW n \in Peers, JoinGroup(n) PROVE IInv'
  <2>1. Msg("join", n, Hub) \in Payload /\ Msg("join", n, Hub).kind = "join"
    BY DEF Msg, Payload
  <2> QED
    BY <1>6, <1>m, <1>h, <1>e, <2>1, QuietStep DEF JoinGroup
<1>7. ASSUME NEW n \in Peers, LeaveGroup(n) PROVE IInv'
  <2>1. Msg("leave", n, hubOf[n]) \in Payload /\ Msg("leave", n, hubOf[n]).kind = "leave"
    BY <1>7, <1>p DEF LeaveGroup, Msg, Payload
  <2>2. /\ count' \in [Events -> Nat]
        /\ count'["return"] = count["return"]
        /\ count'["report"] = count["report"]
        /\ count["late"] <= count'["late"]
    BY <1>7, <1>c, <1>h, <1>e DEF LeaveGroup
  <2>3. /\ hubOf' = [hubOf EXCEPT ![n] = None]
        /\ shadow' = [shadow EXCEPT ![n] = NoShadow]
        /\ \A m \in net' : m \in net \/ m = Msg("leave", n, hubOf[n])
        /\ UNCHANGED <<hubUp, members, savedMembers, savedHub, waiting, named>>
    BY <1>7 DEF LeaveGroup
  <2>4. /\ hubOf' \in [Peers -> Peers \cup {Hub, None}]
        /\ shadow' \in [Peers -> ShadowState]
        /\ \A p \in Peers \ {n} : hubOf'[p] = hubOf[p] /\ shadow'[p] = shadow[p]
        /\ hubOf'[n] \notin Peers
        /\ shadow'[n] = NoShadow
    BY <1>n, <2>3 DEF IInv, TypeOK
  <2> QED
    BY <1>m, <1>n, <2>1, <2>2, <2>3, <2>4, PeerStep
<1>8. ASSUME NEW n \in Peers, ShadowPing(n) PROVE IInv'
  <2>1. Msg("ping", n, hubOf[n]) \in Payload /\ Msg("ping", n, hubOf[n]).kind = "ping"
    BY <1>8, <1>p DEF ShadowPing, Msg, Payload
  <2> QED
    BY <1>8, <1>m, <2>1, QuietStep DEF ShadowPing
<1>9. ASSUME NEW n \in Peers, MissedPing(n) \/ LatePing(n) PROVE IInv'
  <2> DEFINE s == shadow[n]
             t == Signals(s.members, s.failures + 1, s.reports)
  <2>1. /\ IsShadow(n)
        /\ waiting' \subseteq waiting
        /\ Signal(n, t, net)
        /\ UNCHANGED <<hubUp, members, savedMembers, savedHub, named>>
    BY <1>9 DEF MissedPing, LatePing, RecordPingFailure
  <2>2. /\ s.failures \in Nat
        /\ hubUp /\ count["return"] = 0 => s.failures <= count["late"]
        /\ count["report"] = 0 => s.reports = 0
    BY <2>1 DEF IInv, TypeOK, AlarmsAreCounted
  <2>3. /\ t \in ShadowState /\ t.members \subseteq Peers
        /\ t.failures = s.failures + 1 /\ t.reports = s.reports
    BY <1>p, <2>2 DEF Signals, ShadowState
  <2>4. /\ count' \in [Events -> Nat]
        /\ count'["return"] = count["return"]
        /\ count'["report"] = count["report"]
        /\ count["late"] <= count'["late"]
        /\ hubUp => count'["late"] = count["late"] + 1
    BY <1>9, <1>m, <1>c, <1>h, <1>e DEF MissedPing, LatePing
  <2>5. /\ t.failures \in Nat
        /\ hubUp /\ count["return"] = 0 => t.failures <= count'["late"]
        /\ count["report"] = 0 => t.reports = 0
    BY <1>c, <2>2, <2>3, <2>4
  <2> HIDE DEF t, s
  <2> QED
    BY <1>m, <2>1, <2>3, <2>4, <2>5, SignalStep
<1>10. ASSUME NEW n \in Peers, NEW s \in Peers, Report(n, s) PROVE IInv'
  <2>1. Msg("unreachable", n, s) \in Payload /\ Msg("unreachable", n, s).kind = "unreachable"
    BY DEF Msg, Payload
  <2> QED
    BY <1>10, <1>m, <1>h, <1>e, <2>1, QuietStep DEF Report
<1>11. ASSUME NEW n \in Peers, PeerSave(n) PROVE IInv'
  <2>1. /\ savedHub' = [savedHub EXCEPT ![n] = hubOf[n]]
        /\ UNCHANGED <<hubUp, members, savedMembers, hubOf, shadow, waiting, net, named, count>>
    BY <1>11 DEF PeerSave
  <2>2. TypeOK'
    BY SMTT(30), <2>1 DEF IInv, TypeOK, IsShadow
  <2>3. ShadowsAreNamed'
    BY <2>1 DEF IInv, ShadowsAreNamed, IsShadow
  <2>4. LeadersAreNamed'
    BY <2>1 DEF IInv, TypeOK, LeadersAreNamed
  <2>5. AlarmsAreCounted'
    BY <2>1 DEF IInv, AlarmsAreCounted, IsShadow
  <2>6. QuietWhileUp'
    BY <2>1 DEF IInv, TypeOK, QuietWhileUp, Quiet, FewFalseAlarms
  <2> QED
    BY SMTT(30), <2>2, <2>3, <2>4, <2>5, <2>6 DEF IInv
<1>12. ASSUME NEW n \in Peers, PeerRestart(n) PROVE IInv'
  <2>1. /\ count' \in [Events -> Nat]
        /\ count'["return"] = count["return"]
        /\ count'["report"] = count["report"]
        /\ count["late"] <= count'["late"]
    BY <1>12, <1>c, <1>h, <1>e DEF PeerRestart
  <2>2. \A h \in {savedHub[n]} \ {None, n} :
          Msg("join", n, h) \in Payload /\ Msg("join", n, h).kind = "join"
    BY <1>p DEF Msg, Payload
  <2>3. \A m \in net' : m \in net \/ (m \in Payload /\ m.kind = "join")
    <3>1. \A m \in net' : m \in net \/ \E h \in {savedHub[n]} \ {None, n} : m = Msg("join", n, h)
      BY <1>12, Zenon DEF PeerRestart
    <3> QED
      BY <2>2, <3>1, Zenon
  <2>4. /\ hubOf' = [hubOf EXCEPT ![n] = savedHub[n]]
        /\ shadow' = [shadow EXCEPT ![n] = NoShadow]
        /\ waiting' \subseteq waiting
        /\ UNCHANGED <<hubUp, members, savedMembers, savedHub, named>>
    BY <1>12 DEF PeerRestart
  <2>5. Quiet' => Quiet
    BY <1>m, <2>1, <2>4, QuietBefore
  <2>6. /\ hubOf' \in [Peers -> Peers \cup {Hub, None}]
        /\ shadow' \in [Peers -> ShadowState]
        /\ \A p \in Peers \ {n} : hubOf'[p] = hubOf[p] /\ shadow'[p] = shadow[p]
        /\ hubOf'[n] = savedHub[n]
        /\ shadow'[n] = NoShadow
    BY <1>n, <2>4 DEF IInv, TypeOK
  <2> QED
    BY SMTT(30), <1>m, <1>n, <1>p, <2>1, <2>3, <2>4, <2>5, <2>6, PeerStep
<1>13. ASSUME NEW m \in net, Lose(m) PROVE IInv'
  BY <1>13, <1>m, <1>h, <1>e, QuietStep DEF Lose
<1> QED
  BY <1>1, <1>2, <1>3, <1>4, <1>5, <1>6, <1>7, <1>8, <1>9, <1>10, <1>11, <1>12, <1>13 DEF Next

\* The inductive invariant holds in every state of Failover.
THEOREM Invariance == Spec => []IInv
  BY InitHolds, StepPreserves, PTL DEF Spec

\* The hub's and the peers' state and the network keep their types, and no shadow
\* waits with as many missed pings as SHADOW_PING_FAILURE_THRESHOLD.
THEOREM TypeCorrectness == Spec => []TypeOK
<1>1. IInv => TypeOK
  BY DEF IInv
<1> QED
  BY <1>1, Invariance, PTL

\* As long as the hub has named one shadow only, has not come back and false alarms
\* are few, at most one node leads the group: promote_to_primary makes no second one.
THEOREM LeaderIsUnique == Spec => []OneLeader
<1>1. IInv => OneLeader
  <2> SUFFICES ASSUME IInv, \A x, y \in named : x = y, count["return"] = 0, FewFalseAlarms,
                      NEW p \in Peers \cup {Hub}, NEW q \in Peers \cup {Hub},
                      Leads(p), Leads(q)
               PROVE  p = q
    BY DEF OneLeader
  <2> USE FailoverAssumption
  <2>1. \A n \in Peers : Leads(n) => n \in named /\ ~hubUp
    BY DEF IInv, TypeOK, LeadersAreNamed, QuietWhileUp, Quiet, Leads
  <2>3. CASE p \in Peers /\ q \in Peers
    BY <2>1, <2>3
  <2>4. CASE p = Hub \/ q = Hub
    BY <2>1, <2>4 DEF Leads
  <2> QED
    BY <2>3, <2>4
<1> QED
  BY <1>1, Invariance, PTL
=============================================================================
