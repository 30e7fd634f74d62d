----------------------- MODULE DeliveryContractProofs -----------------------
(***************************************************************************)
(* Delivery implements DeliveryContract: the initial states are initial    *)
(* states of the contract, and every step is a step of the contract or     *)
(* changes nothing that its users see.                                     *)
(***************************************************************************)
EXTENDS DeliveryOnceProofs

Reports == [m \in Msgs |-> Report(tracker, m)]
SentMsgs == {m \in Msgs : via[m] # Unsent}

USE DEF Pending, Sent, Relayed, Delivered, Read, Failed, NoDeadline

\* The four reports and the tracked statuses that they stand for.
LEMMA ReportCases ==
  ASSUME NEW t, NEW m \in Msgs
  PROVE  /\ Report(t, m) \in Contract!Reports
         /\ Report(t, m) = "none" <=> m \notin DOMAIN t
         /\ Report(t, m) = "waiting" <=> m \in DOMAIN t /\ t[m].status < Delivered
         /\ m \in DOMAIN t /\ t[m].status = Failed => Report(t, m) = "failed"
         /\ m \in DOMAIN t /\ t[m].status \in {Delivered, Read} => Report(t, m) = "confirmed"
BY SMTT(30) DEF Report, Contract!Reports

\* The user sees the same of an entry whose status is the same.
LEMMA SameReport ==
  ASSUME NEW t, NEW u, NEW m \in Msgs, m \in DOMAIN t, m \in DOMAIN u, u[m].status = t[m].status
  PROVE  Report(u, m) = Report(t, m)
BY SMTT(30) DEF Report

\* The reports of the next state are those on the next tracker.
LEMMA NextReports ==
  /\ Reports = [m \in Msgs |-> Report(tracker, m)]
  /\ Reports' = [m \in Msgs |-> Report(tracker', m)]
BY DEF Reports, Report

\* A step of the contract that only changes reports.
LEMMA ReportStep ==
  ASSUME NEW allowed, \A m \in Msgs : Report(tracker', m) \in allowed[m]
  PROVE  Contract!Reporting(allowed)
<1>1. \A m \in Msgs : Report(tracker', m) \in Contract!Reports
  BY ReportCases
<1>2. Reports' \in [Msgs -> Contract!Reports] /\ \A m \in Msgs : Reports'[m] \in allowed[m]
  BY <1>1, NextReports
<1>3. QED
  BY <1>2 DEF Contract!Reporting, Reports

-----------------------------------------------------------------------------
(* The steps *)

\* handle_send_message: the new message is waited for, or not tracked at all.
LEMMA SendContract ==
  ASSUME IInv, NEW n \in Msgs, Send(n)
  PROVE  Contract!Send(n)
<1>1. TypeOK /\ Fresh
  BY DEF IInv
<1>2. n \notin DOMAIN tracker
  BY Zenon, <1>1 DEF Fresh, Send
<1>3. ASSUME NEW x \in Msgs
      PROVE  Report(tracker', x) \in IF x = n THEN {"waiting", "none"} ELSE {Reports[x], "none"}
  <2>0. tracker' = Track(n) /\ Reports[x] = Report(tracker, x)
    BY NextReports DEF Send
  <2>1. CASE x \notin DOMAIN tracker'
    BY <2>1, ReportCases
  <2>2. CASE x = n /\ x \in DOMAIN tracker'
    <3>1. tracker'[n] = NewEntry
      BY Zenon, <1>1, <1>2, <2>0, <2>2, TrackType
    <3>2. tracker'[n].status = Sent
      BY <3>1 DEF NewEntry
    <3>3. QED
      BY <2>2, <3>2, ReportCases
  <2>3. CASE x # n /\ x \in DOMAIN tracker'
    <3>1. x \in DOMAIN tracker /\ tracker'[x] = tracker[x]
      BY Zenon, <1>1, <2>0, <2>3, TrackType
    <3>2. QED
      BY <2>0, <2>3, <3>1, SameReport
  <2>4. QED
    BY SMTT(30), <2>1, <2>2, <2>3
<1>4. Contract!Reporting([x \in Msgs |-> IF x = n THEN {"waiting", "none"} ELSE {Reports[x], "none"}])
  BY <1>3, ReportStep
<1>5. SentMsgs' = SentMsgs \cup {n} /\ n \notin SentMsgs
  <2>1. via[n] = Unsent
    BY DEF Send
  <2>2. PICK r \in Relays \cup {Direct} : via' = [via EXCEPT ![n] = r]
    BY ZenonT(30) DEF Send
  <2>3. r # Unsent /\ via \in [Msgs -> Relays \cup {Direct, Unsent}]
    BY <1>1, NodesAssumption DEF TypeOK, Direct, Unsent
  <2>4. QED
    BY SMTT(30), <2>1, <2>2, <2>3 DEF SentMsgs
<1>6. UNCHANGED <<delivered, acked>>
  BY DEF Send, recipientVars
<1>7. QED
  BY Zenon, <1>4, <1>5, <1>6 DEF Contract!Send, SentMsgs, Reports

\* An acknowledgement or a read receipt confirms one message or changes no report.
LEMMA AckContract ==
  ASSUME IInv, NEW e \in net, RecvAtSender(e)
  PROVE  Contract!Confirm(e.msg) \/ UNCHANGED Reports
<1>1. TypeOK /\ AcksAreGenuine
  BY DEF IInv
<1>2. e.msg \in Msgs
  BY SMTT(30), <1>1 DEF TypeOK, Envelope
<1>3. /\ tracker \in [DOMAIN tracker -> Entry]
      /\ tracker' \in [DOMAIN tracker -> Entry]
      /\ \A m \in DOMAIN tracker : AckEffect(e, m)
  BY ZenonT(30), <1>1, RecvAtSenderEffect DEF TypeOK
<1>4. ASSUME NEW m \in Msgs
      PROVE  \/ Report(tracker', m) = Report(tracker, m)
             \/ /\ m = e.msg /\ m \in acked
                /\ Report(tracker, m) = "waiting" /\ Report(tracker', m) = "confirmed"
  <2>1. CASE m \notin DOMAIN tracker
    <3>1. m \notin DOMAIN tracker'
      BY <1>3, <2>1
    <3>2. QED
      BY SMTT(30), <2>1, <3>1, ReportCases
  <2>2. CASE m \in DOMAIN tracker
    <3>1. /\ tracker[m].status \in Int /\ tracker[m].status <= Failed
          /\ tracker'[m].status \in Int /\ tracker'[m].status <= Failed
          /\ m \in DOMAIN tracker'
      BY SMTT(30), <1>3, <2>2, EntryFields
    <3>2. AckEffect(e, m)
      BY <1>3, <2>2
    <3>3. /\ tracker'[m].status >= tracker[m].status
          /\ tracker'[m].status = Failed <=> tracker[m].status = Failed
          /\ tracker'[m].status \in {Delivered, Read} =>
               \/ tracker[m].status \in {Delivered, Read}
               \/ e.type \in {"ack", "read"} /\ e.msg = m
      BY <3>2 DEF AckEffect
    <3>4. e.type \in {"ack", "read"} => e.msg \in acked
      BY <1>1 DEF AcksAreGenuine
    <3>5. QED
      BY SMTT(30), <2>2, <3>1, <3>3, <3>4 DEF Report
  <2>3. QED
    BY <2>1, <2>2
<1>5. CASE \A m \in Msgs : Report(tracker', m) = Report(tracker, m)
  BY <1>5, NextReports
<1>6. CASE \E m \in Msgs : Report(tracker', m) # Report(tracker, m)
  <2>1. /\ e.msg \in acked /\ Reports[e.msg] = "waiting"
        /\ Reports' = [Reports EXCEPT ![e.msg] = "confirmed"]
    BY <1>2, <1>4, <1>6, NextReports
  <2>2. UNCHANGED <<SentMsgs, delivered, acked>>
    BY DEF RecvAtSender, recipientVars, SentMsgs
  <2>3. QED
    BY ZenonT(30), <2>1, <2>2 DEF Contract!Confirm, SentMsgs, Reports
<1>7. QED
  BY <1>5, <1>6

\* tick_delivery_deadlines gives up messages that are waited for, and no others.
LEMMA SweepContract ==
  ASSUME IInv, DeliveryDeadlines
  PROVE  Contract!GiveUp
<1>1. TypeOK
  BY DEF IInv
<1>2. ASSUME NEW m \in Msgs
      PROVE  Report(tracker', m) \in IF Reports[m] = "waiting" THEN {"waiting", "failed"}
                                     ELSE {Reports[m]}
  <2>0. Reports[m] = Report(tracker, m)
    BY NextReports
  <2>1. CASE m \notin DOMAIN tracker
    <3>1. m \notin DOMAIN tracker'
      BY Zenon, <2>1 DEF DeliveryDeadlines
    <3>2. QED
      BY SMTT(30), <2>0, <2>1, <3>1, ReportCases
  <2>2. CASE m \in DOMAIN tracker
    <3>1. tracker[m] \in Entry /\ m \in DOMAIN tracker'
      BY Zenon, <1>1, <2>2 DEF TypeOK, DeliveryDeadlines
    <3>2. \/ tracker'[m] = tracker[m]
          \/ tracker'[m] = Rearmed(tracker[m])
          \/ /\ m \in ToFail
             /\ tracker'[m] = [tracker[m] EXCEPT !.status = Failed, !.deadline = NoDeadline]
      BY Zenon, <2>2 DEF DeliveryDeadlines
    <3>3. \/ tracker'[m].status = tracker[m].status
          \/ tracker'[m].status = Failed /\ m \in ToFail
      BY Zenon, <3>1, <3>2 DEF Rearmed, Entry
    <3>4. m \in ToFail => tracker[m].status < Delivered
      BY DEF ToFail, Expired, Active
    <3>5. CASE tracker'[m].status = tracker[m].status
      BY SMTT(30), <2>0, <2>2, <3>1, <3>5, SameReport
    <3>6. CASE tracker'[m].status = Failed /\ m \in ToFail
      BY SMTT(30), <2>0, <2>2, <3>1, <3>4, <3>6, ReportCases
    <3>7. QED
      BY <3>3, <3>5, <3>6
  <2>3. QED
    BY <2>1, <2>2
<1>3. Contract!Reporting([m \in Msgs |-> IF Reports[m] = "waiting" THEN {"waiting", "failed"}
                                         ELSE {Reports[m]}])
  BY SMTT(30), <1>2, ReportStep
<1>4. UNCHANGED <<SentMsgs, delivered, acked>>
  BY ZenonT(30) DEF DeliveryDeadlines, recipientVars, SentMsgs
<1>5. QED
  BY ZenonT(30), <1>3, <1>4 DEF Contract!GiveUp, SentMsgs, Reports

\* The 24h eviction only ends reports.
LEMMA CleanupContract ==
  ASSUME IInv, TrackerCleanup
  PROVE  Contract!Forget
<1>1. ASSUME NEW m \in Msgs PROVE Report(tracker', m) \in {Reports[m], "none"}
  <2>1. /\ DOMAIN tracker' \subseteq DOMAIN tracker
        /\ \A x \in DOMAIN tracker' : tracker'[x] = tracker[x]
    BY Zenon, UnevictedType DEF IInv, TypeOK, TrackerCleanup
  <2>2. CASE m \in DOMAIN tracker'
    BY <2>1, <2>2, SameReport, NextReports
  <2>3. CASE m \notin DOMAIN tracker'
    BY <2>3, ReportCases
  <2>4. QED
    BY SMTT(30), <2>2, <2>3
<1>2. Contract!Reporting([m \in Msgs |-> {Reports[m], "none"}])
  BY <1>1, ReportStep
<1>3. UNCHANGED <<SentMsgs, delivered, acked>>
  BY DEF TrackerCleanup, recipientVars, SentMsgs
<1>4. QED
  BY ZenonT(30), <1>2, <1>3 DEF Contract!Forget, SentMsgs, Reports

\* A restart takes messages that were sent back to waiting, and forgets the others.
LEMMA RestartContract ==
  ASSUME IInv, SenderRestart
  PROVE  Contract!SenderRestart
<1>1. ASSUME NEW m \in Msgs
      PROVE  Report(tracker', m) \in IF m \in SentMsgs THEN {"waiting", "none"} ELSE {"none"}
  <2>0. tracker' = Restored /\ TypeOK /\ Fresh
    BY DEF SenderRestart, IInv
  <2>1. CASE m \notin DOMAIN saved
    <3>1. m \notin DOMAIN tracker'
      BY ZenonT(30), <2>0, <2>1 DEF Restored
    <3>2. QED
      BY <3>1, ReportCases
  <2>2. CASE m \in DOMAIN saved
    <3>1. m \in SentMsgs
      BY Zenon, <2>0, <2>2 DEF Fresh, SentMsgs
    <3>2. m \in DOMAIN tracker' /\ tracker'[m].status = saved[m].status
      BY SMTT(30), <2>0, <2>2 DEF Restored
    <3>3. saved[m].status \in Pending..Relayed
      BY <2>0, <2>2 DEF TypeOK, Record
    <3>4. tracker'[m].status < Delivered
      BY <3>2, <3>3
    <3>5. QED
      BY <3>1, <3>2, <3>4, ReportCases
  <2>3. QED
    BY <2>1, <2>2
<1>2. Contract!Reporting([m \in Msgs |-> IF m \in SentMsgs THEN {"waiting", "none"} ELSE {"none"}])
  BY <1>1, ReportStep
<1>3. UNCHANGED <<SentMsgs, delivered, acked>>
  BY DEF SenderRestart, recipientVars, SentMsgs
<1>4. QED
  BY ZenonT(30), <1>2, <1>3 DEF Contract!SenderRestart, SentMsgs, Reports

\* Time changes deadlines and ages, and no report.
LEMMA TickContract ==
  ASSUME IInv, Tick
  PROVE  UNCHANGED Reports
<1>1. ASSUME NEW m \in Msgs PROVE Report(tracker', m) = Report(tracker, m)
  <2>1. DOMAIN tracker' = DOMAIN tracker
    BY Zenon DEF Tick
  <2>2. CASE m \in DOMAIN tracker
    <3>1. tracker[m] \in Entry
      BY <2>2 DEF IInv, TypeOK
    <3>2. tracker'[m] = [tracker[m] EXCEPT !.deadline = Elapsed(@), !.life = Elapsed(@)]
      BY Zenon, <2>2 DEF Tick
    <3>3. tracker'[m].status = tracker[m].status
      BY <3>1, <3>2 DEF Entry
    <3>4. QED
      BY SMTT(30), <2>1, <2>2, <3>3, SameReport
  <2>3. CASE m \notin DOMAIN tracker
    BY SMTT(30), <2>1, <2>3, ReportCases
  <2>4. QED
    BY <2>2, <2>3
<1>2. QED
  BY <1>1, NextReports

\* handle_deliver hands over a message that was sent, for the first time since the
\* recipient's start; a duplicate or an undecryptable payload is not handed over.
LEMMA ChatContract ==
  ASSUME OnceInv, AtMostOnce', NEW e \in net, RecvChat(e),
         Timely \/ (Encrypted /\ Cardinality(Msgs) <= NonceCap)
  PROVE  Contract!HandOver(e.msg) \/ UNCHANGED <<delivered, acked>>
<1>1. TypeOK /\ Fresh
  BY SMTT(30) DEF OnceInv, IInv
<1>2. e.msg \in Msgs /\ ChatInFlight(e.msg)
  BY SMTT(30), <1>1 DEF TypeOK, Envelope, ChatInFlight, RecvChat
<1>3. e.msg \in SentMsgs
  BY ZenonT(30), <1>1, <1>2 DEF Fresh, SentMsgs
<1>4. \/ UNCHANGED <<delivered, acked>>
      \/ /\ delivered' = [delivered EXCEPT ![e.msg] = IF @ < MaxCount THEN @ + 1 ELSE @]
         /\ acked' = acked \cup {e.msg}
  BY ZenonT(30) DEF RecvChat, recipientVars
<1>5. ASSUME delivered' = [delivered EXCEPT ![e.msg] = IF @ < MaxCount THEN @ + 1 ELSE @],
             acked' = acked \cup {e.msg}
      PROVE  Contract!HandOver(e.msg)
  <2>1. delivered \in [Msgs -> 0..2] /\ delivered'[e.msg] <= 1
    BY <1>1, <1>2 DEF TypeOK, MaxCount, AtMostOnce
  <2>2. delivered[e.msg] = 0 /\ delivered' = [delivered EXCEPT ![e.msg] = 1]
    <3> DEFINE old == delivered[e.msg]
               new == IF old < 2 THEN old + 1 ELSE old
    <3>1. delivered' = [delivered EXCEPT ![e.msg] = new] /\ old \in 0..2
      BY SMTT(30), <1>2, <1>5, <2>1 DEF MaxCount
    <3>2. delivered'[e.msg] = new
      BY SMTT(30), <1>2, <2>1, <3>1
    <3>3. \A k \in 0..2 : (IF k < 2 THEN k + 1 ELSE k) <= 1 => k = 0 /\ k + 1 = 1
      BY SMT
    <3>4. old = 0 /\ new = 1
      BY SMT, <2>1, <3>1, <3>2, <3>3
    <3> HIDE DEF new
    <3>5. QED
      BY SMTT(30), <3>1, <3>4
  <2>3. UNCHANGED <<SentMsgs, Reports>>
    BY DEF RecvChat, senderVars, SentMsgs, Reports, Report
  <2>4. QED
    BY ZenonT(30), <1>3, <1>5, <2>2, <2>3 DEF Contract!HandOver, SentMsgs, Reports
<1>6. QED
  BY <1>4, <1>5

-----------------------------------------------------------------------------
(* The theorem *)

\* Every step of the delivery protocol is a step of the contract, or its users see
\* nothing of it.
LEMMA ContractStep ==
  ASSUME OnceInv, AtMostOnce', [Next]_vars,
         Timely \/ (Encrypted /\ Cardinality(Msgs) <= NonceCap)
  PROVE  [Contract!Next]_(Contract!vars)
<1>0. IInv
  BY DEF OnceInv
<1> DEFINE Unseen == UNCHANGED <<SentMsgs, Reports, delivered, acked>>
<1>1. Unseen => UNCHANGED Contract!vars
  BY Zenon DEF Contract!vars, SentMsgs, Reports
<1>2. ASSUME NEW n \in Msgs, Send(n) PROVE Contract!Next
  BY ZenonT(30), <1>0, <1>2, SendContract DEF Contract!Next
<1>3. ASSUME NEW e \in net, RecvAtSender(e) PROVE Contract!Next \/ Unseen
  <2>1. e.msg \in Msgs
    BY SMTT(30), <1>0 DEF IInv, TypeOK, Envelope
  <2>2. UNCHANGED <<SentMsgs, delivered, acked>>
    BY <1>3 DEF RecvAtSender, recipientVars, SentMsgs
  <2>3. QED
    BY Zenon, <1>0, <1>3, <2>1, <2>2, AckContract DEF Contract!Next
<1>4. ASSUME NEW e \in net, RecvChat(e) PROVE Contract!Next \/ Unseen
  <2>1. e.msg \in Msgs
    BY SMTT(30), <1>0 DEF IInv, TypeOK, Envelope
  <2>2. UNCHANGED <<SentMsgs, Reports>>
    BY <1>4 DEF RecvChat, senderVars, SentMsgs, Reports, Report
  <2>3. QED
    BY Zenon, <1>4, <2>1, <2>2, ChatContract DEF Contract!Next
<1>5. CASE DeliveryDeadlines
  BY ZenonT(30), <1>0, <1>5, SweepContract DEF Contract!Next
<1>6. CASE TrackerCleanup
  BY ZenonT(30), <1>0, <1>6, CleanupContract DEF Contract!Next
<1>7. CASE SenderRestart
  BY ZenonT(30), <1>0, <1>7, RestartContract DEF Contract!Next
<1>8. CASE Tick
  <2>1. UNCHANGED <<SentMsgs, delivered, acked>>
    BY ZenonT(30), <1>8 DEF Tick, SentMsgs
  <2>2. QED
    BY ZenonT(30), <1>0, <1>1, <1>8, <2>1, TickContract
<1>9. CASE RecipientRestart
  <2>1. UNCHANGED <<SentMsgs, Reports, acked>> /\ delivered' = [m \in Msgs |-> 0]
    BY <1>9 DEF RecipientRestart, senderVars, SentMsgs, Reports, Report
  <2>2. Contract!RecipientRestart
    BY Zenon, <2>1 DEF Contract!RecipientRestart, SentMsgs, Reports
  <2>3. QED
    BY Zenon, <2>2 DEF Contract!Next
<1>10. CASE UNCHANGED <<tracker, via, delivered, acked>>
  <2>1. Unseen
    BY <1>10 DEF SentMsgs, Reports, Report
  <2>2. QED
    BY SMTT(30), <1>1, <2>1
<1>11. QED
  BY ZenonT(30), <1>1, <1>2, <1>3, <1>4, <1>5, <1>6, <1>7, <1>8, <1>9, <1>10
  DEF Next, vars, senderVars, recipientVars, Forward, Lose, SendReadReceipt, SenderCacheCleanup,
      RecipientCacheCleanup, SaveState

\* Delivery implements the contract, for any messages, relays, bounds and faults:
\* under the conditions in which duplicates are recognised, what the sender reports
\* and what the recipient gets are a behaviour of DeliveryContract.
THEOREM ContractIsKept ==
  Timely \/ (Encrypted /\ Cardinality(Msgs) <= NonceCap) => (Spec => ContractHolds)
<1> SUFFICES ASSUME Timely \/ (Encrypted /\ Cardinality(Msgs) <= NonceCap)
             PROVE  Spec => ContractHolds
  OBVIOUS
<1>1. Init => Contract!Init
  <2> SUFFICES ASSUME Init PROVE Contract!Init
    OBVIOUS
  <2>1. Reports = [m \in Msgs |-> "none"]
    <3>1. \A m \in Msgs : Report(tracker, m) = "none"
      BY ReportCases DEF Init, NoEntries
    <3>2. QED
      BY SMTT(30), <3>1, NextReports
  <2>2. SentMsgs = {}
    BY DEF Init, SentMsgs
  <2>3. delivered = [m \in Msgs |-> 0] /\ acked = {}
    BY DEF Init
  <2>4. QED
    BY ZenonT(30), <2>1, <2>2, <2>3 DEF Contract!Init, SentMsgs, Reports
<1>2. OnceInv /\ OnceInv' /\ [Next]_vars => [Contract!Next]_(Contract!vars)
  BY ContractStep DEF OnceInv
<1>3. QED
  BY <1>1, <1>2, OnceInvariance, PTL DEF Spec, ContractHolds, Contract!Spec
=============================================================================
