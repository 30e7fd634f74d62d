--------------------------- MODULE GroupLogProofs ---------------------------
(***************************************************************************)
(* Proofs of the safety properties of GroupLog, for any number of messages,*)
(* any capacities and any faults.  The inductive invariant is LogInv: the  *)
(* table has a row for every number below next_seq and no hole, because no *)
(* cleanup ever removes a row and a restart only takes next_seq back; and  *)
(* as long as the hub has not crashed, everything that was ever numbered,  *)
(* stored or sent lies below next_seq.                                     *)
(***************************************************************************)
EXTENDS GroupLog, FiniteSetTheorems, SequenceTheorems, WellFoundedInduction, TLAPS

\* Every row was stored after the instant TTL, which is all that the cleanup asks.
RowsAreKept == \A q \in DOMAIN db : db[q].storedAt >= TTL

\* A snapshot never has a higher number than the hub.
SavedBehind == savedSeq <= nextSeq

\* There is a row for every number below next_seq, and below every row.
TableReaches == \A n \in Nat : n < nextSeq => n \in DOMAIN db
TableIsDense == \A q \in DOMAIN db, n \in Nat : n <= q => n \in DOMAIN db

\* What was numbered, stored, remembered, sent and seen lies below next_seq.
BelowNext ==
  /\ \A x \in numbered : x[1] < nextSeq /\ x[1] \in DOMAIN db /\ db[x[1]].id = x[2]
  /\ \A q \in DOMAIN db : q < nextSeq
  /\ \A m \in history : m.seq < nextSeq
  /\ \A i \in DOMAIN toMember : toMember[i].latest < nextSeq
  /\ lastSeq > 0 => lastSeq < nextSeq
  /\ savedLast > 0 => savedLast < nextSeq

LogInv ==
  /\ TypeOK
  /\ RowsAreKept
  /\ SavedBehind
  /\ TableReaches
  /\ TableIsDense
  /\ faults["hubCrash"] = 0 => BelowNext

Message == [id: Msgs, seq: Nat]
Sending == [kind: {"message", "sync"}, batch: SUBSET Message, latest: Nat]

-----------------------------------------------------------------------------
(* Helpers *)

\* A set of messages that is not empty has one with the lowest number.
LEMMA OldestExists ==
  ASSUME NEW h \in SUBSET Message, h # {}
  PROVE  \E m \in h : \A other \in h : m.seq <= other.seq
<1> DEFINE T == {m.seq : m \in h}
           R == OpToRel(<, Nat)
<1>1. T \subseteq Nat /\ T # {}
  BY DEF Message
<1>2. IsWellFoundedOn(R, Nat)
  BY NatLessThanWellFounded
<1>3. \A x, y \in Nat : <<x, y>> \in R <=> x < y
  BY DEF OpToRel
<1> HIDE DEF R
<1>4. \E x \in T : \A y \in T : ~(<<y, x>> \in R)
  BY ZenonT(30), <1>1, <1>2, WFMin
<1> HIDE DEF T
<1>5. PICK x \in T : \A y \in T : ~(<<y, x>> \in R)
  BY Zenon, <1>4
<1>6. \A y \in T : x <= y
  <2> TAKE y \in T
  <2>1. x \in Nat /\ y \in Nat
    BY <1>1
  <2>2. ~(y < x)
    BY Zenon, <1>3, <1>5, <2>1
  <2>3. QED
    BY <2>1, <2>2
<1>7. QED
  BY <1>6 DEF T

\* The trim keeps the history within its capacity and adds nothing.
LEMMA TrimmedType ==
  ASSUME NEW h \in SUBSET Message, IsFiniteSet(h), Cardinality(h) <= HistoryCap, NEW m \in Message
  PROVE  /\ Trimmed(h \cup {m}) \subseteq h \cup {m}
         /\ IsFiniteSet(Trimmed(h \cup {m}))
         /\ Cardinality(Trimmed(h \cup {m})) <= HistoryCap
<1> DEFINE g == h \cup {m}
           old == CHOOSE x \in g : \A other \in g : x.seq <= other.seq
<1>0. HistoryCap \in Nat
  BY LogAssumption
<1>1. g \in SUBSET Message /\ g # {}
  OBVIOUS
<1>2. old \in g
  BY <1>1, OldestExists
<1>3. /\ IsFiniteSet(g)
      /\ Cardinality(g) \in Nat /\ Cardinality(h) \in Nat
      /\ Cardinality(g) <= Cardinality(h) + 1
  <2>1. Cardinality(h) \in Nat
    BY FS_CardinalityType
  <2>2. /\ IsFiniteSet(g)
        /\ Cardinality(g) = Cardinality(h) \/ Cardinality(g) = Cardinality(h) + 1
    BY FS_AddElement
  <2>3. QED
    BY SMTT(30), <2>1, <2>2
<1>4. /\ IsFiniteSet(g \ {old})
      /\ Cardinality(g \ {old}) = Cardinality(g) - 1
  BY SMTT(30), ZenonT(30), <1>2, <1>3, FS_RemoveElement
<1>5. Trimmed(g) = IF Cardinality(g) > HistoryCap THEN g \ {old} ELSE g
  BY DEF Trimmed, WithoutOldest
<1> HIDE DEF g, old
<1>6. QED
  BY <1>0, <1>3, <1>4, <1>5 DEF g

\* Taking an element out of a sequence leaves a sequence of its other elements.
LEMMA RemoveAtType ==
  ASSUME NEW S, NEW s \in Seq(S), NEW i \in DOMAIN s
  PROVE  /\ RemoveAt(s, i) \in Seq(S)
         /\ \A j \in DOMAIN RemoveAt(s, i) : \E k \in DOMAIN s : RemoveAt(s, i)[j] = s[k]
<1>1. /\ Len(s) \in Nat /\ DOMAIN s = 1..Len(s)
      /\ \A j \in 1..Len(s) : s[j] \in S
  BY LenProperties, ElementOfSeq
<1> DEFINE a == SubSeq(s, 1, i - 1)
           b == SubSeq(s, i + 1, Len(s))
<1>2. /\ a \in Seq(S) /\ Len(a) = i - 1
      /\ \A j \in 1..i - 1 : a[j] = s[j]
  <2>1. \A j \in 1..i - 1 : s[j] \in S
    BY <1>1
  <2>2. 1 \in Int /\ i - 1 \in Int /\ i - 1 >= 0
    BY <1>1
  <2>3. /\ a \in Seq(S)
        /\ Len(a) = IF 1 <= i - 1 THEN (i - 1) - 1 + 1 ELSE 0
        /\ \A j \in 1..(i - 1) - 1 + 1 : a[j] = s[1 + j - 1]
    BY <2>1, <2>2, SubSeqProperties
  <2> HIDE DEF a
  <2>4. \A j \in 1..i - 1 : 1 + j - 1 = j
    BY <2>2
  <2>5. QED
    BY <2>2, <2>3, <2>4
<1>3. /\ b \in Seq(S) /\ Len(b) = Len(s) - i
      /\ \A j \in 1..Len(s) - i : b[j] = s[i + j]
  <2>1. \A j \in i + 1..Len(s) : s[j] \in S
    BY <1>1
  <2>2. i + 1 \in Int /\ Len(s) \in Int /\ i <= Len(s) /\ i \in Int
    BY <1>1
  <2>3. /\ b \in Seq(S)
        /\ Len(b) = IF i + 1 <= Len(s) THEN Len(s) - (i + 1) + 1 ELSE 0
        /\ \A j \in 1..Len(s) - (i + 1) + 1 : b[j] = s[i + 1 + j - 1]
    BY <2>1, <2>2, SubSeqProperties
  <2> HIDE DEF b
  <2>4. \A j \in 1..Len(s) - i : i + 1 + j - 1 = i + j
    BY SMTT(30), <2>2
  <2>5. QED
    BY SMTT(30), <2>2, <2>3, <2>4
<1> HIDE DEF a, b
<1>4. /\ a \o b \in Seq(S) /\ Len(a \o b) = Len(a) + Len(b)
      /\ \A j \in 1..Len(a) + Len(b) : (a \o b)[j] = IF j <= Len(a) THEN a[j] ELSE b[j - Len(a)]
  BY ZenonT(30), <1>2, <1>3, ConcatProperties
<1>5. ASSUME NEW j \in 1..Len(s) - 1 PROVE \E k \in 1..Len(s) : (a \o b)[j] = s[k]
  <2>1. CASE j <= i - 1
    <3>1. (a \o b)[j] = s[j] /\ j \in 1..Len(s)
      BY SMTT(30), ZenonT(30), <1>1, <1>2, <1>3, <1>4, <2>1
    <3>2. QED
      BY <3>1
  <2>2. CASE ~(j <= i - 1)
    <3>1. (a \o b)[j] = b[j - (i - 1)] /\ j - (i - 1) \in 1..Len(s) - i
      BY SMTT(30), ZenonT(30), <1>1, <1>2, <1>3, <1>4, <2>2
    <3>2. b[j - (i - 1)] = s[i + (j - (i - 1))] /\ i + (j - (i - 1)) \in 1..Len(s)
      BY SMTT(30), ZenonT(30), <1>1, <1>3, <3>1
    <3>3. QED
      BY <3>1, <3>2
  <2>3. QED
    BY ZenonT(30), <2>1, <2>2
<1>6. RemoveAt(s, i) = a \o b
  BY DEF RemoveAt, a, b
<1>7. DOMAIN RemoveAt(s, i) = 1..Len(s) - 1
  <2>1. Len(a \o b) = Len(s) - 1
    BY <1>1, <1>2, <1>3, <1>4
  <2>2. DOMAIN (a \o b) = 1..Len(a \o b)
    BY <1>4, LenProperties
  <2>3. QED
    BY Zenon, <1>6, <2>1, <2>2
<1>8. QED
  BY Zenon, <1>1, <1>4, <1>5, <1>6, <1>7

\* The elements of a queue of sendings.
LEMMA SendingType ==
  ASSUME NEW s \in Seq(Sending)
  PROVE  \A i \in DOMAIN s : s[i] \in Sending /\ s[i].latest \in Nat
<1>1. DOMAIN s = 1..Len(s)
  BY LenProperties
<1>2. \A i \in 1..Len(s) : s[i] \in Sending
  BY ElementOfSeq
<1>3. \A m \in Sending : m.latest \in Nat
  BY DEF Sending
<1>4. QED
  BY Zenon, <1>1, <1>2, <1>3

\* What reaches the member's queue is what is sent now, or was there before.
LEMMA SendToMemberType ==
  ASSUME TypeOK, NEW m \in Sending, SendToMember(m)
  PROVE  /\ toMember' \in Seq(Sending)
         /\ \A i \in DOMAIN toMember' :
              \/ toMember'[i] = m
              \/ i \in DOMAIN toMember /\ toMember'[i] = toMember[i]
<1>1. toMember \in Seq(Sending)
  BY DEF TypeOK, Sending, Message
<1>2. CASE toMember' = toMember
  BY <1>1, <1>2
<1>3. CASE toMember' = Append(toMember, m)
  <2>1. /\ toMember' \in Seq(Sending) /\ Len(toMember') = Len(toMember) + 1
        /\ \A i \in 1..Len(toMember) : toMember'[i] = toMember[i]
        /\ toMember'[Len(toMember) + 1] = m
    BY <1>1, <1>3, AppendProperties
  <2>2. DOMAIN toMember = 1..Len(toMember) /\ Len(toMember) \in Nat
    BY <1>1, LenProperties
  <2>3. DOMAIN toMember' = 1..Len(toMember')
    BY <2>1, LenProperties
  <2>4. QED
    BY <2>1, <2>2, <2>3
<1>4. QED
  BY <1>2, <1>3 DEF SendToMember

\* A fault is counted and changes nothing else of the counts.
LEMMA FailType ==
  ASSUME TypeOK, NEW F, Fail(F)
  PROVE  /\ faults' \in [Faults -> Nat]
         /\ \A f \in Faults : faults'[f] >= faults[f]
         /\ \A f \in Faults \cap F : faults'[f] > 0
BY SMTT(30) DEF TypeOK, Fail

\* The pages of the table and the history consist of messages with their numbers.
LEMMA MissedType ==
  ASSUME TypeOK, NEW since \in Nat
  PROVE  /\ Missed(since) \subseteq Message
         /\ \A m \in Missed(since) : m.seq \in DOMAIN db \/ m \in history
<1>1. Page(since) \subseteq DOMAIN db
  BY DEF Page
<1>2. \A q \in Page(since) : [id |-> db[q].id, seq |-> q] \in Message
  BY SMTT(30), <1>1 DEF TypeOK, Message
<1>3. history \subseteq Message
  BY DEF TypeOK, Message
<1>4. QED
  BY <1>1, <1>2, <1>3 DEF Missed

-----------------------------------------------------------------------------
(* The steps *)

\* handle_message: a message that is accepted gets the number next_seq.
Accepted(id) ==
  LET m == NumberedMessage(id)
  IN  /\ nextSeq' = nextSeq + 1
      /\ history' = Trimmed(history \cup {m})
      /\ db' = [q \in DOMAIN db \cup {m.seq} |->
                  IF q = m.seq THEN [id |-> id, storedAt |-> day] ELSE db[q]]
      /\ numbered' = numbered \cup {<<m.seq, id>>}
      /\ SendToMember([kind |-> "message", batch |-> {m}, latest |-> m.seq])

\* A post is numbered, or is refused and leaves table and history as they are.
LEMMA HubMessageCases ==
  ASSUME TypeOK, NEW id \in posts, HubMessage(id)
  PROVE  /\ Accepted(id) \/ UNCHANGED <<nextSeq, history, db, numbered, toMember>>
         /\ seen' \subseteq Msgs /\ posts' \subseteq Msgs
         /\ faults' \in [Faults -> Nat]
         /\ \A f \in Faults : faults'[f] >= faults[f]
         /\ UNCHANGED <<savedSeq, memberVars, requests, day, sentAt>>
<1>1. \A kept \in Remembered : kept \subseteq seen
  BY DEF Remembered
<1>2. id \in Msgs /\ seen \subseteq Msgs /\ posts \subseteq Msgs
  BY DEF TypeOK
<1>3. seen' \subseteq Msgs /\ posts' \subseteq Msgs
  BY Zenon, <1>1, <1>2 DEF HubMessage
<1>4. /\ faults' \in [Faults -> Nat]
      /\ \A f \in Faults : faults'[f] >= faults[f]
  <2>1. CASE UNCHANGED faults
    BY <2>1 DEF TypeOK
  <2>2. CASE Fail({"duplicate"})
    BY <2>2, FailType
  <2>3. QED
    BY Zenon, <2>1, <2>2 DEF HubMessage
<1>5. Accepted(id) \/ UNCHANGED <<nextSeq, history, db, numbered, toMember>>
  BY Zenon DEF HubMessage, Accepted
<1>6. UNCHANGED <<savedSeq, memberVars, requests, day, sentAt>>
  BY ZenonT(30) DEF HubMessage
<1>7. QED
  BY <1>3, <1>4, <1>5, <1>6

\* Numbering a message keeps the types.
LEMMA AcceptedType ==
  ASSUME TypeOK, NEW id \in Msgs, Accepted(id)
  PROVE  /\ nextSeq' = nextSeq + 1
         /\ history' \subseteq history \cup {[id |-> id, seq |-> nextSeq]}
         /\ history' \subseteq Message /\ IsFiniteSet(history') /\ Cardinality(history') <= HistoryCap
         /\ db' = [q \in DOMAIN db \cup {nextSeq} |->
                     IF q = nextSeq THEN [id |-> id, storedAt |-> day] ELSE db[q]]
         /\ DOMAIN db' \subseteq Nat
         /\ db' \in [DOMAIN db' -> [id: Msgs, storedAt: Nat]]
         /\ numbered' = numbered \cup {<<nextSeq, id>>}
         /\ toMember' \in Seq(Sending)
         /\ \A i \in DOMAIN toMember' :
              \/ toMember'[i].latest = nextSeq
              \/ i \in DOMAIN toMember /\ toMember'[i] = toMember[i]
<1> DEFINE m == [id |-> id, seq |-> nextSeq]
<1>1. NumberedMessage(id) = m /\ m \in Message /\ m.seq = nextSeq
  BY DEF NumberedMessage, Message, TypeOK
<1>2. /\ nextSeq' = nextSeq + 1
      /\ history' = Trimmed(history \cup {m})
      /\ db' = [q \in DOMAIN db \cup {nextSeq} |->
                  IF q = nextSeq THEN [id |-> id, storedAt |-> day] ELSE db[q]]
      /\ numbered' = numbered \cup {<<nextSeq, id>>}
      /\ SendToMember([kind |-> "message", batch |-> {m}, latest |-> nextSeq])
  BY Zenon, <1>1 DEF Accepted
<1>3. /\ history' \subseteq history \cup {m}
      /\ IsFiniteSet(history') /\ Cardinality(history') <= HistoryCap
      /\ history' \subseteq Message
  <2>1. history \in SUBSET Message /\ IsFiniteSet(history) /\ Cardinality(history) <= HistoryCap
    BY DEF TypeOK, Message
  <2>2. QED
    BY ZenonT(30), SMTT(30), <1>1, <1>2, <2>1, TrimmedType
<1>4. day \in Nat
  BY SMTT(30), LogAssumption DEF TypeOK
<1>5. DOMAIN db' \subseteq Nat /\ db' \in [DOMAIN db' -> [id: Msgs, storedAt: Nat]]
  BY <1>2, <1>4 DEF TypeOK
<1>6. [kind |-> "message", batch |-> {m}, latest |-> nextSeq] \in Sending
  BY <1>1 DEF Sending, TypeOK
<1>7. /\ toMember' \in Seq(Sending)
      /\ \A i \in DOMAIN toMember' :
           \/ toMember'[i].latest = nextSeq
           \/ i \in DOMAIN toMember /\ toMember'[i] = toMember[i]
  BY <1>2, <1>6, SendToMemberType
<1>8. QED
  BY ZenonT(30), <1>2, <1>3, <1>5, <1>7

\* The numbering keeps the table without a hole and everything below next_seq.
LEMMA AcceptedInv ==
  ASSUME LogInv, NEW id \in Msgs, Accepted(id)
  PROVE  /\ RowsAreKept' /\ TableReaches' /\ TableIsDense'
         /\ (faults["hubCrash"] = 0 /\ UNCHANGED memberVars) => BelowNext'
<1> DEFINE m == [id |-> id, seq |-> nextSeq]
<1>1. /\ nextSeq' = nextSeq + 1
      /\ history' \subseteq history \cup {m}
      /\ db' = [q \in DOMAIN db \cup {nextSeq} |->
                  IF q = nextSeq THEN [id |-> id, storedAt |-> day] ELSE db[q]]
      /\ numbered' = numbered \cup {<<nextSeq, id>>}
      /\ toMember' \in Seq(Sending)
      /\ \A i \in DOMAIN toMember' :
           \/ toMember'[i].latest = nextSeq
           \/ i \in DOMAIN toMember /\ toMember'[i] = toMember[i]
  BY Zenon, AcceptedType DEF LogInv
<1>2. /\ nextSeq \in Nat /\ DOMAIN db \subseteq Nat /\ day \in Nat /\ day >= TTL /\ TTL \in Nat
      /\ history \subseteq Message /\ numbered \subseteq Nat \X Msgs
      /\ lastSeq \in Nat /\ savedLast \in Nat
  <2>1. TypeOK
    BY DEF LogInv
  <2>2. day \in Nat /\ day >= TTL /\ TTL \in Nat
    BY SMTT(30), ZenonT(30), <2>1, LogAssumption, ClockAssumption DEF TypeOK
  <2>3. QED
    BY <2>1, <2>2 DEF TypeOK, Message
<1>3. DOMAIN db' = DOMAIN db \cup {nextSeq}
  BY <1>1
<1>4. /\ \A q \in DOMAIN db : q # nextSeq => db'[q] = db[q]
      /\ db'[nextSeq] = [id |-> id, storedAt |-> day]
  BY <1>1
<1>5. RowsAreKept'
  BY <1>2, <1>3, <1>4 DEF LogInv, RowsAreKept
<1>6. TableReaches'
  BY <1>1, <1>2, <1>3 DEF LogInv, TableReaches
<1>7. TableIsDense'
  BY <1>2, <1>3 DEF LogInv, TableIsDense, TableReaches
<1>8. ASSUME faults["hubCrash"] = 0, UNCHANGED memberVars PROVE BelowNext'
  <2>1. BelowNext
    BY SMTT(30), <1>8 DEF LogInv
  <2>2. \A x \in numbered' : x[1] < nextSeq' /\ x[1] \in DOMAIN db' /\ db'[x[1]].id = x[2]
    <3>1. ASSUME NEW x \in numbered
          PROVE  x[1] < nextSeq' /\ x[1] \in DOMAIN db' /\ db'[x[1]].id = x[2]
      <4>1. x[1] < nextSeq /\ x[1] \in DOMAIN db /\ db[x[1]].id = x[2] /\ x[1] \in Nat
        BY <1>2, <2>1 DEF BelowNext
      <4>2. x[1] # nextSeq /\ x[1] < nextSeq'
        BY <1>1, <1>2, <4>1
      <4>3. QED
        BY <1>3, <1>4, <4>1, <4>2
    <3>2. nextSeq < nextSeq' /\ nextSeq \in DOMAIN db' /\ db'[nextSeq].id = id
      BY <1>1, <1>2, <1>3, <1>4
    <3>3. ASSUME NEW x \in numbered' PROVE x \in numbered \/ x = <<nextSeq, id>>
      BY SMTT(30), <1>1
    <3>4. QED
      BY <3>1, <3>2, <3>3
  <2>3. \A q \in DOMAIN db' : q < nextSeq'
    BY <1>1, <1>2, <1>3, <2>1 DEF BelowNext
  <2>4. \A h \in history' : h.seq < nextSeq'
    BY SMTT(30), <1>1, <1>2, <2>1 DEF BelowNext, Message
  <2>5. \A i \in DOMAIN toMember' : toMember'[i].latest < nextSeq'
    <3> TAKE i \in DOMAIN toMember'
    <3>1. CASE toMember'[i].latest = nextSeq
      BY <1>1, <1>2, <3>1
    <3>2. CASE i \in DOMAIN toMember /\ toMember'[i] = toMember[i]
      <4>1. toMember[i].latest < nextSeq /\ toMember'[i].latest = toMember[i].latest
        BY <2>1, <3>2 DEF BelowNext
      <4>2. toMember'[i].latest \in Nat
        BY <1>1, SendingType
      <4>3. QED
        BY <1>1, <1>2, <4>1, <4>2
    <3>3. QED
      BY SMTT(30), <1>1, <3>1, <3>2
  <2>6. (lastSeq' > 0 => lastSeq' < nextSeq') /\ (savedLast' > 0 => savedLast' < nextSeq')
    BY SMTT(30), <1>1, <1>2, <1>8, <2>1 DEF BelowNext, memberVars
  <2>7. QED
    BY <2>2, <2>3, <2>4, <2>5, <2>6 DEF BelowNext
<1>9. QED
  BY Zenon, <1>5, <1>6, <1>7, <1>8

\* Nothing that the invariant compares changes.
LEMMA SameLog ==
  ASSUME LogInv, TypeOK', UNCHANGED <<nextSeq, db, savedSeq, numbered>>,
         \A f \in Faults : faults'[f] >= faults[f],
         history' \subseteq history,
         \A i \in DOMAIN toMember' : \E k \in DOMAIN toMember : toMember'[i] = toMember[k],
         \/ lastSeq' \in {lastSeq, savedLast}
         \/ \E k \in DOMAIN toMember : lastSeq' = toMember[k].latest,
         savedLast' \in {lastSeq, savedLast}
  PROVE  LogInv'
<1>1. RowsAreKept' /\ SavedBehind' /\ TableReaches' /\ TableIsDense'
  BY DEF LogInv, RowsAreKept, SavedBehind, TableReaches, TableIsDense
<1>2. ASSUME faults'["hubCrash"] = 0 PROVE BelowNext'
  <2>0. /\ "hubCrash" \in Faults /\ faults["hubCrash"] \in Nat
        /\ faults'["hubCrash"] >= faults["hubCrash"]
    BY DEF LogInv, TypeOK, Faults
  <2>1. faults["hubCrash"] = 0
    BY SMTT(30), <1>2, <2>0
  <2>2. BelowNext
    BY SMTT(30), <2>1 DEF LogInv
  <2>3. QED
    BY SMTT(30), <2>2 DEF BelowNext
<1>3. QED
  BY SMTT(30), <1>1, <1>2 DEF LogInv

LEMMA HubMessageInv ==
  ASSUME LogInv, NEW id \in posts, HubMessage(id)
  PROVE  LogInv'
<1>0. TypeOK /\ id \in Msgs
  BY ZenonT(30) DEF LogInv, TypeOK
<1>1. /\ Accepted(id) \/ UNCHANGED <<nextSeq, history, db, numbered, toMember>>
      /\ seen' \subseteq Msgs /\ posts' \subseteq Msgs
      /\ faults' \in [Faults -> Nat]
      /\ \A f \in Faults : faults'[f] >= faults[f]
      /\ UNCHANGED <<savedSeq, memberVars, requests, day, sentAt>>
  BY <1>0, HubMessageCases
<1>2. CASE Accepted(id)
  <2>1. /\ nextSeq' = nextSeq + 1 /\ numbered' = numbered \cup {<<nextSeq, id>>}
        /\ history' \subseteq Message /\ IsFiniteSet(history') /\ Cardinality(history') <= HistoryCap
        /\ DOMAIN db' \subseteq Nat /\ db' \in [DOMAIN db' -> [id: Msgs, storedAt: Nat]]
        /\ toMember' \in Seq(Sending)
    BY <1>0, <1>2, AcceptedType
  <2>2. TypeOK'
    BY SMTT(30), ZenonT(30), <1>0, <1>1, <2>1 DEF TypeOK, Message, Sending, memberVars
  <2>3. /\ RowsAreKept' /\ TableReaches' /\ TableIsDense'
        /\ faults["hubCrash"] = 0 => BelowNext'
    BY Zenon, <1>0, <1>1, <1>2, AcceptedInv
  <2>4. SavedBehind'
    BY SMTT(30), <1>0, <1>1, <2>1 DEF LogInv, SavedBehind, TypeOK
  <2>5. faults'["hubCrash"] = 0 => faults["hubCrash"] = 0
    BY SMTT(30), ZenonT(30), <1>0, <1>1 DEF TypeOK, Faults
  <2>6. QED
    BY <2>2, <2>3, <2>4, <2>5 DEF LogInv
<1>3. CASE UNCHANGED <<nextSeq, history, db, numbered, toMember>>
  <2>1. TypeOK'
    BY ZenonT(30), <1>0, <1>1, <1>3 DEF TypeOK, memberVars
  <2>2. QED
    BY ZenonT(30), <1>1, <1>3, <2>1, SameLog DEF memberVars
<1>4. QED
  BY <1>1, <1>2, <1>3

LEMMA HubSyncRequestInv ==
  ASSUME LogInv, NEW since \in requests, HubSyncRequest(since)
  PROVE  LogInv'
<1>0. /\ TypeOK /\ since \in Nat /\ requests' \subseteq Nat
      /\ UNCHANGED <<hubVars, memberVars, posts, day, sentAt, faults>>
  BY ZenonT(30) DEF LogInv, TypeOK, HubSyncRequest
<1>1. CASE UNCHANGED toMember
  <2>1. TypeOK'
    BY ZenonT(30), <1>0, <1>1 DEF TypeOK, memberVars, hubVars
  <2>2. \A f \in Faults : faults'[f] >= faults[f]
    BY SMTT(30), <1>0 DEF TypeOK
  <2>3. QED
    BY <1>0, <1>1, <2>1, <2>2, SameLog DEF memberVars, hubVars
<1>2. ASSUME NEW last \in Missed(since),
             SendToMember([kind |-> "sync", batch |-> Missed(since), latest |-> last.seq])
      PROVE  LogInv'
  <2> DEFINE m == [kind |-> "sync", batch |-> Missed(since), latest |-> last.seq]
  <2>1. /\ Missed(since) \subseteq Message
        /\ last.seq \in DOMAIN db \/ last \in history
    BY <1>0, MissedType
  <2>2. m \in Sending /\ m.latest = last.seq /\ last.seq \in Nat
    BY SMTT(30), <2>1 DEF Sending, Message
  <2> HIDE DEF m
  <2>3. /\ toMember' \in Seq(Sending)
        /\ \A i \in DOMAIN toMember' :
             \/ toMember'[i] = m
             \/ i \in DOMAIN toMember /\ toMember'[i] = toMember[i]
    <3>1. SendToMember(m)
      BY SMTT(30), <1>2 DEF m
    <3>2. QED
      BY <1>0, <2>2, <3>1, SendToMemberType
  <2>4. TypeOK'
    BY ZenonT(30), <1>0, <2>3 DEF TypeOK, memberVars, hubVars, Sending, Message
  <2>5. RowsAreKept' /\ SavedBehind' /\ TableReaches' /\ TableIsDense'
    BY SMTT(30), <1>0 DEF LogInv, RowsAreKept, SavedBehind, TableReaches, TableIsDense, hubVars
  <2>6. ASSUME faults'["hubCrash"] = 0 PROVE BelowNext'
    <3>1. BelowNext
      BY <1>0, <2>6 DEF LogInv
    <3>2. m.latest < nextSeq
      BY <2>1, <2>2, <3>1 DEF BelowNext
    <3>3. \A i \in DOMAIN toMember' : toMember'[i].latest < nextSeq
      BY Zenon, <2>3, <3>1, <3>2 DEF BelowNext
    <3>4. QED
      BY <1>0, <3>1, <3>3 DEF BelowNext, hubVars, memberVars
  <2>7. QED
    BY <2>4, <2>5, <2>6 DEF LogInv
<1>3. QED
  BY Zenon, <1>1, <1>2 DEF HubSyncRequest

LEMMA HubRestartInv ==
  ASSUME LogInv, HubCrash \/ HubShutdown
  PROVE  LogInv'
<1>0. TypeOK
  BY DEF LogInv
<1>1. /\ history' = {} /\ seen' = {}
      /\ UNCHANGED <<db, numbered, memberVars, netVars, day, sentAt>>
  BY DEF HubCrash, HubShutdown, HubRestored
<1>2. nextSeq' = savedSeq' /\ nextSeq' \in Nat /\ nextSeq' <= nextSeq
  <2>1. CASE HubCrash
    BY <1>0, <2>1 DEF HubCrash, HubRestored, LogInv, SavedBehind, TypeOK
  <2>2. CASE HubShutdown
    BY <1>0, <2>2 DEF HubShutdown, HubRestored, TypeOK
  <2>3. QED
    BY <2>1, <2>2
<1>3. faults' \in [Faults -> Nat]
  <2>1. CASE HubCrash
    BY <1>0, <2>1, FailType DEF HubCrash
  <2>2. CASE HubShutdown
    BY <1>0, <2>2, FailType DEF HubShutdown
  <2>3. QED
    BY <2>1, <2>2
<1>4. IsFiniteSet(history') /\ Cardinality(history') <= HistoryCap
  <2>1. IsFiniteSet({}) /\ Cardinality({}) = 0 /\ HistoryCap \in Nat
    BY FS_EmptySet, LogAssumption
  <2>2. QED
    BY <1>1, <2>1
<1>5. TypeOK'
  BY ZenonT(30), <1>0, <1>1, <1>2, <1>3, <1>4 DEF TypeOK, memberVars, netVars
<1>6. RowsAreKept' /\ SavedBehind' /\ TableIsDense'
  BY <1>1, <1>2 DEF LogInv, RowsAreKept, SavedBehind, TableIsDense
<1>7. TableReaches'
  BY SMTT(30), <1>0, <1>1, <1>2 DEF LogInv, TableReaches, TypeOK
<1>8. ASSUME faults'["hubCrash"] = 0 PROVE BelowNext'
  <2>1. "hubCrash" \in Faults \cap {"hubCrash"}
    BY DEF Faults
  <2>2. HubShutdown
    <3>1. SUFFICES ASSUME HubCrash PROVE FALSE
      OBVIOUS
    <3>2. faults'["hubCrash"] > 0
      BY <1>0, <2>1, <3>1, FailType DEF HubCrash
    <3>3. QED
      BY <1>8, <3>2
  <2>3. faults'["hubCrash"] >= faults["hubCrash"] /\ faults["hubCrash"] \in Nat
    BY ZenonT(30), <1>0, <2>1, <2>2, FailType DEF HubShutdown, TypeOK
  <2>4. BelowNext
    BY <1>8, <2>3 DEF LogInv
  <2>5. nextSeq' = nextSeq
    BY SMTT(30), <2>2 DEF HubShutdown, HubRestored
  <2>6. QED
    BY <1>1, <2>4, <2>5 DEF BelowNext, memberVars, netVars
<1>9. QED
  BY SMTT(30), <1>5, <1>6, <1>7, <1>8 DEF LogInv

\* Every row is younger than the instant TTL, so that the cleanup keeps them all.
LEMMA HubCleanupInv ==
  ASSUME LogInv, HubCleanup
  PROVE  LogInv'
<1>0. TypeOK /\ RowsAreKept
  BY DEF LogInv
<1>1. /\ history' \subseteq history
      /\ UNCHANGED <<nextSeq, seen, savedSeq, numbered, memberVars, netVars, day, sentAt, faults>>
  BY DEF HubCleanup
<1>2. {q \in DOMAIN db : db[q].storedAt >= TTL} = DOMAIN db
  BY SMTT(30), <1>0 DEF RowsAreKept
<1>3. Restrict(db, DOMAIN db) = db
  BY SMTT(30), <1>0 DEF Restrict, TypeOK
<1>4. db' = db
  BY <1>2, <1>3 DEF HubCleanup
<1>5. IsFiniteSet(history') /\ Cardinality(history') <= HistoryCap
  <2>1. IsFiniteSet(history) /\ Cardinality(history) <= HistoryCap
    BY SMTT(30), <1>0 DEF TypeOK
  <2>2. /\ IsFiniteSet(history') /\ Cardinality(history') <= Cardinality(history)
        /\ Cardinality(history) \in Nat /\ Cardinality(history') \in Nat
    BY <1>1, <2>1, FS_Subset, FS_CardinalityType
  <2>3. QED
    BY <2>1, <2>2, LogAssumption
<1>6. TypeOK'
  BY ZenonT(30), <1>0, <1>1, <1>4, <1>5 DEF TypeOK, memberVars, netVars
<1>7. \A f \in Faults : faults'[f] >= faults[f]
  BY <1>0, <1>1 DEF TypeOK
<1>8. QED
  BY <1>1, <1>4, <1>6, <1>7, SameLog DEF memberVars, netVars

LEMMA MemberReceiveInv ==
  ASSUME LogInv, NEW i \in DOMAIN toMember, MemberReceive(i)
  PROVE  LogInv'
<1>0. TypeOK /\ toMember \in Seq(Sending)
  BY ZenonT(30) DEF LogInv, TypeOK, Sending, Message
<1>1. /\ lastSeq' = IF toMember[i].latest > lastSeq THEN toMember[i].latest ELSE lastSeq
      /\ received' = [id \in Msgs |->
                        IF \E d \in DeliveredOf(toMember[i]) : d.id = id THEN Count(received[id])
                        ELSE received[id]]
      /\ UNCHANGED <<hubVars, up, savedLast, posts, requests, day, sentAt>>
  BY Zenon DEF MemberReceive
<1>2. toMember[i].latest \in Nat
  BY SMTT(30), <1>0, SendingType
<1>3. lastSeq' \in Nat /\ lastSeq' \in {lastSeq, toMember[i].latest}
  BY <1>0, <1>1, <1>2 DEF TypeOK
<1>4. received' \in [Msgs -> 0..MaxCount]
  BY SMTT(30), <1>0, <1>1 DEF TypeOK, Count, MaxCount
<1>5. /\ toMember' \in Seq(Sending)
      /\ \A j \in DOMAIN toMember' : \E k \in DOMAIN toMember : toMember'[j] = toMember[k]
  <2>1. CASE toMember' = RemoveAt(toMember, i)
    BY <1>0, <2>1, RemoveAtType
  <2>2. CASE toMember' = toMember
    BY <1>0, <2>2
  <2>3. QED
    BY Zenon, <2>1, <2>2 DEF MemberReceive
<1>6. PICK F : Fail(F)
  BY ZenonT(30) DEF MemberReceive
<1>7. faults' \in [Faults -> Nat] /\ \A f \in Faults : faults'[f] >= faults[f]
  BY SMTT(30), <1>0, <1>6, FailType
<1>8. TypeOK'
  BY ZenonT(30), <1>0, <1>1, <1>3, <1>4, <1>5, <1>7 DEF TypeOK, hubVars, Sending, Message
<1>9. \/ lastSeq' \in {lastSeq, savedLast}
      \/ \E k \in DOMAIN toMember : lastSeq' = toMember[k].latest
  BY SMTT(30), <1>3
<1>10. QED
  BY <1>1, <1>5, <1>7, <1>8, <1>9, SameLog DEF hubVars

LEMMA LoseInv ==
  ASSUME LogInv,
         \/ \E id \in posts : LosePost(id)
         \/ \E i \in DOMAIN toMember : LoseToMember(i)
  PROVE  LogInv'
<1>0. TypeOK /\ toMember \in Seq(Sending)
  BY ZenonT(30) DEF LogInv, TypeOK, Sending, Message
<1>1. /\ posts' \subseteq posts
      /\ Fail({"loss"})
      /\ UNCHANGED <<hubVars, memberVars, requests, day, sentAt>>
  BY DEF LosePost, LoseToMember
<1>2. /\ toMember' \in Seq(Sending)
      /\ \A j \in DOMAIN toMember' : \E k \in DOMAIN toMember : toMember'[j] = toMember[k]
  <2>1. ASSUME NEW i \in DOMAIN toMember, toMember' = RemoveAt(toMember, i)
        PROVE  <1>2!1 /\ <1>2!2
    BY <1>0, <2>1, RemoveAtType
  <2>2. CASE toMember' = toMember
    BY <1>0, <2>2
  <2>3. QED
    BY Zenon, <2>1, <2>2 DEF LosePost, LoseToMember
<1>3. faults' \in [Faults -> Nat] /\ \A f \in Faults : faults'[f] >= faults[f]
  BY <1>0, <1>1, FailType
<1>4. TypeOK'
  BY ZenonT(30), <1>0, <1>1, <1>2, <1>3 DEF TypeOK, hubVars, memberVars, Sending, Message
<1>5. QED
  BY ZenonT(30), <1>1, <1>2, <1>3, <1>4, SameLog DEF hubVars, memberVars

\* The steps of the member and of the clock that only save, stop, start or send.
LEMMA MemberInv ==
  ASSUME LogInv, MemberSave \/ MemberDown \/ MemberUp
  PROVE  LogInv'
<1>0. TypeOK
  BY DEF LogInv
<1>1. /\ UNCHANGED <<hubVars, received, posts, day, sentAt>>
      /\ lastSeq' \in {lastSeq, savedLast} /\ savedLast' \in {lastSeq, savedLast}
      /\ up' \in BOOLEAN
  BY ZenonT(30), <1>0 DEF MemberSave, MemberDown, MemberUp, TypeOK, netVars
<1>2. requests' \subseteq Nat
  BY SMTT(30), <1>0 DEF MemberSave, MemberDown, MemberUp, TypeOK, netVars, Since
<1>3. toMember' = toMember \/ toMember' = << >>
  BY DEF MemberSave, MemberDown, MemberUp, netVars
<1>4. faults' \in [Faults -> Nat] /\ \A f \in Faults : faults'[f] >= faults[f]
  <2>1. CASE MemberDown
    BY <1>0, <2>1, FailType DEF MemberDown
  <2>2. CASE UNCHANGED faults
    BY <1>0, <2>2 DEF TypeOK
  <2>3. QED
    BY <2>1, <2>2 DEF MemberSave, MemberUp
<1>5. TypeOK'
  <2>1. lastSeq' \in Nat /\ savedLast' \in Nat
    BY SMTT(30), <1>0, <1>1 DEF TypeOK
  <2>2. toMember' \in Seq(Sending)
    <3>1. toMember \in Seq(Sending)
      BY <1>0 DEF TypeOK, Sending, Message
    <3>2. QED
      BY ZenonT(30), <1>3, <3>1, EmptySeq
  <2>3. QED
    BY ZenonT(30), <1>0, <1>1, <1>2, <1>4, <2>1, <2>2 DEF TypeOK, hubVars, Sending, Message
<1>6. \A j \in DOMAIN toMember' : \E k \in DOMAIN toMember : toMember'[j] = toMember[k]
  BY SMTT(30), <1>3
<1>7. QED
  BY <1>1, <1>4, <1>5, <1>6, SameLog DEF hubVars

LEMMA HubSaveInv ==
  ASSUME LogInv, HubSave
  PROVE  LogInv'
<1>0. TypeOK
  BY DEF LogInv
<1>1. /\ savedSeq' = nextSeq
      /\ UNCHANGED <<nextSeq, history, seen, db, numbered, memberVars, netVars, day, sentAt, faults>>
  BY SMTT(30) DEF HubSave
<1>2. TypeOK'
  BY ZenonT(30), <1>0, <1>1 DEF TypeOK, memberVars, netVars
<1>3. SavedBehind'
  BY <1>0, <1>1 DEF SavedBehind, TypeOK
<1>4. RowsAreKept' /\ TableReaches' /\ TableIsDense'
  BY SMTT(30), <1>1 DEF LogInv, RowsAreKept, TableReaches, TableIsDense
<1>5. faults'["hubCrash"] = 0 => BelowNext'
  BY SMTT(30), <1>1 DEF LogInv, BelowNext, memberVars, netVars
<1>6. QED
  BY <1>2, <1>3, <1>4, <1>5 DEF LogInv

\* A post, the passing of a day, or nothing.
LEMMA OtherInv ==
  ASSUME LogInv, (\E id \in Msgs : Post(id)) \/ NextDay \/ UNCHANGED vars
  PROVE  LogInv'
<1>0. TypeOK
  BY SMTT(30) DEF LogInv
<1>1. UNCHANGED <<hubVars, memberVars, requests, toMember, faults>>
  BY ZenonT(30) DEF Post, NextDay, vars, netVars
<1>2. posts' \subseteq Msgs /\ sentAt' \in [Msgs -> Nat \cup {NotSent}]
  <2>0. day \in Nat /\ sentAt \in [Msgs -> Nat \cup {NotSent}] /\ posts \subseteq Msgs
    BY SMTT(30), ZenonT(30), <1>0, LogAssumption DEF TypeOK
  <2>1. ASSUME NEW id \in Msgs, Post(id)
        PROVE  posts' \subseteq Msgs /\ sentAt' \in [Msgs -> Nat \cup {NotSent}]
    BY <2>0, <2>1 DEF Post
  <2>2. CASE UNCHANGED <<posts, sentAt>>
    BY <2>0, <2>2
  <2>3. QED
    BY SMTT(30), <2>1, <2>2 DEF NextDay, vars, netVars
<1>3. day' \in FirstDay..FirstDay + MaxDays
  BY SMTT(30), <1>0, LogAssumption DEF Post, NextDay, vars, TypeOK
<1>4. TypeOK'
  BY ZenonT(30), <1>0, <1>1, <1>2, <1>3 DEF TypeOK, hubVars, memberVars
<1>5. \A f \in Faults : faults'[f] >= faults[f]
  BY <1>0, <1>1 DEF TypeOK
<1>6. QED
  BY <1>1, <1>4, <1>5, SameLog DEF hubVars, memberVars

LEMMA LogStep ==
  ASSUME LogInv, [Next]_vars
  PROVE  LogInv'
BY Zenon, HubMessageInv, HubSyncRequestInv, HubSaveInv, HubRestartInv, HubCleanupInv,
   MemberReceiveInv, MemberInv, LoseInv, OtherInv DEF Next

LEMMA LogInit ==
  ASSUME Init
  PROVE  LogInv
<1>1. IsFiniteSet(history) /\ Cardinality(history) <= HistoryCap
  <2>1. IsFiniteSet({}) /\ Cardinality({}) = 0 /\ HistoryCap \in Nat
    BY FS_EmptySet, LogAssumption
  <2>2. QED
    BY SMTT(30), <2>1 DEF Init
<1>2. DOMAIN db = {} /\ db \in [DOMAIN db -> [id: Msgs, storedAt: Nat]]
  BY DEF Init
<1>3. received \in [Msgs -> 0..MaxCount] /\ faults \in [Faults -> Nat]
  BY DEF Init, MaxCount
<1>4. day \in FirstDay..FirstDay + MaxDays /\ sentAt \in [Msgs -> Nat \cup {NotSent}]
  BY SMTT(30), LogAssumption DEF Init
<1>5. TypeOK
  <2>1. toMember \in Seq(Sending)
    BY DEF Init
  <2>2. nextSeq \in Nat /\ savedSeq \in Nat /\ lastSeq \in Nat /\ savedLast \in Nat /\ up \in BOOLEAN
    BY DEF Init
  <2>3. /\ history = {} /\ seen = {} /\ posts = {} /\ requests = {} /\ numbered = {}
    BY SMTT(30) DEF Init
  <2>4. QED
    BY <1>1, <1>2, <1>3, <1>4, <2>1, <2>2, <2>3 DEF TypeOK, Sending, Message
<1>6. RowsAreKept /\ SavedBehind /\ TableReaches /\ TableIsDense /\ BelowNext
  BY <1>2 DEF Init, RowsAreKept, SavedBehind, TableReaches, TableIsDense, BelowNext
<1>7. QED
  BY <1>5, <1>6 DEF LogInv

THEOREM LogInvariant == Spec => []LogInv
<1>1. Init => LogInv
  BY LogInit
<1>2. LogInv /\ [Next]_vars => LogInv'
  BY LogStep
<1>3. QED
  BY <1>1, <1>2, PTL DEF Spec

-----------------------------------------------------------------------------
(* The properties *)

\* The state of hub, member and network keeps its types, the history its capacity
\* max_messages_per_group, for any number of messages, restarts and faults.
THEOREM TypesKept == Spec => []TypeOK
<1>1. LogInv => TypeOK
  BY DEF LogInv
<1>2. QED
  BY <1>1, LogInvariant, PTL

\* The rows of hub_message_history have consecutive numbers, whatever number a
\* crash takes GroupHub::restore back to: rows are then overwritten, never skipped.
THEOREM TableHasNoHole == Spec => []TableIsContiguous
<1>1. LogInv => TableIsContiguous
  BY DEF LogInv, TypeOK, TableIsDense, TableIsContiguous
<1>2. QED
  BY <1>1, LogInvariant, PTL

\* Without a hub crash, save_hub_message has a row for every message that
\* handle_message has numbered, and no later message takes that row.
THEOREM NumberedIsStored == Spec => []TableIsComplete
<1>1. LogInv => TableIsComplete
  BY DEF LogInv, BelowNext, TableIsComplete
<1>2. QED
  BY <1>1, LogInvariant, PTL

\* Without a hub crash, the last_seq of a member stays below the hub's next_seq,
\* through restarts of the member from an old snapshot and repeated deliveries.
THEOREM MemberStaysBehind == Spec => []MemberNotAhead
<1>1. LogInv => MemberNotAhead
  BY DEF LogInv, BelowNext, MemberNotAhead
<1>2. QED
  BY <1>1, LogInvariant, PTL
=============================================================================
