------------------------- MODULE DeliveryOnceProofs -------------------------
(***************************************************************************)
(* The recipient's application gets a message at most once per boot: the   *)
(* invariant IInv of DeliveryProofs, and what the nonce cache remembers.   *)
(***************************************************************************)
EXTENDS DeliveryProofs, FiniteSetTheorems

\* While the nonce cache can hold every message it has no duplicates, and it
\* knows every message delivered since the boot.
NoncesRemembered ==
  Encrypted /\ Cardinality(Msgs) <= NonceCap =>
    /\ IsInjective(nonceCache)
    /\ \A m \in Msgs : delivered[m] > 0 => m \in Range(nonceCache)
-----------------------------------------------------------------------------
\* A nonce cache that can hold every message is never full when a new one comes.
LEMMA NonceCacheHasRoom ==
  ASSUME TypeOK, Cardinality(Msgs) <= NonceCap, IsInjective(nonceCache),
         NEW m \in Msgs, m \notin Range(nonceCache)
  PROVE  Len(nonceCache) < NonceCap
<1> DEFINE n == Len(nonceCache)
<1>1. n \in Nat /\ DOMAIN nonceCache = 1..n /\ nonceCache \in [1..n -> Msgs]
  BY DEF TypeOK
<1>2. nonceCache \in [1..n -> Msgs \ {m}]
  BY SMTT(30), <1>1 DEF Range
<1>3. nonceCache \in Injection(1..n, Msgs \ {m})
  BY SMTT(30), <1>2 DEF Injection
<1>4. IsFiniteSet(Msgs) /\ Cardinality(Msgs) \in Nat
  BY SMTT(30), NodesAssumption, FS_CardinalityType
<1>5. IsFiniteSet(Msgs \ {m}) /\ Cardinality(Msgs \ {m}) = Cardinality(Msgs) - 1
  BY ZenonT(30), <1>4, FS_RemoveElement
<1>6. Cardinality(1..n) <= Cardinality(Msgs \ {m})
  BY <1>3, <1>5, FS_Injection
<1>7. Cardinality(1..n) = n
  BY SMTT(30), <1>1, FS_Interval
<1>8. QED
  BY SMTT(30), <1>1, <1>4, <1>5, <1>6, <1>7, BudgetAssumption

\* The nonce cache remembers every delivery while it cannot overflow.
LEMMA NoncesStep ==
  ASSUME TypeOK, NoncesRemembered, [Next]_vars
  PROVE  NoncesRemembered'
<1> SUFFICES ASSUME Encrypted, Cardinality(Msgs) <= NonceCap
             PROVE  /\ IsInjective(nonceCache')
                    /\ \A m \in Msgs : delivered'[m] > 0 => m \in Range(nonceCache')
  BY DEF NoncesRemembered
<1> USE DEF senderVars, recipientVars
<1>0. /\ IsInjective(nonceCache)
      /\ \A m \in Msgs : delivered[m] > 0 => m \in Range(nonceCache)
  BY DEF NoncesRemembered
<1>1. CASE UNCHANGED <<nonceCache, delivered>>
  BY SMTT(30), <1>0, <1>1
<1>2. ASSUME NEW e \in net, RecvChat(e), ~IsDuplicate(e.msg)
      PROVE  /\ IsInjective(nonceCache')
             /\ \A m \in Msgs : delivered'[m] > 0 => m \in Range(nonceCache')
  <2>1. e.msg \in Msgs
    BY DEF TypeOK, Envelope
  <2>2. e.msg \notin Range(nonceCache)
    BY SMTT(30), <1>2 DEF IsDuplicate
  <2>3. Len(nonceCache) < NonceCap
    BY SMTT(30), <1>0, <2>1, <2>2, NonceCacheHasRoom
  <2>4. nonceCache' = Append(nonceCache, e.msg)
    BY SMTT(30), <1>2, <2>1, <2>3, PushNonceType DEF RecvChat
  <2>5. nonceCache \in Seq(Msgs)
    BY DEF TypeOK
  <2>6. /\ Len(nonceCache) \in Nat
        /\ DOMAIN nonceCache = 1..Len(nonceCache)
        /\ DOMAIN nonceCache' = 1..Len(nonceCache) + 1
        /\ \A i \in 1..Len(nonceCache) : nonceCache'[i] = nonceCache[i]
        /\ nonceCache'[Len(nonceCache) + 1] = e.msg
    BY SMTT(30), <2>1, <2>4, <2>5
  <2>7. Range(nonceCache') = Range(nonceCache) \cup {e.msg}
    BY SMTT(30), <2>6 DEF Range
  <2>8. IsInjective(nonceCache')
    <3>1. \A i, j \in 1..Len(nonceCache) : nonceCache[i] = nonceCache[j] => i = j
      BY SMTT(30), <1>0, <2>6 DEF IsInjective
    <3>2. \A i \in 1..Len(nonceCache) : nonceCache[i] # e.msg
      BY SMTT(30), <2>2, <2>6 DEF Range
    <3>3. QED
      BY SMTT(30), <2>6, <3>1, <3>2 DEF IsInjective
  <2>9. \A m \in Msgs : m # e.msg => delivered'[m] = delivered[m]
    BY SMTT(30), <1>2 DEF RecvChat, TypeOK
  <2>10. QED
    BY SMTT(30), <1>0, <2>7, <2>8, <2>9
<1>3. CASE RecipientRestart
  BY SMTT(30), <1>3 DEF RecipientRestart, IsInjective
<1>4. QED
  BY ZenonT(30), <1>1, <1>2, <1>3 DEF Next, vars, Send, Forward, RecvChat, RecvAtSender, Lose, SendReadReceipt,
     DeliveryDeadlines, TrackerCleanup, SenderCacheCleanup, RecipientCacheCleanup, SaveState,
     SenderRestart, Tick

\* A message is handed over a second time only if neither cache knows it.
LEMMA AtMostOnceStep ==
  ASSUME TypeOK, DedupOutlivesRetries, NoncesRemembered, AtMostOnce, [Next]_vars
  PROVE  AtMostOnce'
<1> SUFFICES ASSUME Timely \/ (Encrypted /\ Cardinality(Msgs) <= NonceCap), NEW m \in Msgs
             PROVE  delivered'[m] <= 1
  BY SMTT(30) DEF AtMostOnce
<1> USE DEF senderVars, recipientVars
<1>0. delivered[m] <= 1 /\ delivered[m] \in 0..2
  BY DEF AtMostOnce, TypeOK, MaxCount
<1>1. ASSUME NEW e \in net, RecvChat(e), ~IsDuplicate(e.msg) PROVE delivered'[m] <= 1
  <2>1. e.msg \in Msgs /\ ChatInFlight(e.msg)
    BY SMTT(30), <1>1 DEF TypeOK, Envelope, ChatInFlight, RecvChat
  <2>2. ~(delivered[e.msg] > 0)
    BY SMTT(30), <1>1, <2>1 DEF IsDuplicate, DedupOutlivesRetries, NoncesRemembered
  <2>3. delivered[e.msg] = 0
    <3>1. delivered[e.msg] \in 0..2
      BY SMTT(30), <2>1 DEF TypeOK, MaxCount
    <3>2. \A k \in 0..2 : ~(k > 0) => k = 0
      OBVIOUS
    <3>3. QED
      BY SMTT(30), <2>2, <3>1, <3>2
  <2>4. delivered' = delivered \/ delivered' = [delivered EXCEPT ![e.msg] = 1]
    <3>1. \/ delivered' = delivered
          \/ delivered' = [delivered EXCEPT ![e.msg] = IF @ < MaxCount THEN @ + 1 ELSE @]
      BY ZenonT(30), <1>1 DEF RecvChat
    <3>2. QED
      BY SMTT(30), <2>3, <3>1 DEF MaxCount
  <2>5. delivered'[m] = delivered[m] \/ delivered'[m] = 1
    BY SMTT(30), <2>1, <2>4 DEF TypeOK
  <2>6. QED
    BY SMTT(30), <1>0, <2>5
<1>2. CASE RecipientRestart
  BY SMTT(30), <1>2 DEF RecipientRestart
<1>3. CASE UNCHANGED delivered
  BY SMTT(30), <1>0, <1>3
<1>4. QED
  BY ZenonT(30), <1>1, <1>2, <1>3 DEF Next, vars, Send, Forward, RecvChat, RecvAtSender, Lose, SendReadReceipt,
     DeliveryDeadlines, TrackerCleanup, SenderCacheCleanup, RecipientCacheCleanup, SaveState,
     SenderRestart, Tick
-----------------------------------------------------------------------------
(* The theorem *)

\* The nonce cache and the histories keep the invariant that at-most-once needs.
OnceInv == IInv /\ NoncesRemembered /\ AtMostOnce

\* Nothing has been delivered at the start, and every step preserves OnceInv.
LEMMA OnceInvariance == Spec => []OnceInv
<1>1. Init => OnceInv
  BY SMTT(30), InitIInv DEF Init, OnceInv, NoncesRemembered, AtMostOnce, IsInjective
<1>2. OnceInv /\ [Next]_vars => OnceInv'
  <2> SUFFICES ASSUME OnceInv, [Next]_vars PROVE OnceInv'
    OBVIOUS
  <2>1. IInv'
    BY SMTT(30), NextIInv DEF OnceInv
  <2>2. NoncesRemembered' /\ AtMostOnce'
    BY SMTT(30), NoncesStep, AtMostOnceStep DEF OnceInv, IInv
  <2>3. QED
    BY SMTT(30), <2>1, <2>2 DEF OnceInv
<1>3. QED
  BY <1>1, <1>2, PTL DEF Spec

\* The application of the recipient gets a message at most once per boot, under
\* the assumption that the dedup window outlasts all the retries.
THEOREM DeliveredAtMostOnce == Spec => []AtMostOnce
<1>1. OnceInv => AtMostOnce
  BY DEF OnceInv
<1>2. QED
  BY <1>1, OnceInvariance, PTL
=============================================================================
