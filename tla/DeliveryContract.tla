-------------------------- MODULE DeliveryContract --------------------------
(***************************************************************************)
(* What the delivery of chat messages promises to its two users, without   *)
(* retries, caches, deadlines or a network: the sender's user sees a       *)
(* report on each message, the recipient's user gets the messages.         *)
(*                                                                         *)
(*   - Nothing is handed over that was not sent, and nothing twice while   *)
(*     the recipient runs.                                                 *)
(*   - A confirmation means that the message was handed over.              *)
(*   - Confirmed and failed are final: only a message that is waited for   *)
(*     is confirmed or given up.                                           *)
(*   - The sender may stop reporting on a message (it is too old, or there *)
(*     are too many), and a restart may take it back to waiting.           *)
(***************************************************************************)
EXTENDS Naturals

CONSTANT Msgs

VARIABLES
  sent,            \* the messages that were sent
  report,          \* what the sender's user sees of each message
  copies,          \* how often the running recipient has handed over each message
  got              \* the messages that were ever handed over

vars == <<sent, report, copies, got>>

Reports == {"none", "waiting", "confirmed", "failed"}

Init ==
  /\ sent = {}
  /\ report = [m \in Msgs |-> "none"]
  /\ copies = [m \in Msgs |-> 0]
  /\ got = {}

\* The report on each message becomes one of those allowed for it.
Reporting(allowed) ==
  /\ report' \in [Msgs -> Reports]
  /\ \A m \in Msgs : report'[m] \in allowed[m]

Send(m) ==
  /\ m \notin sent
  /\ sent' = sent \cup {m}
  /\ Reporting([x \in Msgs |-> IF x = m THEN {"waiting", "none"} ELSE {report[x], "none"}])
  /\ UNCHANGED <<copies, got>>

Confirm(m) ==
  /\ report[m] = "waiting"
  /\ m \in got
  /\ report' = [report EXCEPT ![m] = "confirmed"]
  /\ UNCHANGED <<sent, copies, got>>

GiveUp ==
  /\ Reporting([m \in Msgs |-> IF report[m] = "waiting" THEN {"waiting", "failed"}
                               ELSE {report[m]}])
  /\ UNCHANGED <<sent, copies, got>>

Forget ==
  /\ Reporting([m \in Msgs |-> {report[m], "none"}])
  /\ UNCHANGED <<sent, copies, got>>

SenderRestart ==
  /\ Reporting([m \in Msgs |-> IF m \in sent THEN {"waiting", "none"} ELSE {"none"}])
  /\ UNCHANGED <<sent, copies, got>>

HandOver(m) ==
  /\ m \in sent
  /\ copies[m] = 0
  /\ copies' = [copies EXCEPT ![m] = 1]
  /\ got' = got \cup {m}
  /\ UNCHANGED <<sent, report>>

RecipientRestart ==
  /\ copies' = [m \in Msgs |-> 0]
  /\ UNCHANGED <<sent, report, got>>

Next ==
  \/ \E m \in Msgs : Send(m) \/ Confirm(m) \/ HandOver(m)
  \/ GiveUp
  \/ Forget
  \/ SenderRestart
  \/ RecipientRestart

Spec == Init /\ [][Next]_vars
=============================================================================
