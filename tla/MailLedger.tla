----------------------------- MODULE MailLedger -----------------------------
(***************************************************************************)
(* What the mail pipeline promises, seen from the ledger alone: the rows   *)
(* of mail_jobs and the messages the SMTP server accepted for each round.  *)
(* There are no workers, locks, queues or exports here.                    *)
(*                                                                         *)
(* A round is run by one run at most.  The row opens once, receives one    *)
(* verdict, keeps it, and the verdict is "succeeded" only after the server *)
(* accepted a message.  No round puts more than MaxSend messages on the    *)
(* wire, whatever is retried, redelivered or crashed underneath.           *)
(***************************************************************************)
EXTENDS Naturals

CONSTANTS Schedules, RunKeys, MaxSend

VARIABLES
    existing,   \* the schedules that can still open a round
    verdict,    \* verdict[j]: the status column of the row of round j
    messages    \* messages[j]: messages the SMTP server accepted for j

ledger == <<existing, verdict, messages>>

Round == Schedules \X RunKeys

Init ==
    /\ existing = Schedules
    /\ verdict = [j \in Round |-> "absent"]
    /\ messages = [j \in Round |-> 0]

\* A worker inserts the row of a round that has none.
Open(j) ==
    /\ j[1] \in existing
    /\ verdict[j] = "absent"
    /\ messages[j] = 0
    /\ verdict' = [verdict EXCEPT ![j] = "running"]
    /\ UNCHANGED <<existing, messages>>

\* The server accepts a message of the round.  A run whose schedule was
\* deleted under it may still finish the message it is sending.
Accept(j) ==
    /\ verdict[j] = "running" \/ j[1] \notin existing
    /\ messages[j] < MaxSend
    /\ messages' = [messages EXCEPT ![j] = @ + 1]
    /\ UNCHANGED <<existing, verdict>>

\* The run records its verdict.
Settle(j) ==
    /\ verdict[j] = "running"
    /\ \/ verdict' = [verdict EXCEPT ![j] = "failed"]
       \/ /\ messages[j] > 0
          /\ verdict' = [verdict EXCEPT ![j] = "succeeded"]
    /\ UNCHANGED <<existing, messages>>

\* Deleting a schedule deletes its rows; the messages stay sent.
Remove(s) ==
    /\ s \in existing
    /\ existing' = existing \ {s}
    /\ verdict' = [j \in Round |-> IF j[1] = s THEN "absent" ELSE verdict[j]]
    /\ UNCHANGED messages

Next ==
    \/ \E j \in Round : Open(j) \/ Accept(j) \/ Settle(j)
    \/ \E s \in Schedules : Remove(s)

Spec == Init /\ [][Next]_ledger

=============================================================================
