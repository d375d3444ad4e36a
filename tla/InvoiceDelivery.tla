--------------------------- MODULE InvoiceDelivery --------------------------
(***************************************************************************)
(* Sending invoices by email and WhatsApp (invoice-delivery.service.ts)    *)
(* and the automatic delivery that ends invoices create().                 *)
(*                                                                         *)
(* A delivery reads the invoice once, prints it, and then, channel by      *)
(* channel, writes a PENDING attempt, calls the provider and marks the     *)
(* attempt SENT or FAILED; none of this is in a transaction.  The provider *)
(* may accept a message and its answer may still be lost, any write may    *)
(* fail, and a server may stop between two steps.                          *)
(***************************************************************************)
EXTENDS Naturals, FiniteSets

CONSTANTS
  Requests,    \* requests served at the same time
  Invoices,    \* invoices, each the fruit of one requestId of its form
  Attempts,    \* ids of rows of invoice_deliveries
  Channels,    \* EMAIL and WHATSAPP
  TwoStep,     \* channels whose provider takes the file before the message
  Reachable,   \* channels the party has an address on, and has opted in to
  Nobody,      \* no invoice, no attempt, no channel
  Ops,         \* operations that are called
  Faults       \* what may go wrong: "reject", "lose", "write", "catch", "print", "stop"

VARIABLES
  invoice,     \* invoice[i]: "none", "draft", "issued" or "cancelled"
  attempt,     \* attempt[a]: [invoice, channel, status], rows of invoice_deliveries
  outbox,      \* messages a provider accepted: [attempt, invoice, channel, auto, cancelled]
  pc,          \* pc[q]: the step the request is at
  job          \* job[q]: [invoice, left, attempt, channel, auto]

vars == <<invoice, attempt, outbox, pc, job>>

Unused == [invoice |-> Nobody, channel |-> Nobody, status |-> "none"]
Idle == [invoice |-> Nobody, left |-> {}, attempt |-> Nobody, channel |-> Nobody, auto |-> FALSE]

Steps == {"idle", "deliver", "next", "upload", "send", "sent", "audit", "failed", "noted"}

TypeOK ==
  /\ invoice \in [Invoices -> {"none", "draft", "issued", "cancelled"}]
  /\ \A a \in Attempts : attempt[a].status \in {"none", "PENDING", "SENT", "FAILED"}
  /\ \A m \in outbox : attempt[m.attempt].invoice = m.invoice /\ attempt[m.attempt].channel = m.channel
  /\ pc \in [Requests -> Steps]

Init ==
  /\ invoice = [i \in Invoices |-> "none"]
  /\ attempt = [a \in Attempts |-> Unused]
  /\ outbox = {}
  /\ pc = [q \in Requests |-> "idle"]
  /\ job = [q \in Requests |-> Idle]

Goto(q, step) == pc' = [pc EXCEPT ![q] = step]
End(q) == Goto(q, "idle") /\ job' = [job EXCEPT ![q] = Idle]
Start(q, i, channels, auto) ==
  /\ Goto(q, "deliver")
  /\ job' = [job EXCEPT ![q] = [Idle EXCEPT !.invoice = i, !.left = channels, !.auto = auto]]

\* invoices create(): commits the invoice and, when the party's mode is automatic, goes on
\* to deliver it.  The same requestId again returns the invoice and delivers nothing.
Create(q, i, draft, automatic) ==
  /\ "create" \in Ops /\ pc[q] = "idle"
  /\ invoice[i] = "none"
  /\ invoice' = [invoice EXCEPT ![i] = IF draft THEN "draft" ELSE "issued"]
  /\ IF ~draft /\ automatic THEN Start(q, i, Channels, TRUE) ELSE UNCHANGED <<pc, job>>
  /\ UNCHANGED <<attempt, outbox>>

\* POST invoices/:id/deliver.
Deliver(q, i, channels) ==
  /\ "deliver" \in Ops /\ pc[q] = "idle"
  /\ Start(q, i, channels, FALSE)
  /\ UNCHANGED <<invoice, attempt, outbox>>

\* invoices cancel(), of an issued or a draft invoice.
Cancel(i) ==
  /\ "cancel" \in Ops
  /\ invoice[i] \in {"draft", "issued"}
  /\ invoice' = [invoice EXCEPT ![i] = "cancelled"]
  /\ UNCHANGED <<attempt, outbox, pc, job>>

-----------------------------------------------------------------------------
(* deliver().                                                              *)

\* The invoice is read and refused when it is missing or cancelled.
Read(q) ==
  /\ pc[q] = "deliver"
  /\ IF invoice[job[q].invoice] \in {"draft", "issued"} /\ job[q].left # {}
     THEN Goto(q, "next") /\ UNCHANGED job
     ELSE End(q)
  /\ UNCHANGED <<invoice, attempt, outbox>>

\* Its pdf cannot be made: the request fails, the invoice stays.
PrintFails(q) ==
  /\ "print" \in Faults /\ pc[q] = "deliver"
  /\ End(q)
  /\ UNCHANGED <<invoice, attempt, outbox>>

\* A new row: the database gives it an id of its own.
NewAttempt(q, c, status) ==
  LET free == {b \in Attempts : attempt[b].status = "none"}
      a == CHOOSE b \in free : TRUE
  IN
    /\ free # {}
    /\ attempt' = [attempt EXCEPT ![a] = [invoice |-> job[q].invoice, channel |-> c, status |-> status]]
    /\ job' = [job EXCEPT ![q].attempt = a, ![q].channel = c, ![q].left = @ \ {c}]

\* recordFailure(): no opt-in, or no address on the channel.
RecordFailure(q) ==
  /\ pc[q] = "next"
  /\ \E c \in job[q].left \ Reachable : NewAttempt(q, c, "FAILED")
  /\ UNCHANGED <<invoice, outbox, pc>>

\* The attempt is on record before the provider is called.
Open(q) ==
  /\ pc[q] = "next"
  /\ \E c \in job[q].left \cap Reachable :
       /\ NewAttempt(q, c, "PENDING")
       /\ Goto(q, IF c \in TwoStep THEN "upload" ELSE "send")
  /\ UNCHANGED <<invoice, outbox>>

\* All channels were served.
Finish(q) ==
  /\ pc[q] = "next" /\ job[q].left = {}
  /\ End(q)
  /\ UNCHANGED <<invoice, attempt, outbox>>

\* Mutant: the id of the uploaded file is taken for the id of a message.
FaultyUpload(q) ==
  /\ pc[q] = "upload"
  /\ Goto(q, "sent")
  /\ UNCHANGED <<invoice, attempt, outbox, job>>
\* sendWhatsApp(): the provider takes the file.
Upload(q) ==
  /\ pc[q] = "upload"
  /\ Goto(q, "send")
  /\ UNCHANGED <<invoice, attempt, outbox, job>>

\* Not configured, unreachable, or refused by the provider: the catch block follows.
Rejected(q) ==
  /\ "reject" \in Faults /\ pc[q] \in {"upload", "send"}
  /\ Goto(q, "failed")
  /\ UNCHANGED <<invoice, attempt, outbox, job>>

\* The provider accepts the message and answers with its id; or the answer is lost.
Send(q) ==
  /\ pc[q] = "send"
  /\ outbox' = outbox \cup {[attempt |-> job[q].attempt, invoice |-> job[q].invoice,
                             channel |-> job[q].channel, auto |-> job[q].auto,
                             cancelled |-> invoice[job[q].invoice] = "cancelled"]}
  /\ \/ Goto(q, "sent")
     \/ "lose" \in Faults /\ Goto(q, "failed")
  /\ UNCHANGED <<invoice, attempt, job>>

Mark(q, status) == attempt' = [attempt EXCEPT ![job[q].attempt].status = status]

\* The attempt is marked SENT.
MarkSent(q) ==
  /\ pc[q] = "sent"
  /\ Mark(q, "SENT")
  /\ Goto(q, "audit")
  /\ UNCHANGED <<invoice, outbox, job>>

\* The delivery is entered in the audit log, and the next channel is served.
Audit(q) ==
  /\ pc[q] = "audit"
  /\ Goto(q, "next")
  /\ UNCHANGED <<invoice, attempt, outbox, job>>

\* The update to SENT or the audit entry fails inside the try: the catch block follows.
WriteFails(q) ==
  /\ "write" \in Faults /\ pc[q] \in {"sent", "audit"}
  /\ Goto(q, "failed")
  /\ UNCHANGED <<invoice, attempt, outbox, job>>

\* Mutant: the catch block only goes on to the next channel.
FaultyMarkFailed(q) ==
  /\ pc[q] = "failed"
  /\ Goto(q, "next")
  /\ UNCHANGED <<invoice, attempt, outbox, job>>
\* The catch block marks the attempt FAILED.
MarkFailed(q) ==
  /\ pc[q] = "failed"
  /\ Mark(q, "FAILED")
  /\ Goto(q, "noted")
  /\ UNCHANGED <<invoice, outbox, job>>

\* The failure is entered in the audit log, and the next channel is served.
AuditFailure(q) ==
  /\ pc[q] = "noted"
  /\ Goto(q, "next")
  /\ UNCHANGED <<invoice, attempt, outbox, job>>

\* A write that no try surrounds fails, the row of an attempt, the update or the audit
\* entry of the catch block: the request ends, the channels that are left are skipped.
GiveUp(q) ==
  /\ "catch" \in Faults
  /\ pc[q] \in {"failed", "noted"} \/ (pc[q] = "next" /\ job[q].left # {})
  /\ End(q)
  /\ UNCHANGED <<invoice, attempt, outbox>>

\* The server stops: the request is gone.
Stop(q) ==
  /\ "stop" \in Faults /\ pc[q] # "idle"
  /\ End(q)
  /\ UNCHANGED <<invoice, attempt, outbox>>

Work(q) == Read(q) \/ RecordFailure(q) \/ Open(q) \/ Finish(q) \/ Upload(q) \/ Send(q)
             \/ MarkSent(q) \/ Audit(q) \/ MarkFailed(q) \/ AuditFailure(q)
Next ==
  \/ \E q \in Requests, i \in Invoices :
       \/ \E draft, automatic \in BOOLEAN : Create(q, i, draft, automatic)
       \/ \E channels \in (SUBSET Channels) \ {{}} : Deliver(q, i, channels)
  \/ \E i \in Invoices : Cancel(i)
  \/ \E q \in Requests : Work(q) \/ PrintFails(q) \/ Rejected(q) \/ WriteFails(q) \/ GiveUp(q) \/ Stop(q)

Spec == Init /\ [][Next]_vars
\* A server that was not stopped goes on with every delivery; providers answer.  (What
\* is tried and settled is claimed where writes fail only inside the try.)
FairSpec == Spec /\ \A q \in Requests : WF_vars(Work(q))

-----------------------------------------------------------------------------
(* Properties.                                                             *)

\* A message was accepted for every attempt that is on record as SENT.
SentWasAccepted ==
  \A a \in Attempts : attempt[a].status = "SENT" => \E m \in outbox : m.attempt = a

\* The party gets the automatic message of an invoice at most once on each channel, though
\* its form may be sent again, and one attempt never sends two messages.
AutomaticOnce ==
  \A m, n \in outbox :
    (m.auto /\ n.auto /\ m.invoice = n.invoice /\ m.channel = n.channel) \/ m.attempt = n.attempt => m = n

\* Every attempt that was opened is settled: SENT, or FAILED and shown as such.
AttemptsAreSettled ==
  \A a \in Attempts : attempt[a].status = "PENDING" ~> attempt[a].status \in {"SENT", "FAILED"}

\* A delivery that was begun makes an attempt on every channel, whatever
\* becomes of the channel before it.
EveryChannelIsTried ==
  \A q \in Requests, i \in Invoices, c \in Channels :
    pc[q] = "next" /\ job[q].invoice = i /\ c \in job[q].left
      ~> \E a \in Attempts : attempt[a].invoice = i /\ attempt[a].channel = c

\* "A cancelled invoice cannot be sent" (deliver()).
CancelledIsNotSent == \A m \in outbox : ~m.cancelled

\* "Delivery provider rejected the request": what is on record as FAILED went to nobody.
FailedWasNotSent == \A m \in outbox : attempt[m.attempt].status # "FAILED"

-----------------------------------------------------------------------------
(* The inductive invariant of InvoiceDelivery.  Nothing is locked: that no *)
(* message goes out twice rests on the row of an attempt being the         *)
(* request's own, and on one request at most delivering an invoice         *)
(* automatically, the one that created it.                                 *)

\* The steps at which a request has an attempt under way, those before the message is
\* accepted among them.
UnderWay == {"upload", "send", "sent", "audit", "failed"}
Unsent == {"upload", "send"}

Statuses == {"none", "PENDING", "SENT", "FAILED"}
AttemptRow == [invoice : Invoices \cup {Nobody}, channel : Channels \cup {Nobody}, status : Statuses]
Message == [attempt : Attempts, invoice : Invoices, channel : Channels, auto : BOOLEAN, cancelled : BOOLEAN]
JobRow == [invoice : Invoices \cup {Nobody}, left : SUBSET Channels, attempt : Attempts \cup {Nobody},
           channel : Channels \cup {Nobody}, auto : BOOLEAN]

RowsOK ==
  /\ TypeOK
  /\ attempt \in [Attempts -> AttemptRow]
  /\ outbox \subseteq Message
  /\ job \in [Requests -> JobRow]
  /\ \A q \in Requests : pc[q] # "idle" => job[q].invoice \in Invoices

-----------------------------------------------------------------------------
\* A request with an attempt under way is on record with it; the channel is served with it,
\* and has a message of this attempt when, and only when, the provider was asked to send it.
AttemptJob(q) ==
  pc[q] \in UnderWay =>
    /\ job[q].attempt \in Attempts /\ job[q].channel \in Channels \ job[q].left
    /\ attempt[job[q].attempt].status # "none"
    /\ attempt[job[q].attempt].invoice = job[q].invoice
    /\ attempt[job[q].attempt].channel = job[q].channel
    /\ pc[q] \in Unsent => \A m \in outbox : m.attempt # job[q].attempt
    /\ pc[q] = "sent" => \E m \in outbox : m.attempt = job[q].attempt

\* No two requests work on one attempt.
AttemptsApart ==
  \A q, r \in Requests :
    q # r /\ pc[q] \in UnderWay /\ pc[r] \in UnderWay => job[q].attempt # job[r].attempt

\* What is in the outbox has a row, and if it went automatically an invoice that exists.
MessagesAreOnRecord ==
  \A m \in outbox : /\ attempt[m.attempt].status # "none"
                    /\ m.auto => invoice[m.invoice] # "none"

\* The channels that an automatic delivery has still to serve had no automatic message yet.
AutomaticJob(q) ==
  job[q].auto =>
    /\ pc[q] # "idle"
    /\ invoice[job[q].invoice] # "none"
    /\ \A r \in Requests \ {q} : job[r].auto => job[r].invoice # job[q].invoice
    /\ \A m \in outbox :
         m.auto /\ m.invoice = job[q].invoice =>
           /\ m.channel \notin job[q].left
           /\ pc[q] \in Unsent => m.channel # job[q].channel

IInv ==
  /\ RowsOK
  /\ AttemptsApart
  /\ MessagesAreOnRecord
  /\ \A q \in Requests : AttemptJob(q) /\ AutomaticJob(q)
  /\ SentWasAccepted
  /\ AutomaticOnce
=============================================================================
