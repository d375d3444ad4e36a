----------------------------- MODULE MCServices -----------------------------
(* Row locks, deliveries and the browser that prints: what goes on inside   *)
(* the server, with the fairness its scheduling gives, as parts of one      *)
(* suite (Parts).                                                           *)
EXTENDS Parts, Naturals, Sequences, FiniteSets, TLC

Three == {q1, q2, q3}
Paying == {"payReceipt", "restoreReceipt", "voidReceipt"}
Selling == {"updateInvoice", "createInvoice", "reverseInvoice"}
Undoing == {"reverseConversion", "reverseInvoice", "updateStatus"}

\* Two requests of receipts, whose locks may cross, on two connections.
Locks == INSTANCE BillingLocks WITH
  Branches <- {1}, Ids <- {1, 2}, Pool <- 2, Tries <- 3, Ops <- Paying
\* Three requests of invoices on two connections.
Crowd == INSTANCE BillingLocks WITH
  Requests <- Three, Branches <- {1}, Ids <- {1}, Pool <- 2, Tries <- 3, Ops <- Selling
\* Two requests of any handlers, for one row of each kind.
Order == INSTANCE BillingLocks WITH
  Branches <- {1}, Ids <- {1}, Pool <- 2, Tries <- 3, Ops <- Crowd!Handlers
\* Two requests that undo and cancel, one with two papers and one without the branch.
Chains == INSTANCE BillingLocks WITH
  Branches <- {1}, Ids <- {1, 2}, Pool <- 3, Tries <- 1, Ops <- Undoing
\* Two automatic deliveries to a party without email, on a server that runs on.
Settled == INSTANCE InvoiceDelivery WITH Nobody <- NoOne,
  invoice <- a, attempt <- b, outbox <- c,
  Invoices <- {x1, x2}, Attempts <- {y1, y2, y3, y4}, Channels <- {"EMAIL", "WHATSAPP"},
  TwoStep <- {"WHATSAPP"}, Reachable <- {"WHATSAPP"},
  Ops <- {"create", "cancel"}, Faults <- {"reject", "lose", "write"}
\* Automatic and asked-for deliveries of one invoice, with every fault.
Failing == INSTANCE InvoiceDelivery WITH Nobody <- NoOne,
  invoice <- a, attempt <- b, outbox <- c,
  Invoices <- {x1}, Attempts <- {y1, y2}, Channels <- {"EMAIL", "WHATSAPP"},
  TwoStep <- {"WHATSAPP"}, Reachable <- {"EMAIL", "WHATSAPP"},
  Ops <- {"create", "deliver"}, Faults <- {"reject", "lose", "write", "catch", "print", "stop"}
\* Two papers on browsers that crash, are missing and get installed.
Printing == INSTANCE PdfBrowser WITH
  promise <- a, browser <- b, late <- c, present <- d, stop <- e, crashes <- f,
  Browsers <- {x1, x2, x3}, Paths <- {"bundled", "chrome", "chromium"}, Configured <- NoOne,
  Bundled <- "bundled", Candidates <- <<"chrome", "chromium">>, MaxCrashes <- 2, Stops <- FALSE
\* The same on a server that is stopped meanwhile, with one place to look.
Stopping == INSTANCE PdfBrowser WITH
  promise <- a, browser <- b, late <- c, present <- d, stop <- e, crashes <- f,
  Browsers <- {x1, x2, x3}, Paths <- {"bundled"}, Configured <- NoOne,
  Bundled <- "bundled", Candidates <- <<>>, MaxCrashes <- 1, Stops <- TRUE

ASSUME BrowsersAssumption == Printing!CandidatesAssumption /\ Stopping!CandidatesAssumption
ASSUME RowsAssumption == Locks!LocksAssumption /\ Crowd!LocksAssumption /\ Order!LocksAssumption /\ Chains!LocksAssumption

OnlyLocks == a = Off /\ b = Off /\ c = Off /\ d = Off /\ e = Off /\ f = Off
OnlyMessages == lock = Off /\ d = Off /\ e = Off /\ f = Off
OnlyBrowsers == lock = Off

ServicesInit ==
  \/ part = "locks" /\ Locks!Init /\ OnlyLocks
  \/ part = "crowd" /\ Crowd!Init /\ OnlyLocks
  \/ part = "order" /\ Order!Init /\ OnlyLocks
  \/ part = "chains" /\ Chains!Init /\ OnlyLocks
  \/ part = "settled" /\ Settled!Init /\ OnlyMessages
  \/ part = "failing" /\ Failing!Init /\ OnlyMessages
  \/ part = "printing" /\ Printing!Init /\ OnlyBrowsers
  \/ part = "stopping" /\ Stopping!Init /\ OnlyBrowsers

OfLocks == UNCHANGED <<part, a, b, c, d, e, f>>
OfMessages == UNCHANGED <<part, lock, d, e, f>>
OfBrowsers == UNCHANGED <<part, lock>>

LocksStep == part = "locks" /\ Locks!Next /\ OfLocks
CrowdStep == part = "crowd" /\ Crowd!Next /\ OfLocks
OrderStep == part = "order" /\ Order!Next /\ OfLocks
ChainsStep == part = "chains" /\ Chains!Next /\ OfLocks
SettledStep == part = "settled" /\ Settled!Next /\ OfMessages
FailingStep == part = "failing" /\ Failing!Next /\ OfMessages
PrintingStep == part = "printing" /\ Printing!Next /\ OfBrowsers
StoppingStep == part = "stopping" /\ Stopping!Next /\ OfBrowsers

ServicesNext ==
  \/ LocksStep \/ CrowdStep \/ OrderStep \/ ChainsStep \/ SettledStep \/ FailingStep
  \/ PrintingStep \/ StoppingStep

\* The fairness of BillingLocks, InvoiceDelivery and PdfBrowser, each in its part.
Fairness ==
  /\ \A q \in Requests : WF_vars(part = "locks" /\ Locks!Progress(q) /\ OfLocks)
  /\ WF_vars(part = "locks" /\ (\E q \in Requests : Locks!BreakDeadlock(q)) /\ OfLocks)
  /\ \A q \in Three : WF_vars(part = "crowd" /\ Crowd!Progress(q) /\ OfLocks)
  /\ WF_vars(part = "crowd" /\ (\E q \in Three : Crowd!BreakDeadlock(q)) /\ OfLocks)
  /\ \A q \in Requests : WF_vars(part = "settled" /\ Settled!Work(q) /\ OfMessages)
  /\ \A q \in Requests :
       /\ WF_vars(part = "printing" /\ Printing!Render(q) /\ OfBrowsers)
       /\ WF_vars(part = "printing" /\ (Printing!OpenPage(q) \/ Printing!ClosePage(q)) /\ OfBrowsers)
  /\ \A x \in {x1, x2, x3} :
       WF_vars(/\ part = "printing"
               /\ Printing!Launched(x) \/ Printing!LaunchFails(x) \/ Printing!Disconnected(x)
               /\ OfBrowsers)
  /\ WF_vars(part = "printing" /\ Printing!Install /\ OfBrowsers)

ServicesSpec == ServicesInit /\ [][ServicesNext]_vars /\ Fairness

-----------------------------------------------------------------------------
\* Every request that arrives is answered, with its transaction saved or failed: deadlocks are
\* broken and repeated a bounded number of times, only the victim of a deadlock is repeated,
\* and nothing stays locked (IInv of BillingLocks).
RequestsEnd ==
  /\ <>[](part \in {"locks", "crowd"} => \A q \in DOMAIN pc : pc[q] \in {"idle", "saved", "failed"})
  /\ [][/\ part = "locks" => Locks!OnlyVictimsRestartStep
        /\ part = "crowd" => Crowd!OnlyVictimsRestartStep]_vars
  /\ [](part = "locks" => Locks!IInv)
  /\ [](part = "crowd" => Crowd!IInv)

\* Requests that wait in a circle include one of the three handlers that lock against the
\* common order, and what the others hold and will lock stays in it (BillingLocks).
LockedInOneOrder ==
  /\ part = "locks" => Locks!LockedInOneOrder
  /\ part = "crowd" => Crowd!LockedInOneOrder
  /\ part = "order" => Order!IInv /\ Order!LockedInOneOrder
  /\ part = "chains" => Chains!IInv /\ Chains!LockedInOneOrder

Tried(x, channel) == \E y \in {y1, y2, y3, y4} : b[y].invoice = x /\ b[y].channel = channel
\* No attempt is open, and every invoice that was tried on one channel was tried on all.
AllSettled ==
  /\ \A y \in {y1, y2, y3, y4} : b[y].status # "PENDING"
  /\ \A x \in {x1, x2} : Tried(x, "EMAIL") <=> Tried(x, "WHATSAPP")

\* Every attempt that is opened is settled as SENT or FAILED, and a delivery that was begun
\* makes an attempt on every channel, whatever becomes of the one before (InvoiceDelivery).
DeliveriesSettle == <>[](part = "settled" => AllSettled)

\* What is on record as SENT was accepted by a provider, and no attempt and no automatic
\* delivery of an invoice sends twice, whatever fails and whoever asks (InvoiceDelivery; with
\* all faults, its IInv).
MessagesAreSentOnce ==
  /\ part = "settled" => Settled!SentWasAccepted /\ Settled!AutomaticOnce
  /\ part = "failing" => Failing!IInv

\* Every paper that is asked for again is printed in the end, though browsers crash or are
\* missing; one browser runs at a time, and a server that stopped leaves none running that
\* it had launched before (PdfBrowser).
PapersArePrinted ==
  /\ <>[](part = "printing" => \A q \in Requests : pc[q] = "done")
  /\ [](part = "printing" => Printing!OneBrowser)
  /\ [](part = "stopping" => Stopping!OnlyLateBrowsersAreLeft)
=============================================================================
