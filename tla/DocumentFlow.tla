---------------------------- MODULE DocumentFlow ----------------------------
(***************************************************************************)
(* Estimates, proformas, sales orders and delivery challans of one branch, *)
(* their conversions into each other and into sales invoices, and the      *)
(* goods that a challan or an invoice takes out (documents.service.ts).    *)
(*                                                                         *)
(* A Check step takes the row locks, reads, checks and keeps the planned   *)
(* writes; Commit makes them.  A request that is refused or is answered    *)
(* from what an earlier one did changes nothing and is no step.            *)
(* Abstracted: prices, parties, dates and numbers; a document has one line *)
(* of one item; a refusal of negative stock; payments of the invoices,     *)
(* whose rules only add refusals here (module Receivables); bills and      *)
(* notes (Payables, Receivables).                                          *)
(***************************************************************************)
EXTENDS Amounts, RowLocks

CONSTANTS
  Docs,       \* ids of documents
  Invoices,   \* ids of sales invoices
  MaxQty,     \* bound of a line's quantity
  Linked,     \* whether a client of create() may name a source document
  Ops         \* the handlers the clients call

\* Assumed of the constants.
DocumentFlowAssumption ==
  /\ NoOne \notin Docs \cup Invoices /\ IsFiniteSet(Docs) /\ IsFiniteSet(Invoices)
  /\ MaxQty \in Nat \ {0} /\ Linked \in BOOLEAN

VARIABLES
  doc,        \* doc[d]: the BusinessDocument row
  invoice,    \* invoice[i]: its status, and the quantity of its line
  out         \* the item's units that left the godown

vars == <<doc, invoice, out, lock, pc, job>>

Rows == {"branch"} \cup Docs \cup Invoices
Kinds == {"QUOTATION", "PROFORMA_INVOICE", "SALES_ORDER", "DELIVERY_CHALLAN"}
Asked == {"DRAFT", "ISSUED", "ACCEPTED", "REJECTED", "CANCELLED"}
Closed == {"CONVERTED", "CANCELLED", "REJECTED"}
PreSale == {"QUOTATION", "PROFORMA_INVOICE"}

Nothing == [x \in {} |-> NoOne]
One(x, value) == [y \in {x} |-> value]
Two(x, v, y, w) == [z \in {x, y} |-> IF z = x THEN v ELSE w]
Patched(row, patch) == [c \in DOMAIN row |-> IF c \in DOMAIN patch THEN patch[c] ELSE row[c]]
Written(table, rows) == [x \in DOMAIN table |-> IF x \in DOMAIN rows
                                                THEN Patched(table[x], rows[x]) ELSE table[x]]

NoDoc == [kind |-> "none", status |-> "none", deleted |-> FALSE, qty |-> 0,
          stockAdjusted |-> FALSE, source |-> NoOne, converted |-> NoOne]
NoInvoice == [status |-> "none", qty |-> 0]
NoJob == [doc |-> Nothing, invoice |-> Nothing, out |-> 0]

Live(d) == doc[d].status # "none" /\ ~doc[d].deleted
Fresh(d) == doc[d].status = "none"

\* The documents made from d that findFirst/count see.
MadeFrom(d) == {e \in Docs : Live(e) /\ doc[e].source = d}

\* movesStock() of a posted document, for the kinds of this module.
MovesStock(kind, status) == kind = "DELIVERY_CHALLAN" /\ status # "DRAFT"

\* The units of applyDocumentStock(): those of the new version out, those of the old one back.
Moved(adjusted, qty) == IF adjusted THEN qty ELSE 0

-----------------------------------------------------------------------------
(* The steps every handler shares                                           *)

Check(q, op, rows, docs, invoices, units) ==
  /\ op \in Ops /\ pc[q] = "idle" /\ \A r \in rows : CanLock(r)
  /\ pc' = [pc EXCEPT ![q] = "checked"]
  /\ job' = [job EXCEPT ![q] = [doc |-> docs, invoice |-> invoices, out |-> units]]
  /\ lock' = [r \in Rows |-> IF r \in rows THEN q ELSE lock[r]]
  /\ UNCHANGED <<doc, invoice, out>>

End(q) ==
  /\ pc[q] = "checked"
  /\ pc' = [pc EXCEPT ![q] = "idle"] /\ job' = [job EXCEPT ![q] = NoJob] /\ lock' = Released(q)

Commit(q) ==
  /\ End(q) /\ \A r \in DOMAIN job[q].doc : CanWrite(q, r)
  /\ doc' = Written(doc, job[q].doc) /\ invoice' = Written(invoice, job[q].invoice)
  /\ out' = out + job[q].out

\* A later statement fails, or the process stops.
Rollback(q) == End(q) /\ UNCHANGED <<doc, invoice, out>>

-----------------------------------------------------------------------------
(* Handlers                                                                 *)

\* The row create() inserts.
NewDoc(kind, status, qty, source) ==
  [NoDoc EXCEPT !.kind = kind, !.status = status, !.qty = qty, !.source = source,
                !.stockAdjusted = MovesStock(kind, status)]

Create(q, d, kind, status, qty, source) ==
  LET row == NewDoc(kind, status, qty, source) IN
  /\ Fresh(d) /\ (source # NoOne => Linked /\ Live(source))
  /\ Check(q, "create", {"branch"}, One(d, row), Nothing, Moved(row.stockAdjusted, qty))

Update(q, d, asked, qty) ==
  LET row == doc[d]
      status == IF row.status = "DRAFT" THEN asked ELSE row.status
      adjusted == MovesStock(row.kind, status) IN
  /\ Live(d) /\ row.status \in {"DRAFT", "ISSUED", "ACCEPTED"}
  /\ row.status # "DRAFT" => asked # "DRAFT"
  /\ \A e \in MadeFrom(d) : doc[e].status \in {"DRAFT", "CANCELLED", "REJECTED"}
  /\ Check(q, "update", {"branch", d},
           One(d, [status |-> status, qty |-> qty, stockAdjusted |-> adjusted]), Nothing,
           Moved(adjusted, qty) - Moved(row.stockAdjusted, row.qty))

UpdateStatus(q, d, asked) ==
  LET row == doc[d]
      posting == asked \in {"ISSUED", "ACCEPTED"}
      adjusted == \/ row.stockAdjusted /\ asked # "CANCELLED"
                  \/ row.kind = "DELIVERY_CHALLAN" /\ posting IN
  /\ Live(d) /\ row.status # asked
  /\ row.status # "DRAFT" => asked # "DRAFT"
  /\ row.status \notin {"CONVERTED", "CANCELLED"}
  /\ asked = "REJECTED" => row.status = "DRAFT" \/ row.kind \in PreSale
  /\ Check(q, "status", {d}, One(d, [status |-> asked, stockAdjusted |-> adjusted]), Nothing,
           Moved(adjusted, row.qty) - Moved(row.stockAdjusted, row.qty))

\* A faulty ConvertToInvoice: the invoice moves the goods of the challan again.
FaultyConvertToInvoice(q, d, i) ==
  /\ Live(d) /\ doc[d].converted = NoOne /\ doc[d].status \notin Closed
  /\ invoice[i].status = "none"
  /\ Check(q, "invoice", {"branch", d}, One(d, [status |-> "CONVERTED", converted |-> i]),
           One(i, [status |-> "UNPAID", qty |-> doc[d].qty]), doc[d].qty)

\* invoices.create() takes document.stockAdjusted: goods that a challan moved stay moved.
ConvertToInvoice(q, d, i) ==
  /\ Live(d) /\ doc[d].converted = NoOne /\ doc[d].status \notin Closed
  /\ invoice[i].status = "none"
  /\ Check(q, "invoice", {"branch", d}, One(d, [status |-> "CONVERTED", converted |-> i]),
           One(i, [status |-> "UNPAID", qty |-> doc[d].qty]),
           Moved(~doc[d].stockAdjusted, doc[d].qty))

\* The conversions into a document: convertToOrderOrChallan(), convertToProforma()
\* and convertToEstimate().
Conversions ==
  {<<"QUOTATION", "SALES_ORDER">>, <<"SALES_ORDER", "DELIVERY_CHALLAN">>,
   <<"QUOTATION", "PROFORMA_INVOICE">>, <<"PROFORMA_INVOICE", "QUOTATION">>}

\* A faulty Convert: repeats a conversion instead of returning its result.
FaultyConvert(q, d, target, e) ==
  /\ Live(d) /\ <<doc[d].kind, target>> \in Conversions
  /\ doc[d].status \notin {"CANCELLED", "REJECTED"} /\ Fresh(e)
  /\ Check(q, "convert", {"branch", d},
           Two(d, [status |-> "CONVERTED"], e, NewDoc(target, "DRAFT", doc[d].qty, d)), Nothing, 0)

Convert(q, d, target, e) ==
  /\ Live(d) /\ <<doc[d].kind, target>> \in Conversions
  /\ doc[d].status \notin Closed /\ Fresh(e)
  /\ Check(q, "convert", {"branch", d},
           Two(d, [status |-> "CONVERTED"], e, NewDoc(target, "DRAFT", doc[d].qty, d)), Nothing, 0)

\* reverseInvoice() gives back the goods of an invoice that was not cancelled.
ReversedUnits(i) == IF invoice[i].status = "UNPAID" THEN invoice[i].qty ELSE 0

Reopened == [status |-> "DRAFT", converted |-> NoOne]

\* reverseConversion() of an invoice.
ReverseInvoice(q, d) ==
  LET i == doc[d].converted IN
  /\ Live(d) /\ doc[d].kind \in PreSale /\ doc[d].status = "CONVERTED" /\ i # NoOne
  /\ invoice[i].status \in {"UNPAID", "CANCELLED"}
  /\ Check(q, "reverse", {"branch", d, i}, One(d, Reopened),
           One(i, [status |-> "removed"]), -ReversedUnits(i))

\* reverseConversion() of a document: unless it was converted itself.
ReverseDocument(q, d, e) ==
  /\ Live(d) /\ doc[d].kind \in PreSale /\ doc[d].status = "CONVERTED" /\ doc[d].converted = NoOne
  /\ e \in MadeFrom(d) /\ doc[e].kind \in PreSale \cup {"SALES_ORDER"}
  /\ doc[e].status # "CONVERTED" /\ doc[e].converted = NoOne
  /\ \A f \in MadeFrom(e) : doc[f].status = "CANCELLED"
  /\ ~doc[e].stockAdjusted
  /\ Check(q, "reverse", {"branch", d, e},
           Two(d, Reopened, e, [status |-> "CANCELLED", deleted |-> TRUE]), Nothing, 0)

\* remove(): the status is read without a lock.
Remove(q, d) ==
  /\ Live(d) /\ doc[d].status \in {"DRAFT", "CANCELLED"}
  /\ Check(q, "remove", {}, One(d, [deleted |-> TRUE]), Nothing, 0)

\* invoices.cancel() and remove() know nothing of the document the invoice was made from.
CloseInvoice(q, i, status) ==
  /\ invoice[i].status \in {"UNPAID", "CANCELLED"}
  /\ Check(q, "close", {i}, Nothing, One(i, [status |-> status]), -ReversedUnits(i))

-----------------------------------------------------------------------------
Init ==
  /\ doc = [d \in Docs |-> NoDoc]
  /\ invoice = [i \in Invoices |-> NoInvoice]
  /\ out = 0
  /\ lock = [r \in Rows |-> NoOne]
  /\ pc = [q \in Requests |-> "idle"]
  /\ job = [q \in Requests |-> NoJob]

Next == \E q \in Requests :
  \/ Commit(q) \/ Rollback(q)
  \/ \E d \in Docs, kind \in Kinds, status \in {"DRAFT", "ISSUED"}, qty \in 1 .. MaxQty,
        source \in Docs \cup {NoOne} : Create(q, d, kind, status, qty, source)
  \/ \E d \in Docs, asked \in {"DRAFT", "ISSUED"}, qty \in 1 .. MaxQty : Update(q, d, asked, qty)
  \/ \E d \in Docs, asked \in Asked : UpdateStatus(q, d, asked)
  \/ \E d \in Docs, i \in Invoices : ConvertToInvoice(q, d, i)
  \/ \E d, e \in Docs, target \in Kinds : Convert(q, d, target, e)
  \/ \E d \in Docs : ReverseInvoice(q, d)
  \/ \E d, e \in Docs : ReverseDocument(q, d, e)
  \/ \E d \in Docs : Remove(q, d)
  \/ \E i \in Invoices, status \in {"CANCELLED", "removed"} : CloseInvoice(q, i, status)

Spec == Init /\ [][Next]_vars

-----------------------------------------------------------------------------
(* Properties                                                               *)

DocRow == [kind : Kinds \cup {"none"}, status : Asked \cup {"none", "CONVERTED"},
           deleted : BOOLEAN, qty : 0 .. MaxQty, stockAdjusted : BOOLEAN,
           source : Docs \cup {NoOne}, converted : Invoices \cup {NoOne}]
InvoiceRow == [status : {"none", "UNPAID", "CANCELLED", "removed"}, qty : 0 .. MaxQty]

TypeOK ==
  /\ doc \in [Docs -> DocRow]
  /\ invoice \in [Invoices -> InvoiceRow]
  /\ out \in Int
  /\ lock \in [Rows -> Requests \cup {NoOne}]

LiveInvoices(d) == {i \in Invoices \cap {doc[d].converted} : invoice[i].status = "UNPAID"}
Papers(d) == {e \in MadeFrom(d) : doc[e].status # "CANCELLED"} \cup LiveInvoices(d)

\* A document is converted once: whatever it is converted into, undone and converted
\* again, at most one paper made from it is in force, and then it is CONVERTED.
OnePaperPerSource ==
  \A d \in Docs : /\ Cardinality(Papers(d)) <= 1
                  /\ Papers(d) # {} => doc[d].status = "CONVERTED"

\* A document in force was not made from a deleted one: conversions are undone from
\* the end of the chain.
LaterConversionsFirst ==
  \A d \in Docs : Live(d) /\ doc[d].status # "CANCELLED" /\ doc[d].source # NoOne
                => Live(doc[d].source)

\* What the conversions promise together.
ConversionsAreExact == OnePaperPerSource /\ LaterConversionsFirst

\* The units that left are those of the challans in force and of the sales; a challan
\* that became a sale is counted once, as the sale.
ShippedUnits(d) ==
  Moved(Live(d) /\ doc[d].status # "CONVERTED" /\ doc[d].stockAdjusted, doc[d].qty)
OutByPapers == SumOf(Docs, [d \in Docs |-> ShippedUnits(d)])
               + SumOf(Invoices, [i \in Invoices |-> ReversedUnits(i)])

GoodsLeaveOnce == out = OutByPapers

\* "Issue a cancellation before deleting a financial document".
DeletedWereNotInForce ==
  \A d \in Docs : doc[d].deleted => doc[d].status \in {"DRAFT", "CANCELLED"}

-----------------------------------------------------------------------------
(* The inductive invariant of DocumentFlow: what a request that has checked  *)
(* may rely on until it commits.  The row it is about to change is locked,   *)
(* and who holds the branch is alone in making documents and invoices.  Only *)
(* remove() relies on what it has not locked.                                *)

\* Nobody removes a document while another request is under way.
RemovesAlone == "remove" \notin Ops \/ \A q, r \in Requests : q = r
\* Clients do not link documents to a source that goes away.
LinksLast == RemovesAlone /\ (Linked => "remove" \notin Ops)

\* Only a challan in force has moved goods, only a converted document has an invoice, and
\* what was not created has nothing and nothing was made from it.
DocOK(d) ==
  /\ Fresh(d) => doc[d] = NoDoc
  /\ doc[d].stockAdjusted =>
       doc[d].kind = "DELIVERY_CHALLAN" /\ doc[d].status \notin {"DRAFT", "CANCELLED"}
  /\ doc[d].converted # NoOne =>
       doc[d].status = "CONVERTED" /\ invoice[doc[d].converted].status # "none"
  /\ doc[d].source # NoOne => ~Fresh(doc[d].source)

\* A document has been made into one other or into an invoice, and is CONVERTED meanwhile.
MadeOnce ==
  \A e \in Docs : Live(e) /\ doc[e].source # NoOne =>
    /\ doc[doc[e].source].status = "CONVERTED" /\ doc[doc[e].source].converted = NoOne
    /\ \A f \in MadeFrom(doc[e].source) : f = e

RowsOK == TypeOK /\ pc \in [Requests -> {"idle", "checked"}] /\ DOMAIN job = Requests

-----------------------------------------------------------------------------
(* The requests that have checked, by what they are going to write.          *)

Planned(q, docs, invoices, units) ==
  job[q] = [doc |-> docs, invoice |-> invoices, out |-> units]

CreateJob(q) ==
  lock["branch"] = q /\ \E d \in Docs :
    Fresh(d) /\ \E kind \in Kinds, status \in {"DRAFT", "ISSUED"}, qty \in 1 .. MaxQty,
                   source \in Docs \cup {NoOne} :
    LET row == NewDoc(kind, status, qty, source) IN
    /\ source # NoOne => Linked /\ ~Fresh(source) /\ (RemovesAlone => Live(source))
    /\ Planned(q, One(d, row), Nothing, Moved(row.stockAdjusted, qty))

\* update() and updateStatus().
EditJob(q) ==
  \E d \in Docs :
    /\ lock[d] = q /\ Live(d) /\ doc[d].status \notin {"CONVERTED", "CANCELLED"}
    /\ \E status \in Asked, adjusted \in BOOLEAN, qty \in 0 .. MaxQty :
         /\ adjusted => doc[d].kind = "DELIVERY_CHALLAN" /\ status \notin {"DRAFT", "CANCELLED"}
         /\ \/ job[q].doc = One(d, [status |-> status, qty |-> qty, stockAdjusted |-> adjusted])
            \/ /\ job[q].doc = One(d, [status |-> status, stockAdjusted |-> adjusted])
               /\ qty = doc[d].qty
         /\ Planned(q, job[q].doc, Nothing,
                    Moved(adjusted, qty) - Moved(doc[d].stockAdjusted, doc[d].qty))

InvoiceJob(q) ==
  \E d \in Docs, i \in Invoices :
    /\ lock["branch"] = q /\ lock[d] = q /\ Live(d) /\ doc[d].status \notin Closed
    /\ invoice[i].status = "none"
    /\ Planned(q, One(d, [status |-> "CONVERTED", converted |-> i]),
               One(i, [status |-> "UNPAID", qty |-> doc[d].qty]),
               Moved(~doc[d].stockAdjusted, doc[d].qty))

ConvertJob(q) ==
  \E d, e \in Docs, target \in Kinds :
    /\ lock["branch"] = q /\ lock[d] = q /\ Live(d) /\ doc[d].status \notin Closed
    /\ <<doc[d].kind, target>> \in Conversions /\ Fresh(e)
    /\ Planned(q, Two(d, [status |-> "CONVERTED"], e, NewDoc(target, "DRAFT", doc[d].qty, d)),
               Nothing, 0)

ReverseInvoiceJob(q) ==
  \E d \in Docs :
    LET i == doc[d].converted IN
    /\ lock["branch"] = q /\ lock[d] = q /\ i # NoOne /\ lock[i] = q
    /\ Live(d) /\ doc[d].kind \in PreSale /\ doc[d].status = "CONVERTED"
    /\ Planned(q, One(d, Reopened), One(i, [status |-> "removed"]), -ReversedUnits(i))

ReverseDocumentJob(q) ==
  \E d, e \in Docs :
    /\ lock["branch"] = q /\ lock[d] = q /\ lock[e] = q
    /\ Live(d) /\ doc[d].kind \in PreSale /\ doc[d].status = "CONVERTED" /\ doc[d].converted = NoOne
    /\ Live(e) /\ doc[e].source = d /\ doc[e].converted = NoOne /\ ~doc[e].stockAdjusted
    /\ doc[e].status # "CONVERTED"
    /\ \A f \in MadeFrom(e) : doc[f].status = "CANCELLED"
    /\ Planned(q, Two(d, Reopened, e, [status |-> "CANCELLED", deleted |-> TRUE]), Nothing, 0)

RemoveJob(q) ==
  \E d \in Docs :
    /\ "remove" \in Ops /\ ~Fresh(d)
    /\ RemovesAlone => Live(d) /\ doc[d].status \in {"DRAFT", "CANCELLED"}
    /\ Planned(q, One(d, [deleted |-> TRUE]), Nothing, 0)

CloseJob(q) ==
  \E i \in Invoices, status \in {"CANCELLED", "removed"} :
    /\ lock[i] = q /\ invoice[i].status \in {"UNPAID", "CANCELLED"}
    /\ Planned(q, Nothing, One(i, [status |-> status]), -ReversedUnits(i))

CheckedJob(q) ==
  pc[q] = "checked" =>
    \/ CreateJob(q) \/ EditJob(q) \/ InvoiceJob(q) \/ ConvertJob(q)
    \/ ReverseInvoiceJob(q) \/ ReverseDocumentJob(q) \/ RemoveJob(q) \/ CloseJob(q)

IInv ==
  /\ RowsOK
  /\ \A d \in Docs : DocOK(d)
  /\ ~Linked => MadeOnce
  /\ RemovesAlone => GoodsLeaveOnce /\ DeletedWereNotInForce
  /\ LinksLast => LaterConversionsFirst
  /\ \A q \in Requests : CheckedJob(q)
=============================================================================
