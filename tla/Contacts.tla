------------------------------ MODULE Contacts ------------------------------
(***************************************************************************)
(* Editing and removing customers and suppliers (parties.service.ts,       *)
(* suppliers.service.ts) while papers are written about them.              *)
(*                                                                         *)
(* Nothing here is locked: an edit reads the contact and then writes, a    *)
(* removal reads it, counts its papers and then marks it deleted, and a    *)
(* paper reads its contact before the transaction that writes it.          *)
(* Abstracted: a GSTIN is there, in one of a few values, or not; of the    *)
(* GST types one uses a GSTIN and one does not; the other fields are left  *)
(* out.  Papers removed softly still count and stay.                       *)
(***************************************************************************)
EXTENDS Naturals

CONSTANTS
  Requests, Parties, Suppliers, Papers,
  Gstins,       \* GSTINs a form may carry
  NoOne         \* no contact, and no GSTIN

\* Assumed of the constants.
ContactsAssumption ==
  NoOne \notin Parties \cup Suppliers \cup Papers \cup Gstins /\ Parties \cap Suppliers = {}

VARIABLES
  contact,      \* contact[c]: [gstType, gstin, deleted], of a party or a supplier
  paper,        \* paper[p]: [of |-> its contact, kind]
  pc,           \* pc[q]: "idle", "read" or "counted"
  job,          \* job[q]: what request q was sent and what it has read
  crossed       \* the papers that were written past a removal of their contact

vars == <<contact, paper, pc, job, crossed>>

Contact == Parties \cup Suppliers
GstTypes == {"REGISTERED_REGULAR", "UNREGISTERED"}
UsesGstin(type) == type = "REGISTERED_REGULAR"
\* The papers _count adds up, by what they are written about.
Counted(c) == IF c \in Parties THEN {"invoice", "document", "production"}
                               ELSE {"document", "purchase order", "production", "cost"}

NoPaper == [of |-> NoOne, kind |-> "none"]
Idle == [op |-> "none", of |-> NoOne, paper |-> NoOne, kind |-> "none", type |-> "none", gstin |-> NoOne,
         seen |-> [gstType |-> "none", gstin |-> NoOne, deleted |-> FALSE]]

Init ==
  /\ contact \in [Contact -> [gstType : {"UNREGISTERED"}, gstin : {NoOne}, deleted : {FALSE}]]
  /\ paper = [p \in Papers |-> NoPaper]
  /\ pc = [q \in Requests |-> "idle"]
  /\ job = [q \in Requests |-> Idle]
  /\ crossed = {}

\* What every request about a contact begins with: findOne(), or a paper's own look.
FindOne(q, c, sent) ==
  /\ pc[q] = "idle" /\ ~contact[c].deleted
  /\ pc' = [pc EXCEPT ![q] = "read"]
  /\ job' = [job EXCEPT ![q] = [sent EXCEPT !.of = c, !.seen = contact[c]]]
  /\ UNCHANGED <<contact, paper, crossed>>

Done(q) == pc' = [pc EXCEPT ![q] = "idle"] /\ job' = [job EXCEPT ![q] = Idle]

-----------------------------------------------------------------------------
(* Editing.                                                                *)

Update(q, c, type, gstin) == FindOne(q, c, [Idle EXCEPT !.op = "update", !.type = type, !.gstin = gstin])

\* A field that was not sent stays.  Whether the party may have a GSTIN goes by the type
\* that was sent or, when none was, the type that was read.
WriteParty(q) ==
  LET c == job[q].of
      goesBy == IF job[q].type = "none" THEN job[q].seen.gstType ELSE job[q].type
      type == IF job[q].type = "none" THEN contact[c].gstType ELSE job[q].type
      kept == IF job[q].gstin # NoOne THEN job[q].gstin ELSE contact[c].gstin
  IN
    /\ pc[q] = "read" /\ job[q].op = "update" /\ c \in Parties
    /\ contact' = [contact EXCEPT ![c].gstType = type, ![c].gstin = IF UsesGstin(goesBy) THEN kept ELSE NoOne]
    /\ Done(q) /\ UNCHANGED <<paper, crossed>>

\* A supplier's GSTIN can be replaced and never cleared.
WriteSupplier(q) ==
  /\ pc[q] = "read" /\ job[q].op = "update" /\ job[q].of \in Suppliers
  /\ contact' = [contact EXCEPT ![job[q].of].gstin = IF job[q].gstin # NoOne THEN job[q].gstin ELSE @]
  /\ Done(q) /\ UNCHANGED <<paper, crossed>>

-----------------------------------------------------------------------------
(* Removing.                                                               *)

Remove(q, c) == FindOne(q, c, [Idle EXCEPT !.op = "remove"])

\* Mutant: production orders and their costs are not counted.
FaultyCountLinked(q) ==
  /\ pc[q] = "read" /\ job[q].op = "remove"
  /\ IF \E p \in Papers : paper[p].of = job[q].of /\ paper[p].kind \in Counted(job[q].of) \ {"production", "cost"}
       THEN Done(q)
       ELSE pc' = [pc EXCEPT ![q] = "counted"] /\ UNCHANGED job
  /\ UNCHANGED <<contact, paper, crossed>>
\* _count: one paper is enough to refuse.
CountLinked(q) ==
  /\ pc[q] = "read" /\ job[q].op = "remove"
  /\ IF \E p \in Papers : paper[p].of = job[q].of /\ paper[p].kind \in Counted(job[q].of)
       THEN Done(q)
       ELSE pc' = [pc EXCEPT ![q] = "counted"] /\ UNCHANGED job
  /\ UNCHANGED <<contact, paper, crossed>>

MarkDeleted(q) ==
  /\ pc[q] = "counted"
  /\ contact' = [contact EXCEPT ![job[q].of].deleted = TRUE]
  /\ Done(q) /\ UNCHANGED <<paper, crossed>>

-----------------------------------------------------------------------------
(* Papers, as invoices, documents, purchase and production orders write    *)
(* them: a new one, or a document that is edited and may change contact.   *)

Write(q, c, p, kind) ==
  /\ kind \in Counted(c)
  /\ paper[p] = NoPaper \/ (paper[p].kind = "document" /\ kind = "document")
  /\ \A r \in Requests : job[r].paper # p
  /\ FindOne(q, c, [Idle EXCEPT !.op = "paper", !.paper = p, !.kind = kind])

\* The contact was there when it was read, and a removal has counted its papers since.
Crosses(q) ==
  \/ contact[job[q].of].deleted /\ ~job[q].seen.deleted
  \/ \E r \in Requests : pc[r] = "counted" /\ job[r].of = job[q].of

CommitPaper(q) ==
  /\ pc[q] = "read" /\ job[q].op = "paper"
  /\ crossed' = IF Crosses(q) THEN crossed \cup {job[q].paper} ELSE crossed \ {job[q].paper}
  /\ paper' = [paper EXCEPT ![job[q].paper] = [of |-> job[q].of, kind |-> job[q].kind]]
  /\ Done(q) /\ UNCHANGED contact

\* The one row that is deleted for good: a cost of a production order.
RemoveCost(p) ==
  /\ paper[p].kind = "cost"
  /\ paper' = [paper EXCEPT ![p] = NoPaper]
  /\ UNCHANGED <<contact, pc, job, crossed>>

Kinds == {"invoice", "document", "production", "purchase order", "cost"}

Next ==
  \/ \E q \in Requests, c \in Contact :
       \/ \E type \in GstTypes \cup {"none"}, gstin \in Gstins \cup {NoOne} :
            (c \in Suppliers => type = "none") /\ Update(q, c, type, gstin)
       \/ Remove(q, c)
       \/ \E p \in Papers, kind \in Kinds : Write(q, c, p, kind)
  \/ \E q \in Requests : WriteParty(q) \/ WriteSupplier(q) \/ CountLinked(q) \/ MarkDeleted(q) \/ CommitPaper(q)
  \/ \E p \in Papers : RemoveCost(p)

Spec == Init /\ [][Next]_vars

-----------------------------------------------------------------------------
(* Properties.                                                             *)

Row == [gstType : GstTypes \cup {"none"}, gstin : Gstins \cup {NoOne}, deleted : BOOLEAN]
JobRow == [op : {"none", "update", "remove", "paper"}, of : Contact \cup {NoOne},
           paper : Papers \cup {NoOne}, kind : Kinds \cup {"none"},
           type : GstTypes \cup {"none"}, gstin : Gstins \cup {NoOne}, seen : Row]

TypeOK ==
  /\ contact \in [Contact -> Row]
  /\ paper \in [Papers -> [of : Contact \cup {NoOne}, kind : Kinds \cup {"none"}]]
  /\ pc \in [Requests -> {"idle", "read", "counted"}] /\ job \in [Requests -> JobRow]
  /\ crossed \subseteq Papers

\* A request that goes on saw its contact, and the kind of its paper is one that counts.
Going(q) ==
  pc[q] # "idle" =>
    /\ job[q].of \in Contact /\ ~job[q].seen.deleted
    /\ job[q].op = "paper" => job[q].paper \in Papers /\ job[q].kind \in Counted(job[q].of)

\* No paper about a contact whose papers were counted, but those that crossed the removal.
CountedPapersCrossed ==
  \A q \in Requests, p \in Papers : pc[q] = "counted" /\ paper[p].of = job[q].of => p \in crossed

PapersCount == \A p \in Papers : paper[p].of \in Contact => paper[p].kind \in Counted(paper[p].of)

\* A party is left with a GSTIN only when its type uses one, unless another edit changed
\* the type between an edit's reading and its writing; then the GSTIN and the type may be
\* those of two different edits.
GstinFitsTypeStep ==
  \A q \in Requests, c \in Parties :
    pc[q] = "read" /\ job[q].op = "update" /\ job[q].of = c /\ pc'[q] = "idle"
      /\ contact[c].gstType = job[q].seen.gstType /\ contact'[c].gstin # NoOne
        => UsesGstin(contact'[c].gstType)
GstinFitsType == [][GstinFitsTypeStep]_vars

\* The papers about a removed contact all come from requests that crossed its removal: no
\* request that begins later writes one, and no contact is removed with a paper that was
\* there to be counted.
OnlyCrossingPapersAreLeft ==
  \A c \in Contact, p \in Papers : contact[c].deleted /\ paper[p].of = c => p \in crossed

\* Every step keeps these together.
IInv ==
  /\ TypeOK /\ PapersCount /\ \A q \in Requests : Going(q)
  /\ CountedPapersCrossed /\ OnlyCrossingPapersAreLeft

\* remove() says "This record has linked transactions and must be retained": a contact
\* with papers is never removed.
LinkedContactsRetained == \A c \in Contact, p \in Papers : ~(contact[c].deleted /\ paper[p].of = c)
=============================================================================
