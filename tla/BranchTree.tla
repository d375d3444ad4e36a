----------------------------- MODULE BranchTree -----------------------------
(***************************************************************************)
(* The branches of one company (branches.service.ts) and the guard that    *)
(* picks the branch of every other request (branch.guard.ts).              *)
(*                                                                         *)
(* No handler takes a lock or opens a transaction: it reads, checks, and   *)
(* writes one row later, so each is a reading step and a writing step.     *)
(* Abstracted: names, addresses, codes (a unique index refuses a second    *)
(* one), audit rows, what kind of counted paper a branch holds.            *)
(***************************************************************************)
EXTENDS Naturals, FiniteSets

CONSTANTS
  Admins,     \* requests that change branches
  Clients,    \* requests that record something in a branch
  Branches,
  Main,       \* the branch made together with the company
  NoOne

\* Assumed of the constants.
BranchTreeAssumption == Main \in Branches /\ NoOne \notin Branches

VARIABLES
  branch,     \* branch[b]: [state, parent]
  papers,     \* papers[b]: what names b: "counted" (invoices, production orders,
              \* documents) and "other" (parties, items, purchase orders, accounts)
  pc, job     \* the stage of each request; the branch it works on and its patch

vars == <<branch, papers, pc, job>>

Callers == Admins \cup Clients
NoBranch == [state |-> "none", parent |-> NoOne]
NoJob == [branch |-> NoOne, patch |-> [x \in {} |-> NoOne]]

Live == {b \in Branches : branch[b].state # "none"}
Active == {b \in Live : branch[b].state = "active"}

\* What a request may set: some of the two columns.
Patches == UNION {[columns -> Branches \cup {NoOne, "active", "inactive"}] :
                    columns \in SUBSET {"state", "parent"}}
Fits(patch) ==
  /\ "state" \in DOMAIN patch => patch["state"] \in {"active", "inactive"}
  /\ "parent" \in DOMAIN patch => patch["parent"] \in Branches \cup {NoOne}
FittingPatches == {patch \in Patches : Fits(patch)}

Goto(q, stage, b, patch) ==
  /\ pc' = [pc EXCEPT ![q] = stage]
  /\ job' = [job EXCEPT ![q] = [branch |-> b, patch |-> patch]]

End(q) == pc' = [pc EXCEPT ![q] = "idle"] /\ job' = [job EXCEPT ![q] = NoJob]

-----------------------------------------------------------------------------
(* The checks                                                               *)

\* Walking up from p reaches b: no set closed under "parent of" separates them.
Reaches(p, b) ==
  \A S \in SUBSET Live :
    p \in S /\ (\A x \in S : branch[x].parent \in S \cup {NoOne}) => b \in S

\* A faulty ValidParent: looks at the chosen branch only.
FaultyValidParent(p, b) == p = NoOne \/ (p \in Live /\ p # b)

\* assertValidParent() of a chosen parent p for branch b.
ValidParent(p, b) == p = NoOne \/ (p \in Live /\ ~Reaches(p, b))

\* assertNotLastActive()
NotLastActive(b) == Active \ {b} # {}

-----------------------------------------------------------------------------
(* The handlers                                                             *)

Create(q, b, p) ==
  /\ pc[q] = "idle" /\ branch[b].state = "none" /\ papers[b] = {}
  /\ \A r \in Callers : job[r].branch # b
  /\ p = NoOne \/ p \in Live
  /\ Goto(q, "create", b, [x \in {"parent"} |-> p]) /\ UNCHANGED <<branch, papers>>

\* The row is inserted; a parent deleted meanwhile refuses it (foreign key).
CreateCommit(q) ==
  LET b == job[q].branch  p == job[q].patch["parent"] IN
  /\ pc[q] = "create" /\ End(q) /\ UNCHANGED papers
  /\ branch' = IF p \in Live \cup {NoOne}
               THEN [branch EXCEPT ![b] = [state |-> "active", parent |-> p]]
               ELSE branch

Update(q, b, patch) ==
  /\ pc[q] = "idle" /\ b \in Live
  /\ "state" \in DOMAIN patch /\ patch["state"] = "inactive" /\ b \in Active => NotLastActive(b)
  /\ "parent" \in DOMAIN patch => ValidParent(patch["parent"], b)
  /\ Goto(q, "update", b, patch) /\ UNCHANGED <<branch, papers>>

\* The columns named are set, unless the row or the parent is gone.
UpdateCommit(q) ==
  LET b == job[q].branch  patch == job[q].patch IN
  /\ pc[q] = "update" /\ End(q) /\ UNCHANGED papers
  /\ branch' = IF b \in Live /\ ("parent" \in DOMAIN patch => patch["parent"] \in Live \cup {NoOne})
               THEN [branch EXCEPT ![b] = [state |-> IF "state" \in DOMAIN patch THEN patch["state"] ELSE @.state,
                                           parent |-> IF "parent" \in DOMAIN patch THEN patch["parent"] ELSE @.parent]]
               ELSE branch

\* remove(): no sub-branch, no counted paper, and another active branch if it is active.
Remove(q, b) ==
  /\ pc[q] = "idle" /\ b \in Live
  /\ \A x \in Live : branch[x].parent # b
  /\ "counted" \notin papers[b]
  /\ b \in Active => NotLastActive(b)
  /\ Goto(q, "remove", b, NoJob.patch) /\ UNCHANGED <<branch, papers>>

\* The delete: whatever names the branch refuses it, sub-branches lose their parent.
RemoveCommit(q) ==
  LET b == job[q].branch IN
  /\ pc[q] = "remove" /\ End(q) /\ UNCHANGED papers
  /\ branch' = IF papers[b] # {} THEN branch
               ELSE [x \in Branches |->
                 IF x = b THEN NoBranch
                 ELSE IF branch[x].parent = b THEN [branch[x] EXCEPT !.parent = NoOne] ELSE branch[x]]

\* branch.guard.ts lets a request that writes into an active branch only.
CanActivate(q, b) ==
  /\ pc[q] = "idle" /\ b \in Active
  /\ Goto(q, "record", b, NoJob.patch) /\ UNCHANGED <<branch, papers>>

\* A handler behind the guard inserts a row that names the branch: create() of documents,
\* and all the others.
Record(q, kind) ==
  LET b == job[q].branch IN
  /\ pc[q] = "record" /\ End(q) /\ UNCHANGED branch
  /\ papers' = IF b \in Live THEN [papers EXCEPT ![b] = @ \cup {kind}] ELSE papers

-----------------------------------------------------------------------------
Init ==
  /\ branch = [b \in Branches |-> IF b = Main THEN [state |-> "active", parent |-> NoOne]
                                  ELSE NoBranch]
  /\ papers = [b \in Branches |-> {}]
  /\ pc = [q \in Callers |-> "idle"] /\ job = [q \in Callers |-> NoJob]

Next ==
  \/ \E q \in Admins :
       \/ \E b \in Branches, p \in Branches \cup {NoOne} : Create(q, b, p)
       \/ \E b \in Branches, patch \in FittingPatches : Update(q, b, patch)
       \/ \E b \in Branches : Remove(q, b)
       \/ CreateCommit(q) \/ UpdateCommit(q) \/ RemoveCommit(q)
  \/ \E q \in Clients :
       \/ \E b \in Branches : CanActivate(q, b)
       \/ \E kind \in {"counted", "other"} : Record(q, kind)

Spec == Init /\ [][Next]_vars

-----------------------------------------------------------------------------
(* Properties                                                               *)

JobRow == [branch : Branches \cup {NoOne}, patch : FittingPatches]

\* Also: a parent exists, and a request that goes on to write has a branch.
TypeOK ==
  /\ branch \in [Branches -> [state : {"none", "active", "inactive"}, parent : Branches \cup {NoOne}]]
  /\ papers \in [Branches -> SUBSET {"counted", "other"}]
  /\ pc \in [Callers -> {"idle", "create", "update", "remove", "record"}]
  /\ job \in [Callers -> JobRow]
  /\ \A b \in Branches : branch[b].parent \in Live \cup {NoOne}
  /\ \A q \in Callers : pc[q] # "idle" => job[q].branch \in Branches
  /\ \A q \in Callers : pc[q] = "create" => "parent" \in DOMAIN job[q].patch

\* "The parent must be in the same company and must not be the branch itself or one of
\* its descendants": every non-empty set of branches has one whose parent is outside.
NoCycle == \A S \in (SUBSET Live) \ {{}} : \E b \in S : branch[b].parent \notin S

\* "You cannot deactivate/delete the only active branch of a company": the guard of
\* every other request finds a branch.
SomeActive == Active # {}

\* "A branch that has ever held transactions is kept for the audit trail", also when they
\* are recorded while the branch is being removed.
UsedBranchesKept == \A b \in Branches : papers[b] # {} => b \in Live

\* What a request has checked; it still holds when nobody else changes branches.
Checked(q) ==
  LET b == job[q].branch  patch == job[q].patch IN
  /\ pc[q] = "create" => branch[b].state = "none"
  /\ pc[q] = "update" =>
       /\ "state" \in DOMAIN patch /\ patch["state"] = "inactive" /\ b \in Active => NotLastActive(b)
       /\ "parent" \in DOMAIN patch => ValidParent(patch["parent"], b)
  /\ pc[q] = "remove" /\ b \in Active => NotLastActive(b)

\* Every step keeps the first; one administrator at a time keeps the second as well.
IInv == TypeOK /\ UsedBranchesKept
AloneInv == NoCycle /\ SomeActive /\ \A q \in Admins : Checked(q)
=============================================================================
