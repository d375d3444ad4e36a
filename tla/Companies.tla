------------------------------ MODULE Companies ------------------------------
(***************************************************************************)
(* Workspace branches, the companies in them, and which branches share     *)
(* their parties and items (workspace-branches.service.ts,                 *)
(* businesses.service.ts, workspace-scope.util.ts, business.guard.ts).     *)
(*                                                                         *)
(* No handler locks anything: each reads and checks, and writes later.     *)
(* Abstracted: names, addresses, the workspace branch's own code,          *)
(* preferences (module Preferences), encryption of the GSTIN (its blind    *)
(* index is the GSTIN itself), companies older than that index.  A company *)
(* is GST registered exactly when it has a GSTIN, as the DTO and update()  *)
(* demand.  The branch of a company is named by its code (unique index).   *)
(***************************************************************************)
EXTENDS Naturals, FiniteSets

CONSTANTS
  Requests,
  Users, SuperAdmins,  \* who calls; the role SUPER_ADMIN sees everything
  Workspaces, Codes, Gstins,
  CompanyIds,
  Legacy,              \* companies made before workspace branches existed
  MainCode,            \* the code of the branch made with a company
  Ops,                 \* the handlers the clients call
  NoOne

\* Assumed of the constants.
CompaniesAssumption ==
  /\ SuperAdmins \subseteq Users /\ Legacy \subseteq CompanyIds /\ MainCode \in Codes
  /\ NoOne \notin Workspaces \cup Gstins \cup Users

VARIABLES
  workspace,  \* workspace[w]: [state, owner]
  company,    \* company[c]: [state, workspace, gstin]
  member,     \* member[c]: the users with an active membership
  branch,     \* branch[c][code]: "none", "active" or "inactive"
  pc, job     \* the stage of each request; its company, workspace and planned GSTIN

vars == <<workspace, company, member, branch, pc, job>>

NoWorkspace == [state |-> "none", owner |-> NoOne]
NoCompany == [state |-> "none", workspace |-> NoOne, gstin |-> NoOne]
NoJob == [user |-> NoOne, workspace |-> NoOne, company |-> NoOne, gstin |-> NoOne, named |-> FALSE]

Known == {c \in CompanyIds : company[c].state # "none"}

\* findAccessible(), and the guard of every request of a company.
Accessible(u, c) == company[c].state = "active" /\ (u \in SuperAdmins \/ u \in member[c])

\* The workspace branches an actor may change.
Owned(u, w) == workspace[w].state # "none" /\ (u \in SuperAdmins \/ workspace[w].owner = u)

\* assertGstinAvailable()
Available(gstin, c) == gstin = NoOne \/ \A x \in Known \ {c} : company[x].gstin # gstin

Start(q, op, j) ==
  /\ op \in Ops /\ pc[q] = "idle"
  /\ pc' = [pc EXCEPT ![q] = op] /\ job' = [job EXCEPT ![q] = j]
  /\ UNCHANGED <<workspace, company, member, branch>>

End(q, op) ==
  /\ pc[q] = op /\ pc' = [pc EXCEPT ![q] = "idle"] /\ job' = [job EXCEPT ![q] = NoJob]

-----------------------------------------------------------------------------
(* workspace-scope.util.ts                                                  *)

\* A faulty BranchBusinesses: companies without a workspace branch belong together.
FaultyBranchBusinesses(c, code) ==
  IF branch[c][code] # "active" THEN {}
  ELSE {x \in Known : company[x].state = "active" /\ company[x].workspace = company[c].workspace}

\* getBranchBusinessIds()
BranchBusinesses(c, code) ==
  IF branch[c][code] # "active" THEN {}
  ELSE IF company[c].workspace = NoOne THEN {c}
  ELSE {x \in Known : company[x].state = "active" /\ company[x].workspace = company[c].workspace}

\* getLogicalBranchIds(): the branches whose parties and items this one uses.
LogicalBranches(c, code) ==
  {d \in BranchBusinesses(c, code) \X Codes : branch[d[1]][d[2]] = "active"}

-----------------------------------------------------------------------------
(* workspace-branches.service.ts                                            *)

CreateWorkspace(u, w) ==
  /\ "workspace" \in Ops /\ workspace[w].state = "none"
  /\ \A q \in Requests : job[q].workspace # w
  /\ workspace' = [workspace EXCEPT ![w] = [state |-> "active", owner |-> u]]
  /\ UNCHANGED <<company, member, branch, pc, job>>

\* update() of isActive, the only column anything depends on.
UpdateWorkspace(u, w, state) ==
  /\ "workspace" \in Ops /\ Owned(u, w)
  /\ workspace' = [workspace EXCEPT ![w].state = state]
  /\ UNCHANGED <<company, member, branch, pc, job>>

\* remove(): the read.  An archived company counts too.
RemoveWorkspace(q, u, w) ==
  /\ Owned(u, w) /\ \A c \in Known : company[c].workspace # w
  /\ Start(q, "workspace", [NoJob EXCEPT !.workspace = w])

\* The delete, refused while a company names the row (ON DELETE RESTRICT).
RemoveWorkspaceCommit(q) ==
  LET w == job[q].workspace IN
  /\ End(q, "workspace") /\ UNCHANGED <<company, member, branch>>
  /\ workspace' = IF \E c \in Known : company[c].workspace = w THEN workspace
                  ELSE [workspace EXCEPT ![w] = NoWorkspace]

-----------------------------------------------------------------------------
(* businesses.service.ts                                                    *)

\* create(): the reads.
Create(q, u, c, w, gstin) ==
  /\ company[c].state = "none" /\ \A r \in Requests : job[r].company # c
  /\ Owned(u, w) /\ workspace[w].state = "active" /\ Available(gstin, c)
  /\ Start(q, "create", [user |-> u, workspace |-> w, company |-> c, gstin |-> gstin, named |-> TRUE])

\* Its transaction: the company, its main branch and its first member, unless the
\* workspace branch is gone or the GSTIN taken (foreign key, unique index).
CreateCommit(q) ==
  LET j == job[q] IN
  /\ End(q, "create") /\ UNCHANGED workspace
  /\ IF workspace[j.workspace].state # "none" /\ Available(j.gstin, j.company)
     THEN /\ company' = [company EXCEPT ![j.company] =
               [state |-> "active", workspace |-> j.workspace, gstin |-> j.gstin]]
          /\ member' = [member EXCEPT ![j.company] = {j.user}]
          /\ branch' = [branch EXCEPT ![j.company][MainCode] = "active"]
     ELSE UNCHANGED <<company, member, branch>>

\* update(): the GSTIN it will write is the one named, else the one it reads.
Update(q, u, c, named, gstin) ==
  LET planned == IF named THEN gstin ELSE company[c].gstin IN
  /\ Accessible(u, c)
  /\ planned # company[c].gstin => Available(planned, c)
  /\ Start(q, "update", [NoJob EXCEPT !.company = c, !.gstin = planned, !.named = named])

UpdateCommit(q) ==
  LET j == job[q] IN
  /\ End(q, "update") /\ UNCHANGED <<workspace, member, branch>>
  /\ company' = IF Available(j.gstin, j.company)
                THEN [company EXCEPT ![j.company].gstin = j.gstin] ELSE company

\* remove(): the company is archived, never deleted.
Archive(q, u, c) == Accessible(u, c) /\ Start(q, "archive", [NoJob EXCEPT !.company = c])

ArchiveCommit(q) ==
  /\ End(q, "archive") /\ UNCHANGED <<workspace, member, branch>>
  /\ company' = [company EXCEPT ![job[q].company].state = "archived"]

\* branches.service.ts create(), update() of isActive, remove().  That another branch stays
\* active is checked without a lock (module BranchTree): here any may be the last.
SetBranch(c, code, state) ==
  /\ "branches" \in Ops /\ c \in Known
  /\ branch[c][code] # state /\ (state = "inactive" => branch[c][code] = "active")
  /\ branch' = [branch EXCEPT ![c][code] = state]
  /\ UNCHANGED <<workspace, company, member, pc, job>>

\* branches.service.ts update() of a code that no other branch of the company has.
RenameBranch(c, code, other) ==
  /\ "branches" \in Ops /\ c \in Known
  /\ branch[c][code] # "none" /\ branch[c][other] = "none"
  /\ branch' = [branch EXCEPT ![c] = [@ EXCEPT ![code] = "none", ![other] = branch[c][code]]]
  /\ UNCHANGED <<workspace, company, member, pc, job>>

-----------------------------------------------------------------------------
Init ==
  /\ workspace = [w \in Workspaces |-> NoWorkspace]
  /\ company = [c \in CompanyIds |-> IF c \in Legacy THEN [NoCompany EXCEPT !.state = "active"]
                                     ELSE NoCompany]
  /\ member = [c \in CompanyIds |-> IF c \in Legacy THEN Users ELSE {}]
  /\ branch = [c \in CompanyIds |-> [code \in Codes |->
       IF c \in Legacy /\ code = MainCode THEN "active" ELSE "none"]]
  /\ pc = [q \in Requests |-> "idle"] /\ job = [q \in Requests |-> NoJob]

WorkspaceStep ==
  \/ \E u \in Users, w \in Workspaces :
       \/ CreateWorkspace(u, w) \/ \E state \in {"active", "inactive"} : UpdateWorkspace(u, w, state)
       \/ \E q \in Requests : RemoveWorkspace(q, u, w)
  \/ \E q \in Requests : RemoveWorkspaceCommit(q)

CompanyStep(q) ==
  \/ \E u \in Users, c \in CompanyIds :
       \/ \E w \in Workspaces, gstin \in Gstins \cup {NoOne} : Create(q, u, c, w, gstin)
       \/ Update(q, u, c, FALSE, NoOne) \/ \E gstin \in Gstins \cup {NoOne} : Update(q, u, c, TRUE, gstin)
       \/ Archive(q, u, c)
  \/ CreateCommit(q) \/ UpdateCommit(q) \/ ArchiveCommit(q)

Next ==
  \/ WorkspaceStep \/ \E q \in Requests : CompanyStep(q)
  \/ \E c \in CompanyIds, code \in Codes :
       \/ \E state \in {"none", "active", "inactive"} : SetBranch(c, code, state)
       \/ \E other \in Codes : RenameBranch(c, code, other)

Spec == Init /\ [][Next]_vars

-----------------------------------------------------------------------------
(* Properties                                                               *)

CompanyRow ==
  [state : {"none", "active", "archived"}, workspace : Workspaces \cup {NoOne},
   gstin : Gstins \cup {NoOne}]
JobRow ==
  [user : Users \cup {NoOne}, workspace : Workspaces \cup {NoOne},
   company : CompanyIds \cup {NoOne}, gstin : Gstins \cup {NoOne}, named : BOOLEAN]

TypeOK ==
  /\ workspace \in [Workspaces -> [state : {"none", "active", "inactive"}, owner : Users \cup {NoOne}]]
  /\ company \in [CompanyIds -> CompanyRow] /\ member \in [CompanyIds -> SUBSET Users]
  /\ branch \in [CompanyIds -> [Codes -> {"none", "active", "inactive"}]]
  /\ pc \in [Requests -> {"idle", "create", "update", "archive", "workspace"}]
  /\ job \in [Requests -> JobRow]

\* What a request that goes on to write relies on.
Going(q) ==
  /\ pc[q] = "create" => job[q].user \in Users /\ job[q].workspace \in Workspaces
                         /\ job[q].company \in CompanyIds
  /\ pc[q] \in {"update", "archive"} => job[q].company \in Known
  /\ pc[q] = "workspace" => job[q].workspace \in Workspaces

\* A company's workspace branch exists, also when it is removed while the company is made.
WorkspacesExist ==
  \A c \in CompanyIds :
    /\ company[c].state = "none" => company[c] = NoCompany
    /\ company[c].workspace # NoOne => workspace[company[c].workspace].state # "none"

\* "A business with this GSTIN already exists": no two companies ever share one, also when
\* two are created or changed at the same time.
GstinsDiffer == \A c \in Known : Available(company[c].gstin, c)

\* Every step keeps these together.
IInv == TypeOK /\ (\A q \in Requests : Going(q)) /\ WorkspacesExist /\ GstinsDiffer

\* "keeping its master data isolated": two branches use each other's parties and items only
\* in one company, or in companies of one workspace branch, and then both of them do.
MastersIsolated ==
  \A c, d \in Known, x, y \in Codes :
    company[c].state = "active" /\ <<d, y>> \in LogicalBranches(c, x) =>
      /\ <<c, x>> \in LogicalBranches(d, y)
      /\ c = d \/ (company[c].workspace = company[d].workspace /\ company[c].workspace # NoOne)

\* "Treats branches with the same code in an owner's companies as one logical branch".
SameCodeShared ==
  \A c \in Known, x \in Codes : \A d \in LogicalBranches(c, x) : d[2] = x

\* "`undefined` leaves a field untouched": an update that does not name the GSTIN leaves
\* the company's GSTIN as it is.
UnnamedGstinKept ==
  [][\A q \in Requests : pc[q] = "update" /\ pc'[q] = "idle" /\ ~job[q].named
       => company'[job[q].company].gstin = company[job[q].company].gstin]_vars
=============================================================================
