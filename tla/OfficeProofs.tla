---------------------------- MODULE OfficeProofs -----------------------------
(***************************************************************************)
(* The theorems about who may sign in and work where, and about what the   *)
(* papers of an office refer to: AuthSessions, and the instances Members   *)
(* (Team), Tree (BranchTree), Firms (Companies), Settings (Preferences),   *)
(* People (Contacts), Series (Numbering) and Buying (PurchaseOrders).      *)
(*                                                                         *)
(* Sessions: nothing is locked, so a step of one request meets any state   *)
(* of the others.  What makes the proof go is that rows change one way     *)
(* only: a session that was opened stays opened, and one that is not live  *)
(* is never live again (Fading).                                           *)
(* The others: the invariant says of a request that has read what of it    *)
(* still holds when it writes; where the code takes no lock that is        *)
(* little, and the stronger theorems assume one administrator at a time.   *)
(***************************************************************************)
EXTENDS AuthSessions, FiniteSetTheorems, WellFoundedInduction, TLAPS

\* The constants and variables of the other components that AuthSessions does not have.
CONSTANTS
  Admins, Companies, SignIns, Clients, Branches, Main,
  BranchCodes, FirmOps, OrderOps, Users, SuperAdmins, Workspaces, Gstins, CompanyIds, Legacy,
  MainCode, PartyGstins,
  Fields, Numbers, Lengths, Wordings, Parties, Suppliers, Papers,
  Registers, Rows, Years, Typed, Redated, Limit, Word, Orders, BillIds, Totals, MaxFiles
VARIABLES
  lock, member, branch, papers, workspace, company, staff, sites, stored, contact, paper, crossed,
  numbered, offered, order, bill, files

Members == INSTANCE Team WITH Sessions <- SignIns
Tree == INSTANCE BranchTree
Firms == INSTANCE Companies WITH
  Codes <- BranchCodes, Ops <- FirmOps, member <- staff, branch <- sites
Settings == INSTANCE Preferences WITH Words <- Wordings
People == INSTANCE Contacts WITH Gstins <- PartyGstins
Series == INSTANCE Numbering WITH row <- numbered
Buying == INSTANCE PurchaseOrders WITH Ops <- OrderOps, Bills <- BillIds

-----------------------------------------------------------------------------
(* Members of companies.                                                     *)

LEMMA MembersInitInv ==
  ASSUME Members!TeamAssumption PROVE Members!Init => Members!IInv
BY DEF Members!Init, Members!IInv, Members!TypeOK, Members!NoJob

\* A step that goes to another stage.
LEMMA MembersGotoKeeps ==
  ASSUME Members!IInv, \A r, s \in Admins : r = s, NEW q \in Admins,
         NEW stage \in {"idle", "activate", "deactivate", "remove", "removing"},
         NEW j \in [company : Companies \cup {NoOne}, elsewhere : BOOLEAN, open : SUBSET SignIns],
         Members!Goto(q, stage, j),
         member' \in [Companies -> {"none", "active", "inactive"}],
         session' \in [SignIns -> {"none", "open", "revoked"}],
         stage = "removing" /\ j.elsewhere => Members!Active' \ {j.company} # {}
  PROVE  Members!IInv'
<1>1. Members!TypeOK'
  BY DEF Members!IInv, Members!TypeOK, Members!Goto
<1>2. pc'[q] = stage /\ job'[q] = j /\ \A r \in Admins : r = q
  BY DEF Members!IInv, Members!TypeOK, Members!Goto
<1>3. QED
  BY <1>1, <1>2 DEF Members!IInv

\* The end of a request.
LEMMA MembersEndKeeps ==
  ASSUME Members!IInv, \A r, s \in Admins : r = s, NEW q \in Admins, Members!End(q),
         member' \in [Companies -> {"none", "active", "inactive"}],
         session' \in [SignIns -> {"none", "open", "revoked"}]
  PROVE  Members!IInv'
<1>1. Members!NoJob \in [company : Companies \cup {NoOne}, elsewhere : BOOLEAN, open : SUBSET SignIns]
  BY DEF Members!NoJob
<1>2. QED
  BY <1>1, MembersGotoKeeps DEF Members!End

LEMMA MembersCreateKeeps ==
  ASSUME Members!IInv, NEW c \in Companies, Members!Create(c)
  PROVE  Members!IInv'
<1>1. Members!TypeOK'
  BY DEF Members!IInv, Members!TypeOK, Members!Create
<1>2. Members!Active \subseteq Members!Active'
  BY DEF Members!IInv, Members!TypeOK, Members!Create, Members!Active
<1>3. QED
  BY <1>1, <1>2 DEF Members!IInv, Members!Create

LEMMA MembersLoginKeeps ==
  ASSUME Members!IInv, NEW s \in SignIns, Members!Login(s)
  PROVE  Members!IInv'
<1>1. Members!TypeOK'
  BY DEF Members!IInv, Members!TypeOK, Members!Login
<1>2. QED
  BY <1>1 DEF Members!IInv, Members!Login, Members!Active

LEMMA TeamMemberKeeps ==
  ASSUME Members!IInv, \A r, s \in Admins : r = s, NEW q \in Admins,
         NEW stage \in {"activate", "deactivate", "remove"}, NEW c \in Companies,
         Members!TeamMember(q, stage, c)
  PROVE  Members!IInv'
<1> DEFINE j == [Members!NoJob EXCEPT !.company = c]
<1>1. j \in [company : Companies \cup {NoOne}, elsewhere : BOOLEAN, open : SUBSET SignIns]
  BY DEF Members!NoJob
<1>2. Members!Goto(q, stage, j) /\ UNCHANGED <<member, session>>
  BY DEF Members!TeamMember
<1> HIDE DEF j
<1>3. QED
  BY <1>1, <1>2, MembersGotoKeeps DEF Members!IInv, Members!TypeOK

LEMMA SetActiveKeeps ==
  ASSUME Members!IInv, \A r, s \in Admins : r = s, NEW q \in Admins, NEW stage,
         NEW value \in {"active", "inactive"}, Members!SetActive(q, stage, value)
  PROVE  Members!IInv'
<1>1. Members!End(q) /\ session' = session
  BY DEF Members!SetActive
<1>2. member' \in [Companies -> {"none", "active", "inactive"}]
  BY DEF Members!IInv, Members!TypeOK, Members!SetActive
<1>3. QED
  BY <1>1, <1>2, MembersEndKeeps DEF Members!IInv, Members!TypeOK

LEMMA MembersRemoveKeeps ==
  ASSUME Members!IInv, \A r, s \in Admins : r = s, NEW q \in Admins, Members!Remove(q)
  PROVE  Members!IInv'
<1> DEFINE c == job[q].company
           j == [company |-> c, elsewhere |-> Members!Active \ {c} # {}, open |-> Members!Opened]
<1>1. UNCHANGED <<member, session>>
  BY DEF Members!Remove
<1>2. CASE member[c] = "none"
  BY <1>1, <1>2, MembersEndKeeps DEF Members!Remove, Members!IInv, Members!TypeOK
<1>3. CASE member[c] # "none"
  <2>1. Members!Goto(q, "removing", j)
    BY <1>3 DEF Members!Remove
  <2>2. c \in Companies \cup {NoOne} /\ Members!Opened \in SUBSET SignIns
    BY DEF Members!IInv, Members!TypeOK, Members!Opened
  <2>3. j \in [company : Companies \cup {NoOne}, elsewhere : BOOLEAN, open : SUBSET SignIns]
    BY <2>2
  <2>4. j.elsewhere => Members!Active' \ {j.company} # {}
    BY <1>1 DEF Members!Active
  <2> HIDE DEF j
  <2>5. QED
    BY <1>1, <2>1, <2>3, <2>4, MembersGotoKeeps DEF Members!IInv, Members!TypeOK
<1>4. QED
  BY <1>2, <1>3

LEMMA RemoveCommitKeeps ==
  ASSUME Members!IInv, \A r, s \in Admins : r = s, NEW q \in Admins, Members!RemoveCommit(q)
  PROVE  Members!IInv'
<1>1. Members!End(q)
  BY DEF Members!RemoveCommit
<1>2. member' \in [Companies -> {"none", "active", "inactive"}]
  BY DEF Members!IInv, Members!TypeOK, Members!RemoveCommit
<1>3. session' \in [SignIns -> {"none", "open", "revoked"}]
  BY DEF Members!IInv, Members!TypeOK, Members!RemoveCommit
<1>4. QED
  BY <1>1, <1>2, <1>3, MembersEndKeeps

LEMMA MembersStepInv ==
  ASSUME \A r, s \in Admins : r = s
  PROVE  Members!IInv /\ [Members!Next]_(Members!vars) => Members!IInv'
<1> SUFFICES ASSUME Members!IInv, [Members!Next]_(Members!vars) PROVE Members!IInv'
  OBVIOUS
<1>1. CASE UNCHANGED Members!vars
  BY <1>1 DEF Members!vars, Members!IInv, Members!TypeOK, Members!Active
<1>2. QED
  BY <1>1, MembersCreateKeeps, MembersLoginKeeps, TeamMemberKeeps, SetActiveKeeps,
     MembersRemoveKeeps, RemoveCommitKeeps
  DEF Members!Next

\* A step that ends a removal is its commit.
LEMMA EndedByCommit ==
  ASSUME Members!IInv, \A r, s \in Admins : r = s, [Members!Next]_(Members!vars),
         NEW q \in Admins, pc[q] = "removing", pc'[q] = "idle"
  PROVE  Members!RemoveCommit(q)
<1>1. pc' # pc
  OBVIOUS
<1>2. Members!Next /\ \A r \in Admins : r = q
  BY <1>1 DEF Members!vars
<1>3. ~(\E c \in Companies : Members!Create(c)) /\ ~(\E s \in SignIns : Members!Login(s))
  BY <1>1 DEF Members!Create, Members!Login
<1>4. ~(\E c \in Companies, stage \in {"activate", "deactivate", "remove"} : Members!TeamMember(q, stage, c))
  BY DEF Members!TeamMember
<1>5. ~Members!SetActive(q, "activate", "active") /\ ~Members!SetActive(q, "deactivate", "inactive") /\ ~Members!Remove(q)
  BY DEF Members!SetActive, Members!Remove
<1>6. QED
  BY <1>2, <1>3, <1>4, <1>5 DEF Members!Next

LEMMA LastRemovalSignsOut ==
  ASSUME \A r, s \in Admins : r = s, Members!IInv, [Members!Next]_(Members!vars)
  PROVE  Members!RemovalSignsOutStep
<1> SUFFICES ASSUME NEW q \in Admins, pc[q] = "removing", pc'[q] = "idle",
                    \A c \in Companies : member'[c] = "none",
                    NEW s \in job[q].open
             PROVE  session'[s] = "revoked"
  BY DEF Members!RemovalSignsOutStep
<1>1. Members!RemoveCommit(q)
  BY EndedByCommit
<1>2. s \in SignIns
  BY DEF Members!IInv, Members!TypeOK
<1>3. ~job[q].elsewhere
  <2>1. SUFFICES ASSUME job[q].elsewhere PROVE FALSE
    OBVIOUS
  <2>2. PICK d \in Members!Active : d # job[q].company
    BY <2>1 DEF Members!IInv
  <2>3. d \in Companies /\ member'[d] = member[d]
    BY <1>1, <2>2 DEF Members!IInv, Members!TypeOK, Members!RemoveCommit, Members!Active
  <2>4. QED
    BY <2>2, <2>3 DEF Members!Active
<1>4. QED
  BY <1>1, <1>2, <1>3 DEF Members!RemoveCommit

\* One administrator who removes a member from the last company signs the member out of
\* every session that was open when the removal began.
THEOREM RemovalsSignOut ==
  ASSUME Members!TeamAssumption, \A r, s \in Admins : r = s
  PROVE  Members!Spec => Members!RemovalSignsOut
<1>1. Members!Init => Members!IInv
  BY MembersInitInv
<1>2. Members!IInv /\ [Members!Next]_(Members!vars) => Members!IInv'
  BY MembersStepInv
<1>3. Members!IInv /\ [Members!Next]_(Members!vars) => [Members!RemovalSignsOutStep]_(Members!vars)
  BY LastRemovalSignsOut
<1>4. QED
  BY <1>1, <1>2, <1>3, PTL DEF Members!Spec, Members!RemovalSignsOut

-----------------------------------------------------------------------------
(* The branches of a company.                                                *)

Row == [state : {"none", "active", "inactive"}, parent : Branches \cup {NoOne}]

\* The parts of IInv that only the tables appear in.
TablesOK ==
  /\ branch \in [Branches -> Row]
  /\ papers \in [Branches -> SUBSET {"counted", "other"}]
  /\ \A b \in Branches : branch[b].parent \in Tree!Live \cup {NoOne}
  /\ Tree!UsedBranchesKept

LEMMA EmptyPatch ==
  /\ Tree!NoJob.patch \in Tree!FittingPatches /\ Tree!NoJob \in Tree!JobRow
  /\ \A p \in Branches \cup {NoOne} : [x \in {"parent"} |-> p] \in Tree!FittingPatches
<1>1. Tree!NoJob.patch = [x \in {} |-> NoOne] /\ Tree!NoJob.branch = NoOne
  BY DEF Tree!NoJob
<1>2. [x \in {} |-> NoOne] \in [{} -> Branches \cup {NoOne, "active", "inactive"}]
  OBVIOUS
<1>3. [x \in {} |-> NoOne] \in Tree!Patches
  <2>1. {} \in SUBSET {"state", "parent"}
    OBVIOUS
  <2>2. QED
    BY <1>2, <2>1 DEF Tree!Patches
<1>4. DOMAIN [x \in {} |-> NoOne] = {}
  OBVIOUS
<1>5. Tree!NoJob.patch \in Tree!FittingPatches
  BY <1>1, <1>3, <1>4 DEF Tree!FittingPatches, Tree!Fits
<1>6. Tree!NoJob \in Tree!JobRow
  BY <1>1, <1>5 DEF Tree!NoJob, Tree!JobRow
<1>7. ASSUME NEW p \in Branches \cup {NoOne}
      PROVE  [x \in {"parent"} |-> p] \in Tree!FittingPatches
  <2> DEFINE f == [x \in {"parent"} |-> p]
  <2>1. f \in [{"parent"} -> Branches \cup {NoOne, "active", "inactive"}]
    OBVIOUS
  <2>2. {"parent"} \in SUBSET {"state", "parent"}
    OBVIOUS
  <2>3. f \in Tree!Patches
    BY <2>1, <2>2 DEF Tree!Patches
  <2>4. DOMAIN f = {"parent"} /\ f["parent"] = p
    OBVIOUS
  <2> HIDE DEF f
  <2>5. Tree!Fits(f)
    BY <2>4 DEF Tree!Fits
  <2>6. QED
    BY <2>3, <2>5 DEF Tree!FittingPatches, f
<1>8. QED
  BY <1>5, <1>6, <1>7

LEMMA InvParts ==
  Tree!IInv <=> /\ TablesOK
                /\ pc \in [Tree!Callers -> {"idle", "create", "update", "remove", "record"}]
                /\ job \in [Tree!Callers -> Tree!JobRow]
                /\ \A q \in Tree!Callers : pc[q] # "idle" => job[q].branch \in Branches
                /\ \A q \in Tree!Callers : pc[q] = "create" => "parent" \in DOMAIN job[q].patch
BY DEF Tree!IInv, Tree!TypeOK, TablesOK, Row

LEMMA TreeInitInv ==
  ASSUME Tree!BranchTreeAssumption PROVE Tree!Init => Tree!IInv
<1> SUFFICES ASSUME Tree!Init PROVE Tree!IInv
  OBVIOUS
<1>1. branch \in [Branches -> Row] /\ \A b \in Branches : branch[b].parent = NoOne
  BY DEF Tree!Init, Row, Tree!NoBranch
<1>2. \A b \in Branches : papers[b] = {}
  BY DEF Tree!Init
<1>3. papers \in [Branches -> SUBSET {"counted", "other"}]
  BY DEF Tree!Init
<1>4. TablesOK
  BY <1>1, <1>2, <1>3 DEF TablesOK, Tree!UsedBranchesKept
<1>5. \A q \in Tree!Callers : pc[q] = "idle"
  BY DEF Tree!Init
<1>6. pc \in [Tree!Callers -> {"idle", "create", "update", "remove", "record"}] /\ job \in [Tree!Callers -> Tree!JobRow]
  BY EmptyPatch DEF Tree!Init
<1>7. QED
  BY <1>4, <1>5, <1>6, InvParts

\* A step of a request that reads.
LEMMA TreeGotoKeeps ==
  ASSUME Tree!IInv, NEW q \in Tree!Callers, NEW stage \in {"create", "update", "remove", "record"},
         NEW b \in Branches, NEW patch \in Tree!FittingPatches,
         stage = "create" => "parent" \in DOMAIN patch,
         Tree!Goto(q, stage, b, patch), UNCHANGED <<branch, papers>>
  PROVE  /\ Tree!IInv'
         /\ pc'[q] = stage /\ job'[q] = [branch |-> b, patch |-> patch]
         /\ \A r \in Tree!Callers : r # q => pc'[r] = pc[r] /\ job'[r] = job[r]
<1> DEFINE j == [branch |-> b, patch |-> patch]
<1>1. j \in Tree!JobRow /\ j.branch = b /\ j.patch = patch
  BY DEF Tree!JobRow
<1>2. job' = [job EXCEPT ![q] = j] /\ pc' = [pc EXCEPT ![q] = stage]
  BY DEF Tree!Goto
<1> HIDE DEF j
<1>3. pc' \in [Tree!Callers -> {"idle", "create", "update", "remove", "record"}] /\ job' \in [Tree!Callers -> Tree!JobRow]
  BY <1>1, <1>2, InvParts
<1>4. /\ pc'[q] = stage /\ job'[q] = j
      /\ \A r \in Tree!Callers : r # q => pc'[r] = pc[r] /\ job'[r] = job[r]
  BY <1>2, InvParts
<1>5. TablesOK'
  BY InvParts DEF TablesOK, Tree!Live, Tree!UsedBranchesKept
<1>6. Tree!IInv'
  <2>1. \A r \in Tree!Callers : pc'[r] # "idle" => job'[r].branch \in Branches
    BY <1>1, <1>4, InvParts
  <2>2. \A r \in Tree!Callers : pc'[r] = "create" => "parent" \in DOMAIN job'[r].patch
    BY <1>1, <1>4, InvParts
  <2>3. QED
    BY <1>3, <1>5, <2>1, <2>2 DEF Tree!IInv, Tree!TypeOK, TablesOK, Row
<1>7. QED
  BY <1>4, <1>6 DEF j

\* The last step of a request.
LEMMA TreeEndKeeps ==
  ASSUME Tree!IInv, NEW q \in Tree!Callers, Tree!End(q), TablesOK'
  PROVE  /\ Tree!IInv'
         /\ pc'[q] = "idle"
         /\ \A r \in Tree!Callers : r # q => pc'[r] = pc[r] /\ job'[r] = job[r]
<1>1. pc' \in [Tree!Callers -> {"idle", "create", "update", "remove", "record"}] /\ job' \in [Tree!Callers -> Tree!JobRow]
  BY InvParts, EmptyPatch DEF Tree!End
<1>2. pc'[q] = "idle" /\ \A r \in Tree!Callers : r # q => pc'[r] = pc[r] /\ job'[r] = job[r]
  BY InvParts DEF Tree!End
<1>3. QED
  BY <1>1, <1>2, InvParts DEF Tree!IInv, Tree!TypeOK, TablesOK, Row

LEMMA CreateCommitRows ==
  ASSUME Tree!BranchTreeAssumption, Tree!IInv, NEW q \in Tree!Callers, Tree!CreateCommit(q)
  PROVE  TablesOK'
<1> DEFINE b == job[q].branch
           p == job[q].patch["parent"]
<1>1. b \in Branches /\ Tree!End(q) /\ papers' = papers
  BY InvParts DEF Tree!CreateCommit
<1>2. CASE p \in Tree!Live \cup {NoOne}
  <2> DEFINE new == [state |-> "active", parent |-> p]
  <2>1. branch' = [branch EXCEPT ![b] = new]
    BY <1>2 DEF Tree!CreateCommit
  <2>2. new \in Row
    BY <1>2 DEF Row, Tree!Live
  <2>3. /\ branch' \in [Branches -> Row] /\ branch'[b] = new
        /\ \A x \in Branches : x # b => branch'[x] = branch[x]
    BY <1>1, <2>1, <2>2, InvParts DEF TablesOK
  <2>4. Tree!Live' = Tree!Live \cup {b}
    BY <1>1, <2>3 DEF Tree!Live
  <2>5. QED
    BY <1>1, <1>2, <2>3, <2>4, InvParts DEF TablesOK, Tree!UsedBranchesKept
<1>3. CASE p \notin Tree!Live \cup {NoOne}
  <2>1. branch' = branch
    BY <1>3 DEF Tree!CreateCommit
  <2>2. QED
    BY <1>1, <2>1, InvParts DEF TablesOK, Tree!UsedBranchesKept, Tree!Live
<1>4. QED
  BY <1>2, <1>3


LEMMA UpdateCommitRows ==
  ASSUME Tree!BranchTreeAssumption, Tree!IInv, NEW q \in Tree!Callers, Tree!UpdateCommit(q)
  PROVE  /\ TablesOK' /\ Tree!Live' = Tree!Live
         /\ branch' # branch =>
              /\ job[q].branch \in Tree!Live
              /\ \A x \in Branches : x # job[q].branch => branch'[x] = branch[x]
              /\ branch'[job[q].branch].state = IF "state" \in DOMAIN job[q].patch
                   THEN job[q].patch["state"] ELSE branch[job[q].branch].state
              /\ branch'[job[q].branch].parent = IF "parent" \in DOMAIN job[q].patch
                   THEN job[q].patch["parent"] ELSE branch[job[q].branch].parent
<1> DEFINE b == job[q].branch
           patch == job[q].patch
           goes == b \in Tree!Live /\ ("parent" \in DOMAIN patch => patch["parent"] \in Tree!Live \cup {NoOne})
           s == IF "state" \in DOMAIN patch THEN patch["state"] ELSE branch[b].state
           p == IF "parent" \in DOMAIN patch THEN patch["parent"] ELSE branch[b].parent
<1>1. b \in Branches /\ Tree!End(q) /\ papers' = papers
  BY InvParts DEF Tree!UpdateCommit
<1>2. patch \in Tree!FittingPatches
  BY InvParts DEF Tree!JobRow
<1>3. "state" \in DOMAIN patch => patch["state"] \in {"active", "inactive"}
  BY <1>2 DEF Tree!FittingPatches, Tree!Fits
<1>4. CASE goes
  <2>1. branch' = [branch EXCEPT ![b] = [state |-> s, parent |-> p]]
    BY <1>1, <1>4, InvParts DEF Tree!UpdateCommit, TablesOK
  <2>2. p \in Tree!Live \cup {NoOne}
    BY <1>1, <1>4, InvParts DEF TablesOK
  <2>3. s \in {"active", "inactive"}
    BY <1>1, <1>3, <1>4, InvParts DEF TablesOK, Row, Tree!Live
  <2> DEFINE new == [state |-> s, parent |-> p]
  <2>4. new \in Row /\ new.state = s /\ new.parent = p
    BY <2>2, <2>3 DEF Row, Tree!Live
  <2> HIDE DEF s, p
  <2>5. /\ branch' \in [Branches -> Row] /\ branch'[b] = new
        /\ \A x \in Branches : x # b => branch'[x] = branch[x]
    <3> HIDE DEF new, b
    <3>1. branch' = [branch EXCEPT ![b] = new]
      BY <2>1 DEF new
    <3>2. QED
      BY <1>1, <3>1, <2>4, InvParts DEF TablesOK
  <2>6. Tree!Live' = Tree!Live
    BY <1>1, <1>4, <2>3, <2>4, <2>5 DEF Tree!Live
  <2>7. TablesOK'
    BY <1>1, <2>2, <2>4, <2>5, <2>6, InvParts DEF TablesOK, Tree!UsedBranchesKept
  <2>8. QED
    BY <1>4, <2>4, <2>5, <2>6, <2>7 DEF s, p
<1>5. CASE ~goes
  <2>1. branch' = branch
    BY <1>5 DEF Tree!UpdateCommit
  <2>2. QED
    BY <1>1, <2>1, InvParts DEF TablesOK, Tree!UsedBranchesKept, Tree!Live
<1>6. QED
  BY <1>4, <1>5

LEMMA RemoveCommitRows ==
  ASSUME Tree!BranchTreeAssumption, Tree!IInv, NEW q \in Tree!Callers, Tree!RemoveCommit(q)
  PROVE  /\ TablesOK'
         /\ branch' # branch =>
              /\ Tree!Live' = Tree!Live \ {job[q].branch}
              /\ \A x \in Branches \ {job[q].branch} :
                   /\ branch'[x].state = branch[x].state
                   /\ branch'[x].parent \in {branch[x].parent, NoOne}
<1> DEFINE b == job[q].branch
<1>1. b \in Branches /\ Tree!End(q) /\ papers' = papers
  BY InvParts DEF Tree!RemoveCommit
<1>2. CASE papers[b] # {}
  <2>1. branch' = branch
    BY <1>2 DEF Tree!RemoveCommit
  <2>2. QED
    BY <1>1, <2>1, InvParts DEF TablesOK, Tree!UsedBranchesKept, Tree!Live
<1>3. CASE papers[b] = {}
  <2>1. branch' = [x \in Branches |->
                 IF x = b THEN Tree!NoBranch
                 ELSE IF branch[x].parent = b THEN [branch[x] EXCEPT !.parent = NoOne] ELSE branch[x]]
    BY <1>3 DEF Tree!RemoveCommit
  <2>2. branch'[b] = Tree!NoBranch /\ Tree!NoBranch \in Row /\ Tree!NoBranch.state = "none" /\ Tree!NoBranch.parent = NoOne
    BY <1>1, <2>1 DEF Tree!NoBranch, Row
  <2>3. ASSUME NEW x \in Branches, x # b
        PROVE  /\ branch'[x] \in Row /\ branch'[x].state = branch[x].state
               /\ branch'[x].parent = IF branch[x].parent = b THEN NoOne ELSE branch[x].parent
    BY <2>1, <2>3, InvParts DEF TablesOK, Row
  <2>4. branch' \in [Branches -> Row]
    BY <2>1, <2>2, <2>3
  <2>5. Tree!Live' = Tree!Live \ {b}
    BY <1>1, <2>2, <2>3 DEF Tree!Live
  <2>6. \A x \in Branches : branch'[x].parent \in Tree!Live' \cup {NoOne}
    BY <2>2, <2>3, <2>5, InvParts DEF TablesOK
  <2>7. Tree!UsedBranchesKept'
    BY <1>1, <1>3, <2>5, InvParts DEF TablesOK, Tree!UsedBranchesKept
  <2>8. TablesOK'
    BY <1>1, <2>4, <2>6, <2>7, InvParts DEF TablesOK
  <2>9. QED
    BY <2>3, <2>5, <2>8
<1>4. QED
  BY <1>2, <1>3

LEMMA RecordRows ==
  ASSUME Tree!BranchTreeAssumption, Tree!IInv, NEW q \in Tree!Callers, NEW kind \in {"counted", "other"},
         Tree!Record(q, kind)
  PROVE  TablesOK'
<1> DEFINE b == job[q].branch
<1>1. b \in Branches /\ UNCHANGED branch
  BY InvParts DEF Tree!Record
<1>2. papers' \in [Branches -> SUBSET {"counted", "other"}]
      /\ \A x \in Branches : papers'[x] # {} => papers[x] # {} \/ x \in Tree!Live
  BY <1>1, InvParts DEF Tree!Record, TablesOK
<1>3. QED
  BY <1>1, <1>2, InvParts DEF TablesOK, Tree!UsedBranchesKept, Tree!Live

-----------------------------------------------------------------------------
LEMMA CreateReads ==
  ASSUME Tree!BranchTreeAssumption, Tree!IInv, NEW q \in Tree!Callers, NEW b \in Branches,
         NEW p \in Branches \cup {NoOne}, Tree!Create(q, b, p)
  PROVE  /\ Tree!IInv' /\ branch' = branch
         /\ pc'[q] = "create" /\ job'[q].branch = b
         /\ \A r \in Tree!Callers : r # q => pc'[r] = pc[r] /\ job'[r] = job[r]
<1> DEFINE patch == [x \in {"parent"} |-> p]
<1>1. patch \in Tree!FittingPatches /\ "parent" \in DOMAIN patch
  BY EmptyPatch
<1>2. Tree!Goto(q, "create", b, patch) /\ UNCHANGED <<branch, papers>>
  BY DEF Tree!Create
<1> HIDE DEF patch
<1>3. Tree!IInv' /\ pc'[q] = "create" /\ job'[q] = [branch |-> b, patch |-> patch]
      /\ \A r \in Tree!Callers : r # q => pc'[r] = pc[r] /\ job'[r] = job[r]
  BY <1>1, <1>2, TreeGotoKeeps
<1>4. QED
  BY <1>2, <1>3

LEMMA UpdateReads ==
  ASSUME Tree!BranchTreeAssumption, Tree!IInv, NEW q \in Tree!Callers, NEW b \in Branches,
         NEW patch \in Tree!FittingPatches, Tree!Update(q, b, patch)
  PROVE  /\ Tree!IInv' /\ branch' = branch
         /\ pc'[q] = "update" /\ job'[q] = [branch |-> b, patch |-> patch]
         /\ \A r \in Tree!Callers : r # q => pc'[r] = pc[r] /\ job'[r] = job[r]
<1>1. Tree!Goto(q, "update", b, patch) /\ UNCHANGED <<branch, papers>>
  BY DEF Tree!Update
<1>2. QED
  BY <1>1, TreeGotoKeeps

LEMMA RemoveReads ==
  ASSUME Tree!BranchTreeAssumption, Tree!IInv, NEW q \in Tree!Callers, NEW b \in Branches, Tree!Remove(q, b)
  PROVE  /\ Tree!IInv' /\ branch' = branch
         /\ pc'[q] = "remove" /\ job'[q].branch = b
         /\ \A r \in Tree!Callers : r # q => pc'[r] = pc[r] /\ job'[r] = job[r]
<1> DEFINE patch == Tree!NoJob.patch
<1>1. patch \in Tree!FittingPatches
  BY EmptyPatch
<1>2. Tree!Goto(q, "remove", b, patch) /\ UNCHANGED <<branch, papers>>
  BY DEF Tree!Remove
<1> HIDE DEF patch
<1>3. Tree!IInv' /\ pc'[q] = "remove" /\ job'[q] = [branch |-> b, patch |-> patch]
      /\ \A r \in Tree!Callers : r # q => pc'[r] = pc[r] /\ job'[r] = job[r]
  BY <1>1, <1>2, TreeGotoKeeps
<1>4. QED
  BY <1>2, <1>3

LEMMA RecordReads ==
  ASSUME Tree!BranchTreeAssumption, Tree!IInv, NEW q \in Tree!Callers, NEW b \in Branches, Tree!CanActivate(q, b)
  PROVE  /\ Tree!IInv' /\ branch' = branch
         /\ pc'[q] = "record"
         /\ \A r \in Tree!Callers : r # q => pc'[r] = pc[r] /\ job'[r] = job[r]
<1>1. Tree!Goto(q, "record", b, Tree!NoJob.patch) /\ UNCHANGED <<branch, papers>>
  BY DEF Tree!CanActivate
<1>2. QED
  BY <1>1, TreeGotoKeeps, EmptyPatch

LEMMA TreeStepInv ==
  ASSUME Tree!BranchTreeAssumption PROVE Tree!IInv /\ [Tree!Next]_(Tree!vars) => Tree!IInv'
<1> SUFFICES ASSUME Tree!IInv, [Tree!Next]_(Tree!vars) PROVE Tree!IInv'
  OBVIOUS
<1>1. CASE UNCHANGED Tree!vars
  BY <1>1 DEF Tree!vars, Tree!IInv, Tree!TypeOK, Tree!UsedBranchesKept, Tree!Live
<1>2. ASSUME NEW q \in Tree!Callers, Tree!CreateCommit(q) \/ Tree!UpdateCommit(q) \/ Tree!RemoveCommit(q)
      PROVE  Tree!IInv'
  <2>1. Tree!End(q)
    BY <1>2 DEF Tree!CreateCommit, Tree!UpdateCommit, Tree!RemoveCommit
  <2>2. QED
    BY <1>2, <2>1, TreeEndKeeps, CreateCommitRows, UpdateCommitRows, RemoveCommitRows
<1>3. ASSUME NEW q \in Tree!Callers, NEW kind \in {"counted", "other"}, Tree!Record(q, kind)
      PROVE  Tree!IInv'
  <2>1. Tree!End(q)
    BY <1>3 DEF Tree!Record
  <2>2. QED
    BY <1>3, <2>1, TreeEndKeeps, RecordRows
<1>4. Admins \subseteq Tree!Callers /\ Clients \subseteq Tree!Callers
  BY DEF Tree!Callers
<1>5. QED
  BY <1>1, <1>2, <1>3, <1>4, CreateReads, UpdateReads, RemoveReads, RecordReads DEF Tree!Next

\* A branch with records is never removed, however many administrators and clients there are
\* (IInv names UsedBranchesKept).
THEOREM TreeInvariance == ASSUME Tree!BranchTreeAssumption PROVE Tree!Spec => []Tree!IInv
<1>1. Tree!Init => Tree!IInv
  BY TreeInitInv
<1>2. Tree!IInv /\ [Tree!Next]_(Tree!vars) => Tree!IInv'
  BY TreeStepInv
<1>3. QED
  BY <1>1, <1>2, PTL DEF Tree!Spec

-----------------------------------------------------------------------------
(* One administrator at a time.                                              *)

\* A new parent outside of what is below the branch makes no cycle.
LEMMA MovedMakesNoCycle ==
  ASSUME Tree!BranchTreeAssumption, Tree!IInv, Tree!NoCycle, Tree!Live' = Tree!Live, NEW b \in Tree!Live,
         NEW p \in Tree!Live \cup {NoOne}, Tree!ValidParent(p, b), branch'[b].parent = p,
         \A x \in Branches : x # b => branch'[x] = branch[x]
  PROVE  Tree!NoCycle'
<1> SUFFICES ASSUME NEW T \in (SUBSET Tree!Live) \ {{}}, \A x \in T : branch'[x].parent \in T
             PROVE  FALSE
  BY DEF Tree!NoCycle
<1>1. T \subseteq Branches /\ NoOne \notin T
  BY DEF Tree!Live, Tree!BranchTreeAssumption
<1>2. CASE b \notin T
  BY <1>1, <1>2 DEF Tree!NoCycle
<1>3. CASE b \in T
  <2>1. p \in T /\ p # NoOne
    BY <1>1, <1>3
  <2>2. PICK S \in SUBSET Tree!Live :
          p \in S /\ (\A x \in S : branch[x].parent \in S \cup {NoOne}) /\ b \notin S
    BY <2>1 DEF Tree!ValidParent, Tree!Reaches
  <2>3. T \cap S \in (SUBSET Tree!Live) \ {{}}
    BY <2>1, <2>2
  <2>4. PICK x \in T \cap S : branch[x].parent \notin T \cap S
    BY <2>3 DEF Tree!NoCycle
  <2>5. x # b /\ x \in Branches
    BY <1>1, <2>2, <2>4
  <2>6. branch[x].parent \in T
    BY <2>4, <2>5
  <2>7. branch[x].parent \in S \cup {NoOne}
    BY <2>2, <2>4
  <2>8. QED
    BY <1>1, <2>4, <2>6, <2>7
<1>4. QED
  BY <1>2, <1>3

LEMMA CreateCommitAlone ==
  ASSUME Tree!BranchTreeAssumption, Tree!IInv, Tree!AloneInv, NEW q \in Admins, Tree!CreateCommit(q)
  PROVE  Tree!NoCycle' /\ Tree!SomeActive'
<1> DEFINE b == job[q].branch
           p == job[q].patch["parent"]
<1>1. q \in Tree!Callers
  BY DEF Tree!Callers
<1>2. b \in Branches /\ pc[q] = "create"
  BY <1>1, InvParts DEF Tree!CreateCommit
<1>3. b \notin Tree!Live
  BY <1>2 DEF Tree!AloneInv, Tree!Checked, Tree!Live
<1>4. CASE p \notin Tree!Live \cup {NoOne}
  <2>1. branch' = branch
    BY <1>4 DEF Tree!CreateCommit
  <2>2. QED
    BY <2>1 DEF Tree!AloneInv, Tree!NoCycle, Tree!SomeActive, Tree!Active, Tree!Live
<1>5. CASE p \in Tree!Live \cup {NoOne}
  <2>1. branch' = [branch EXCEPT ![b] = [state |-> "active", parent |-> p]]
    BY <1>5 DEF Tree!CreateCommit
  <2>2. /\ branch'[b].state = "active" /\ branch'[b].parent = p
        /\ \A x \in Branches : x # b => branch'[x] = branch[x]
    BY <1>2, <2>1, InvParts DEF TablesOK
  <2>3. Tree!Live' = Tree!Live \cup {b}
    BY <1>2, <2>2 DEF Tree!Live
  <2>4. Tree!SomeActive'
    BY <1>2, <2>2, <2>3 DEF Tree!SomeActive, Tree!Active
  <2>5. ASSUME NEW T \in (SUBSET Tree!Live') \ {{}}, \A x \in T : branch'[x].parent \in T
        PROVE  FALSE
    <3>1. T \subseteq Branches /\ NoOne \notin T
      BY <1>2, <2>3 DEF Tree!Live, Tree!BranchTreeAssumption
    <3>2. CASE T \subseteq {b}
      BY <1>3, <1>5, <2>2, <2>5, <3>1, <3>2
    <3>3. CASE ~(T \subseteq {b})
      <4>1. T \ {b} \in (SUBSET Tree!Live) \ {{}}
        BY <2>3, <3>3
      <4>2. PICK x \in T \ {b} : branch[x].parent \notin T \ {b}
        BY <4>1 DEF Tree!AloneInv, Tree!NoCycle
      <4>3. x \in Branches /\ branch[x].parent \in T
        BY <2>2, <2>5, <3>1, <4>2
      <4>4. branch[x].parent = b /\ branch[x].parent \in Tree!Live \cup {NoOne}
        BY <4>2, <4>3, InvParts DEF TablesOK
      <4>5. QED
        BY <1>2, <1>3, <4>4 DEF Tree!BranchTreeAssumption
    <3>4. QED
      BY <3>2, <3>3
  <2>6. QED
    BY <2>4, <2>5 DEF Tree!NoCycle
<1>6. QED
  BY <1>4, <1>5

LEMMA UpdateCommitAlone ==
  ASSUME Tree!BranchTreeAssumption, Tree!IInv, Tree!AloneInv, NEW q \in Admins, Tree!UpdateCommit(q)
  PROVE  Tree!NoCycle' /\ Tree!SomeActive'
<1> DEFINE b == job[q].branch
           patch == job[q].patch
<1>1. q \in Tree!Callers
  BY DEF Tree!Callers
<1>2. b \in Branches /\ pc[q] = "update" /\ patch \in Tree!FittingPatches
  BY <1>1, InvParts DEF Tree!UpdateCommit, Tree!JobRow
<1>3. CASE branch' = branch
  BY <1>3 DEF Tree!AloneInv, Tree!NoCycle, Tree!SomeActive, Tree!Active, Tree!Live
<1>4. CASE branch' # branch
  <2>1. /\ TablesOK' /\ Tree!Live' = Tree!Live /\ b \in Tree!Live
        /\ \A x \in Branches : x # b => branch'[x] = branch[x]
        /\ branch'[b].state = IF "state" \in DOMAIN patch THEN patch["state"] ELSE branch[b].state
        /\ branch'[b].parent = IF "parent" \in DOMAIN patch THEN patch["parent"] ELSE branch[b].parent
    BY <1>1, <1>4, UpdateCommitRows
  <2>2. Tree!NoCycle'
    <3>1. CASE "parent" \in DOMAIN patch
      <4>1. Tree!ValidParent(patch["parent"], b)
        BY <1>2, <3>1 DEF Tree!AloneInv, Tree!Checked
      <4>2. branch'[b].parent \in Tree!Live \cup {NoOne}
        BY <1>2, <2>1 DEF TablesOK
      <4>3. QED
        BY <2>1, <3>1, <4>1, <4>2, MovedMakesNoCycle DEF Tree!AloneInv
    <3>2. CASE "parent" \notin DOMAIN patch
      <4>1. \A x \in Branches : branch'[x].parent = branch[x].parent
        BY <2>1, <3>2
      <4>2. Tree!Live \subseteq Branches
        BY DEF Tree!Live
      <4>3. QED
        BY <2>1, <4>1, <4>2 DEF Tree!AloneInv, Tree!NoCycle
    <3>3. QED
      BY <3>1, <3>2
  <2>3. Tree!SomeActive'
    <3>1. Tree!Active \ {b} \subseteq Tree!Active'
      BY <2>1 DEF Tree!Active, Tree!Live
    <3>2. CASE branch'[b].state = "active"
      BY <2>1, <3>2 DEF Tree!SomeActive, Tree!Active
    <3>3. CASE branch'[b].state # "active" /\ b \in Tree!Active
      <4>1. "state" \in DOMAIN patch /\ patch["state"] = "inactive"
        BY <1>2, <2>1, <3>3 DEF Tree!Active, Tree!FittingPatches, Tree!Fits
      <4>2. Tree!NotLastActive(b)
        BY <1>2, <3>3, <4>1 DEF Tree!AloneInv, Tree!Checked
      <4>3. QED
        BY <3>1, <4>2 DEF Tree!NotLastActive, Tree!SomeActive
    <3>4. CASE b \notin Tree!Active
      BY <3>1, <3>4 DEF Tree!AloneInv, Tree!SomeActive
    <3>5. QED
      BY <3>2, <3>3, <3>4
  <2>4. QED
    BY <2>2, <2>3
<1>5. QED
  BY <1>3, <1>4

LEMMA RemoveCommitAlone ==
  ASSUME Tree!BranchTreeAssumption, Tree!IInv, Tree!AloneInv, NEW q \in Admins, Tree!RemoveCommit(q)
  PROVE  Tree!NoCycle' /\ Tree!SomeActive'
<1> DEFINE b == job[q].branch
<1>1. q \in Tree!Callers
  BY DEF Tree!Callers
<1>2. pc[q] = "remove"
  BY DEF Tree!RemoveCommit
<1>3. CASE branch' = branch
  BY <1>3 DEF Tree!AloneInv, Tree!NoCycle, Tree!SomeActive, Tree!Active, Tree!Live
<1>4. CASE branch' # branch
  <2>1. /\ Tree!Live' = Tree!Live \ {b}
        /\ \A x \in Branches \ {b} : /\ branch'[x].state = branch[x].state
                                     /\ branch'[x].parent \in {branch[x].parent, NoOne}
    BY <1>1, <1>4, RemoveCommitRows
  <2>2. Tree!Live \subseteq Branches
    BY DEF Tree!Live
  <2>3. Tree!Active' = Tree!Active \ {b}
    BY <2>1, <2>2 DEF Tree!Active
  <2>4. Tree!SomeActive'
    BY <1>2, <2>3 DEF Tree!AloneInv, Tree!Checked, Tree!NotLastActive, Tree!SomeActive
  <2>5. ASSUME NEW T \in (SUBSET Tree!Live') \ {{}}
        PROVE  \E x \in T : branch'[x].parent \notin T
    <3>1. T \in (SUBSET Tree!Live) \ {{}} /\ NoOne \notin T
      BY <2>1, <2>2 DEF Tree!BranchTreeAssumption
    <3>2. PICK x \in T : branch[x].parent \notin T
      BY <3>1 DEF Tree!AloneInv, Tree!NoCycle
    <3>3. x \in Branches \ {b}
      BY <2>1, <2>2, <2>5
    <3>4. QED
      BY <2>1, <3>1, <3>2, <3>3
  <2>6. QED
    BY <2>4, <2>5 DEF Tree!NoCycle
<1>5. QED
  BY <1>3, <1>4

\* Who is not q and administers is nobody; q has ended.
LEMMA NobodyElse ==
  ASSUME \A r, s \in Admins : r = s, NEW q \in Admins, pc'[q] \in {"idle", "record"}
  PROVE  \A r \in Admins : Tree!Checked(r)'
<1>1. \A r \in Admins : r = q
  OBVIOUS
<1>2. Tree!Checked(q)'
  BY DEF Tree!Checked
<1>3. QED
  BY <1>1, <1>2

\* A step that leaves the branches and the job of the one administrator.
LEMMA SameForAdmin ==
  ASSUME Tree!AloneInv, UNCHANGED branch,
         \A r \in Admins : pc'[r] = pc[r] /\ job'[r] = job[r]
  PROVE  Tree!AloneInv'
<1>1. Tree!Live' = Tree!Live /\ Tree!Active' = Tree!Active
  BY DEF Tree!Active, Tree!Live
<1>2. Tree!NoCycle' /\ Tree!SomeActive'
  BY <1>1 DEF Tree!AloneInv, Tree!NoCycle, Tree!SomeActive
<1>3. ASSUME NEW r \in Admins PROVE Tree!Checked(r)'
  <2>1. Tree!Checked(r)
    BY DEF Tree!AloneInv
  <2>2. pc'[r] = pc[r] /\ job'[r] = job[r] /\ branch' = branch
    OBVIOUS
  <2>3. QED
    BY <1>1, <2>1, <2>2 DEF Tree!Checked, Tree!NotLastActive, Tree!ValidParent, Tree!Reaches
<1>4. QED
  BY <1>2, <1>3 DEF Tree!AloneInv

\* What the one administrator has just read is checked.
LEMMA JustChecked ==
  ASSUME \A r, s \in Admins : r = s, NEW q \in Admins, Tree!AloneInv, UNCHANGED branch, Tree!Checked(q)'
  PROVE  Tree!AloneInv'
<1>1. Tree!Live' = Tree!Live /\ Tree!Active' = Tree!Active
  BY DEF Tree!Active, Tree!Live
<1>2. Tree!NoCycle' /\ Tree!SomeActive'
  BY <1>1 DEF Tree!AloneInv, Tree!NoCycle, Tree!SomeActive
<1>3. \A r \in Admins : r = q
  OBVIOUS
<1>4. \A r \in Admins : Tree!Checked(r)'
  BY <1>3
<1>5. QED
  BY <1>2, <1>4 DEF Tree!AloneInv

LEMMA TreeAloneStep ==
  ASSUME Tree!BranchTreeAssumption, \A r, s \in Admins : r = s
  PROVE  Tree!IInv /\ Tree!AloneInv /\ [Tree!Next]_(Tree!vars) => Tree!AloneInv'
<1> SUFFICES ASSUME Tree!IInv, Tree!AloneInv, [Tree!Next]_(Tree!vars) PROVE Tree!AloneInv'
  OBVIOUS
<1>1. CASE UNCHANGED Tree!vars
  BY <1>1, SameForAdmin DEF Tree!vars
<1>2. Admins \subseteq Tree!Callers /\ Clients \subseteq Tree!Callers
  BY DEF Tree!Callers
<1>3. ASSUME NEW q \in Admins, Tree!CreateCommit(q) \/ Tree!UpdateCommit(q) \/ Tree!RemoveCommit(q)
      PROVE  Tree!AloneInv'
  <2>1. pc'[q] = "idle"
    BY <1>2, <1>3, InvParts DEF Tree!CreateCommit, Tree!UpdateCommit, Tree!RemoveCommit,
       Tree!End
  <2>2. QED
    BY <1>3, <2>1, NobodyElse, CreateCommitAlone, UpdateCommitAlone, RemoveCommitAlone DEF
       Tree!AloneInv
<1>4. ASSUME NEW q \in Admins, NEW b \in Branches, NEW p \in Branches \cup {NoOne}, Tree!Create(q, b, p)
      PROVE  Tree!AloneInv'
  <2>1. pc'[q] = "create" /\ job'[q].branch = b /\ branch' = branch /\ branch[b].state = "none"
    BY <1>2, <1>4, CreateReads DEF Tree!Create
  <2>2. Tree!Checked(q)'
    BY <2>1 DEF Tree!Checked
  <2>3. QED
    BY <2>1, <2>2, JustChecked
<1>5. ASSUME NEW q \in Admins, NEW b \in Branches, NEW patch \in Tree!FittingPatches, Tree!Update(q, b, patch)
      PROVE  Tree!AloneInv'
  <2>1. pc'[q] = "update" /\ job'[q] = [branch |-> b, patch |-> patch] /\ branch' = branch
    BY <1>2, <1>5, UpdateReads
  <2>2. Tree!Live' = Tree!Live /\ Tree!Active' = Tree!Active
    BY <2>1 DEF Tree!Active, Tree!Live
  <2>3. job'[q].branch = b /\ job'[q].patch = patch
    BY <2>1
  <2>4. /\ "state" \in DOMAIN patch /\ patch["state"] = "inactive" /\ b \in Tree!Active' => Tree!NotLastActive(b)'
        /\ "parent" \in DOMAIN patch => Tree!ValidParent(patch["parent"], b)'
    BY <1>5, <2>1, <2>2 DEF Tree!Update, Tree!NotLastActive, Tree!ValidParent, Tree!Reaches
  <2>5. Tree!Checked(q)'
    BY <2>1, <2>3, <2>4 DEF Tree!Checked
  <2>6. QED
    BY <2>1, <2>5, JustChecked
<1>6. ASSUME NEW q \in Admins, NEW b \in Branches, Tree!Remove(q, b)
      PROVE  Tree!AloneInv'
  <2>1. pc'[q] = "remove" /\ job'[q].branch = b /\ branch' = branch
    BY <1>2, <1>6, RemoveReads
  <2>2. Tree!Active' = Tree!Active
    BY <2>1 DEF Tree!Active, Tree!Live
  <2>3. b \in Tree!Active' => Tree!NotLastActive(b)'
    BY <1>6, <2>2 DEF Tree!Remove, Tree!NotLastActive
  <2>4. Tree!Checked(q)'
    BY <2>1, <2>3 DEF Tree!Checked
  <2>5. QED
    BY <2>1, <2>4, JustChecked
<1>7. ASSUME NEW q \in Clients, NEW b \in Branches, Tree!CanActivate(q, b)
      PROVE  Tree!AloneInv'
  <2>1. branch' = branch /\ pc'[q] = "record"
        /\ \A r \in Tree!Callers : r # q => pc'[r] = pc[r] /\ job'[r] = job[r]
    BY <1>2, <1>7, RecordReads
  <2>2. CASE q \in Admins
    BY <2>1, <2>2, JustChecked DEF Tree!Checked
  <2>3. CASE q \notin Admins
    BY <1>2, <2>1, <2>3, SameForAdmin
  <2>4. QED
    BY <2>2, <2>3
<1>8. ASSUME NEW q \in Clients, NEW kind \in {"counted", "other"}, Tree!Record(q, kind)
      PROVE  Tree!AloneInv'
  <2>1. branch' = branch /\ pc'[q] = "idle"
        /\ \A r \in Tree!Callers : r # q => pc'[r] = pc[r] /\ job'[r] = job[r]
    BY <1>2, <1>8, InvParts DEF Tree!Record, Tree!End
  <2>2. CASE q \in Admins
    BY <2>1, <2>2, JustChecked DEF Tree!Checked
  <2>3. CASE q \notin Admins
    BY <1>2, <2>1, <2>3, SameForAdmin
  <2>4. QED
    BY <2>2, <2>3
<1>9. QED
  BY <1>1, <1>3, <1>4, <1>5, <1>6, <1>7, <1>8 DEF Tree!Next

LEMMA AloneInit ==
  ASSUME Tree!BranchTreeAssumption PROVE Tree!Init => Tree!AloneInv
<1> SUFFICES ASSUME Tree!Init PROVE Tree!AloneInv
  OBVIOUS
<1>1. Tree!Live = {Main} /\ Tree!Active = {Main} /\ branch[Main].parent = NoOne
  BY DEF Tree!Init, Tree!Live, Tree!Active, Tree!NoBranch, Tree!BranchTreeAssumption
<1>2. \A q \in Admins : pc[q] = "idle"
  BY DEF Tree!Init, Tree!Callers
<1>3. \A q \in Admins : Tree!Checked(q)
  BY <1>2 DEF Tree!Checked
<1>4. Tree!NoCycle
  BY <1>1 DEF Tree!NoCycle, Tree!BranchTreeAssumption
<1>5. QED
  BY <1>1, <1>3, <1>4 DEF Tree!AloneInv, Tree!SomeActive

\* With one administrator at a time the branches have no cycle of parents and one of them is
\* active (AloneInv names NoCycle and SomeActive).
THEOREM OneAdministrator ==
  ASSUME Tree!BranchTreeAssumption, \A r, s \in Admins : r = s
  PROVE  Tree!Spec => []Tree!AloneInv
<1>1. Tree!Init => Tree!IInv /\ Tree!AloneInv
  BY TreeInitInv, AloneInit
<1>2. Tree!IInv /\ Tree!AloneInv /\ [Tree!Next]_(Tree!vars) => Tree!IInv' /\ Tree!AloneInv'
  BY TreeStepInv, TreeAloneStep
<1>3. QED
  BY <1>1, <1>2, PTL DEF Tree!Spec

-----------------------------------------------------------------------------
(* Companies and their workspace branches.                                   *)

LEMMA FirmsInitInv ==
  ASSUME Firms!CompaniesAssumption PROVE Firms!Init => Firms!IInv
<1> SUFFICES ASSUME Firms!Init PROVE Firms!IInv
  OBVIOUS
<1> USE Firms!CompaniesAssumption DEF Firms!CompaniesAssumption
<1>1. Firms!TypeOK
  <2>1. Firms!NoJob \in Firms!JobRow /\ Firms!NoCompany \in Firms!CompanyRow /\ [Firms!NoCompany EXCEPT !.state = "active"] \in Firms!CompanyRow
    BY DEF Firms!NoJob, Firms!JobRow, Firms!NoCompany, Firms!CompanyRow
  <2>2. workspace \in [Workspaces -> [state : {"none", "active", "inactive"}, owner : Users \cup {NoOne}]]
    BY DEF Firms!Init, Firms!NoWorkspace
  <2>3. company \in [CompanyIds -> Firms!CompanyRow]
    BY <2>1 DEF Firms!Init
  <2>4. QED
    BY <2>1, <2>2, <2>3 DEF Firms!Init, Firms!TypeOK
<1>2. \A q \in Requests : Firms!Going(q)
  BY DEF Firms!Init, Firms!Going
<1>3. \A c \in CompanyIds : company[c].workspace = NoOne /\ company[c].gstin = NoOne
                            /\ (company[c].state = "none" => company[c] = Firms!NoCompany)
  BY DEF Firms!Init, Firms!NoCompany
<1>4. QED
  BY <1>1, <1>2, <1>3 DEF Firms!IInv, Firms!WorkspacesExist, Firms!GstinsDiffer,
     Firms!Available, Firms!Known

-----------------------------------------------------------------------------
(* A step of a request that only reads.                                     *)

LEMMA FirmsStartKeeps ==
  ASSUME Firms!IInv, NEW q \in Requests, NEW op \in {"create", "update", "archive", "workspace"},
         NEW j \in Firms!JobRow, Firms!Start(q, op, j),
         op = "create" => j.user \in Users /\ j.workspace \in Workspaces /\ j.company \in CompanyIds,
         op \in {"update", "archive"} => j.company \in Firms!Known,
         op = "workspace" => j.workspace \in Workspaces
  PROVE  Firms!IInv'
<1>1. Firms!TypeOK'
  BY DEF Firms!IInv, Firms!TypeOK, Firms!Start
<1>2. \A r \in Requests : r # q => pc'[r] = pc[r] /\ job'[r] = job[r]
  BY DEF Firms!IInv, Firms!TypeOK, Firms!Start
<1>3. pc'[q] = op /\ job'[q] = j /\ Firms!Known' = Firms!Known
  BY DEF Firms!IInv, Firms!TypeOK, Firms!Start, Firms!Known
<1>4. \A r \in Requests : Firms!Going(r)'
  BY <1>2, <1>3 DEF Firms!IInv, Firms!Going
<1>5. QED
  BY <1>1, <1>4 DEF Firms!IInv, Firms!Start, Firms!WorkspacesExist, Firms!GstinsDiffer,
     Firms!Available, Firms!Known

\* The end of a request: only what it did to the rows is left to be looked at.
LEMMA FirmsEndKeeps ==
  ASSUME Firms!CompaniesAssumption, Firms!IInv, NEW q \in Requests, NEW op, Firms!End(q, op), Firms!Known \subseteq Firms!Known'
  PROVE  /\ pc' \in [Requests -> {"idle", "create", "update", "archive", "workspace"}]
         /\ job' \in [Requests -> Firms!JobRow]
         /\ \A r \in Requests : Firms!Going(r)'
<1>1. Firms!NoJob \in Firms!JobRow
  BY DEF Firms!NoJob, Firms!JobRow
<1>2. pc' \in [Requests -> {"idle", "create", "update", "archive", "workspace"}]
         /\ job' \in [Requests -> Firms!JobRow]
  BY <1>1 DEF Firms!IInv, Firms!TypeOK, Firms!End
<1>3. \A r \in Requests : r # q => pc'[r] = pc[r] /\ job'[r] = job[r]
  BY DEF Firms!IInv, Firms!TypeOK, Firms!End
<1>4. pc'[q] = "idle"
  BY DEF Firms!IInv, Firms!TypeOK, Firms!End
<1>5. QED
  BY <1>2, <1>3, <1>4 DEF Firms!IInv, Firms!Going

\* The rows of companies are left as they are.
LEMMA SameCompanies ==
  ASSUME Firms!IInv, UNCHANGED company
  PROVE  Firms!Known' = Firms!Known /\ Firms!GstinsDiffer'
BY DEF Firms!IInv, Firms!GstinsDiffer, Firms!Available, Firms!Known

\* Workspace branches that companies are in stay.
LEMMA WorkspacesStay ==
  ASSUME Firms!IInv, UNCHANGED company,
         \A w \in Workspaces : workspace[w].state # "none" /\ (\E c \in Firms!Known : company[c].workspace = w)
                                 => workspace'[w].state # "none"
  PROVE  Firms!WorkspacesExist'
BY DEF Firms!IInv, Firms!TypeOK, Firms!CompanyRow, Firms!WorkspacesExist, Firms!Known,
   Firms!NoCompany

-----------------------------------------------------------------------------
LEMMA CreateWorkspaceKeeps ==
  ASSUME Firms!CompaniesAssumption, Firms!IInv, NEW u \in Users, NEW w \in Workspaces, Firms!CreateWorkspace(u, w)
  PROVE  Firms!IInv'
<1>1. Firms!TypeOK'
  BY DEF Firms!IInv, Firms!TypeOK, Firms!CreateWorkspace
<1>2. \A x \in Workspaces : workspace[x].state # "none" => workspace'[x].state # "none"
  BY DEF Firms!IInv, Firms!TypeOK, Firms!CreateWorkspace
<1>3. UNCHANGED <<company, pc, job>>
  BY DEF Firms!CreateWorkspace
<1>4. QED
  BY <1>1, <1>2, <1>3, SameCompanies, WorkspacesStay DEF Firms!IInv, Firms!Going

LEMMA UpdateWorkspaceKeeps ==
  ASSUME Firms!CompaniesAssumption, Firms!IInv, NEW u \in Users, NEW w \in Workspaces,
         NEW state \in {"active", "inactive"}, Firms!UpdateWorkspace(u, w, state)
  PROVE  Firms!IInv'
<1>1. Firms!TypeOK'
  BY DEF Firms!IInv, Firms!TypeOK, Firms!UpdateWorkspace
<1>2. \A x \in Workspaces : workspace[x].state # "none" => workspace'[x].state # "none"
  BY DEF Firms!IInv, Firms!TypeOK, Firms!UpdateWorkspace
<1>3. UNCHANGED <<company, pc, job>>
  BY DEF Firms!UpdateWorkspace
<1>4. QED
  BY <1>1, <1>2, <1>3, SameCompanies, WorkspacesStay DEF Firms!IInv, Firms!Going

LEMMA RemoveWorkspaceCommitKeeps ==
  ASSUME Firms!CompaniesAssumption, Firms!IInv, NEW q \in Requests, Firms!RemoveWorkspaceCommit(q)
  PROVE  Firms!IInv'
<1>1. UNCHANGED <<company, staff, sites>> /\ Firms!End(q, "workspace")
  BY DEF Firms!RemoveWorkspaceCommit
<1>2. workspace' \in [Workspaces -> [state : {"none", "active", "inactive"}, owner : Users \cup {NoOne}]]
  BY DEF Firms!IInv, Firms!TypeOK, Firms!RemoveWorkspaceCommit, Firms!NoWorkspace
<1>3. \A w \in Workspaces : workspace[w].state # "none" /\ (\E c \in Firms!Known : company[c].workspace = w)
                              => workspace'[w].state # "none"
  BY DEF Firms!IInv, Firms!TypeOK, Firms!RemoveWorkspaceCommit
<1>4. Firms!Known' = Firms!Known /\ Firms!GstinsDiffer' /\ Firms!WorkspacesExist'
  BY <1>1, <1>3, SameCompanies, WorkspacesStay
<1>5. QED
  BY <1>1, <1>2, <1>4, FirmsEndKeeps DEF Firms!IInv, Firms!TypeOK

LEMMA FirmsCreateKeeps ==
  ASSUME Firms!CompaniesAssumption, Firms!IInv, NEW q \in Requests, NEW u \in Users, NEW c \in CompanyIds,
         NEW w \in Workspaces, NEW gstin \in Gstins \cup {NoOne}, Firms!Create(q, u, c, w, gstin)
  PROVE  Firms!IInv'
<1> DEFINE j == [user |-> u, workspace |-> w, company |-> c, gstin |-> gstin, named |-> TRUE]
<1>1. j \in Firms!JobRow /\ j.user = u /\ j.workspace = w /\ j.company = c
  BY DEF Firms!JobRow
<1>2. Firms!Start(q, "create", j)
  BY DEF Firms!Create
<1> HIDE DEF j
<1>3. QED
  BY <1>1, <1>2, FirmsStartKeeps

LEMMA CreateCommitKeeps ==
  ASSUME Firms!CompaniesAssumption, Firms!IInv, NEW q \in Requests, Firms!CreateCommit(q)
  PROVE  Firms!IInv'
<1> DEFINE j == job[q]
           made == workspace[j.workspace].state # "none" /\ Firms!Available(j.gstin, j.company)
           new == [state |-> "active", workspace |-> j.workspace, gstin |-> j.gstin]
<1>1. Firms!End(q, "create") /\ UNCHANGED workspace
  BY DEF Firms!CreateCommit
<1>2. j.user \in Users /\ j.workspace \in Workspaces /\ j.company \in CompanyIds
      /\ j.gstin \in Gstins \cup {NoOne}
  BY <1>1 DEF Firms!IInv, Firms!TypeOK, Firms!JobRow, Firms!Going, Firms!End
<1>3. CASE ~made
  <2>1. UNCHANGED <<company, staff, sites>>
    BY <1>3 DEF Firms!CreateCommit
  <2>2. Firms!Known' = Firms!Known /\ Firms!GstinsDiffer' /\ Firms!WorkspacesExist'
    BY <1>1, <2>1, SameCompanies, WorkspacesStay
  <2>3. QED
    BY <1>1, <2>1, <2>2, FirmsEndKeeps DEF Firms!IInv, Firms!TypeOK
<1>4. CASE made
  <2>1. new \in Firms!CompanyRow
    BY <1>2 DEF Firms!CompanyRow
  <2>2. company' = [company EXCEPT ![j.company] = new]
    BY <1>4 DEF Firms!CreateCommit
  <2>3. company' \in [CompanyIds -> Firms!CompanyRow] /\ company'[j.company] = new
        /\ \A c \in CompanyIds : c # j.company => company'[c] = company[c]
    BY <1>2, <2>1, <2>2 DEF Firms!IInv, Firms!TypeOK
  <2>4. staff' = [staff EXCEPT ![j.company] = {j.user}]
        /\ sites' = [sites EXCEPT ![j.company][MainCode] = "active"]
    BY <1>4 DEF Firms!CreateCommit
  <2>5. staff' \in [CompanyIds -> SUBSET Users]
    BY <1>2, <2>4 DEF Firms!IInv, Firms!TypeOK
  <2>6. sites' \in [CompanyIds -> [BranchCodes -> {"none", "active", "inactive"}]]
    BY <1>2, <2>4 DEF Firms!IInv, Firms!TypeOK
  <2>7. Firms!Known' = Firms!Known \cup {j.company}
    BY <1>2, <2>3 DEF Firms!Known
  <2>8. Firms!WorkspacesExist'
    BY <1>1, <1>2, <1>4, <2>3 DEF Firms!IInv, Firms!WorkspacesExist
  <2>9. Firms!GstinsDiffer'
    <3>1. \A x \in Firms!Known \ {j.company} : j.gstin = NoOne \/ company[x].gstin # j.gstin
      BY <1>4 DEF Firms!Available
    <3>2. \A x, y \in Firms!Known : x # y => company[x].gstin = NoOne \/ company[y].gstin # company[x].gstin
      BY DEF Firms!IInv, Firms!GstinsDiffer, Firms!Available
    <3>3. \A x, y \in Firms!Known' : x # y => company'[x].gstin = NoOne \/ company'[y].gstin # company'[x].gstin
      BY <2>3, <2>7, <3>1, <3>2 DEF Firms!Known
    <3>4. QED
      BY <3>3 DEF Firms!GstinsDiffer, Firms!Available
  <2> HIDE DEF j, made, new
  <2>10. QED
    BY <1>1, <2>3, <2>5, <2>6, <2>7, <2>8, <2>9, FirmsEndKeeps DEF Firms!IInv, Firms!TypeOK
<1>5. QED
  BY <1>3, <1>4

LEMMA FirmsUpdateKeeps ==
  ASSUME Firms!CompaniesAssumption, Firms!IInv, NEW q \in Requests, NEW u \in Users, NEW c \in CompanyIds,
         NEW named \in BOOLEAN, NEW gstin \in Gstins \cup {NoOne}, Firms!Update(q, u, c, named, gstin)
  PROVE  Firms!IInv'
<1>1. PICK planned \in Gstins \cup {NoOne} :
        Firms!Start(q, "update", [Firms!NoJob EXCEPT !.company = c, !.gstin = planned, !.named = named])
  <2>1. company[c].gstin \in Gstins \cup {NoOne}
    BY DEF Firms!IInv, Firms!TypeOK, Firms!CompanyRow
  <2>2. QED
    BY <2>1 DEF Firms!Update
<1> DEFINE j == [Firms!NoJob EXCEPT !.company = c, !.gstin = planned, !.named = named]
<1>2. j \in Firms!JobRow /\ j.company = c
  BY DEF Firms!JobRow, Firms!NoJob
<1>3. c \in Firms!Known
  BY DEF Firms!Update, Firms!Accessible, Firms!Known
<1>4. Firms!Start(q, "update", j)
  BY <1>1
<1> HIDE DEF j
<1>5. QED
  BY <1>2, <1>3, <1>4, FirmsStartKeeps

LEMMA ArchiveKeeps ==
  ASSUME Firms!CompaniesAssumption, Firms!IInv, NEW q \in Requests, NEW u \in Users, NEW c \in CompanyIds,
         Firms!Archive(q, u, c)
  PROVE  Firms!IInv'
<1> DEFINE j == [Firms!NoJob EXCEPT !.company = c]
<1>1. j \in Firms!JobRow /\ j.company = c
  BY DEF Firms!JobRow, Firms!NoJob
<1>2. c \in Firms!Known
  BY DEF Firms!Archive, Firms!Accessible, Firms!Known
<1>3. Firms!Start(q, "archive", j)
  BY DEF Firms!Archive
<1> HIDE DEF j
<1>4. QED
  BY <1>1, <1>2, <1>3, FirmsStartKeeps

LEMMA RemoveWorkspaceKeeps ==
  ASSUME Firms!CompaniesAssumption, Firms!IInv, NEW q \in Requests, NEW u \in Users, NEW w \in Workspaces,
         Firms!RemoveWorkspace(q, u, w)
  PROVE  Firms!IInv'
<1> DEFINE j == [Firms!NoJob EXCEPT !.workspace = w]
<1>1. j \in Firms!JobRow /\ j.workspace = w
  BY DEF Firms!JobRow, Firms!NoJob
<1>2. Firms!Start(q, "workspace", j)
  BY DEF Firms!RemoveWorkspace
<1> HIDE DEF j
<1>3. QED
  BY <1>1, <1>2, FirmsStartKeeps

LEMMA UpdateCommitKeeps ==
  ASSUME Firms!CompaniesAssumption, Firms!IInv, NEW q \in Requests, Firms!UpdateCommit(q)
  PROVE  Firms!IInv'
<1> DEFINE j == job[q]
<1>1. Firms!End(q, "update") /\ UNCHANGED <<workspace, staff, sites>>
  BY DEF Firms!UpdateCommit
<1>2. j.company \in Firms!Known /\ j.company \in CompanyIds /\ j.gstin \in Gstins \cup {NoOne}
  BY <1>1 DEF Firms!IInv, Firms!TypeOK, Firms!JobRow, Firms!Going, Firms!End, Firms!Known
<1>3. CASE ~Firms!Available(j.gstin, j.company)
  <2>1. UNCHANGED company
    BY <1>3 DEF Firms!UpdateCommit
  <2>2. Firms!Known' = Firms!Known /\ Firms!GstinsDiffer' /\ Firms!WorkspacesExist'
    BY <1>1, <2>1, SameCompanies, WorkspacesStay
  <2>3. QED
    BY <1>1, <2>1, <2>2, FirmsEndKeeps DEF Firms!IInv, Firms!TypeOK
<1>4. CASE Firms!Available(j.gstin, j.company)
  <2>1. company' = [company EXCEPT ![j.company].gstin = j.gstin]
    BY <1>4 DEF Firms!UpdateCommit
  <2>2. company' \in [CompanyIds -> Firms!CompanyRow]
    BY <1>2, <2>1 DEF Firms!IInv, Firms!TypeOK, Firms!CompanyRow
  <2>3. \A c \in CompanyIds : c # j.company => company'[c] = company[c]
    BY <1>2, <2>1 DEF Firms!IInv, Firms!TypeOK
  <2>4. company'[j.company].gstin = j.gstin /\ company'[j.company].state = company[j.company].state
        /\ company'[j.company].workspace = company[j.company].workspace
    BY <1>2, <2>1 DEF Firms!IInv, Firms!TypeOK, Firms!CompanyRow
  <2>5. Firms!Known' = Firms!Known
    BY <2>3, <2>4 DEF Firms!Known
  <2>6. Firms!WorkspacesExist'
    BY <1>1, <1>2, <2>3, <2>4 DEF Firms!IInv, Firms!WorkspacesExist, Firms!Known
  <2>7. Firms!GstinsDiffer'
    <3>1. \A x \in Firms!Known \ {j.company} : j.gstin = NoOne \/ company[x].gstin # j.gstin
      BY <1>4 DEF Firms!Available
    <3>2. \A x, y \in Firms!Known : x # y => company[x].gstin = NoOne \/ company[y].gstin # company[x].gstin
      BY DEF Firms!IInv, Firms!GstinsDiffer, Firms!Available
    <3>3. \A x, y \in Firms!Known' : x # y => company'[x].gstin = NoOne \/ company'[y].gstin # company'[x].gstin
      BY <2>3, <2>4, <2>5, <3>1, <3>2 DEF Firms!Known
    <3>4. QED
      BY <3>3 DEF Firms!GstinsDiffer, Firms!Available
  <2> HIDE DEF j
  <2>8. QED
    BY <1>1, <2>2, <2>5, <2>6, <2>7, FirmsEndKeeps DEF Firms!IInv, Firms!TypeOK
<1>5. QED
  BY <1>3, <1>4

LEMMA ArchiveCommitKeeps ==
  ASSUME Firms!CompaniesAssumption, Firms!IInv, NEW q \in Requests, Firms!ArchiveCommit(q)
  PROVE  Firms!IInv'
<1> DEFINE c == job[q].company
<1>1. Firms!End(q, "archive") /\ UNCHANGED <<workspace, staff, sites>>
  BY DEF Firms!ArchiveCommit
<1>2. c \in Firms!Known /\ c \in CompanyIds
  BY <1>1 DEF Firms!IInv, Firms!Going, Firms!End, Firms!Known
<1>3. company' = [company EXCEPT ![c].state = "archived"]
  BY DEF Firms!ArchiveCommit
<1>4. company' \in [CompanyIds -> Firms!CompanyRow]
  BY <1>2, <1>3 DEF Firms!IInv, Firms!TypeOK, Firms!CompanyRow
<1>5. \A x \in CompanyIds : x # c => company'[x] = company[x]
  BY <1>2, <1>3 DEF Firms!IInv, Firms!TypeOK
<1>6. company'[c].state = "archived" /\ company'[c].gstin = company[c].gstin
      /\ company'[c].workspace = company[c].workspace
  BY <1>2, <1>3 DEF Firms!IInv, Firms!TypeOK, Firms!CompanyRow
<1>7. Firms!Known' = Firms!Known
  BY <1>2, <1>5, <1>6 DEF Firms!Known
<1>8. Firms!WorkspacesExist'
  BY <1>1, <1>2, <1>5, <1>6 DEF Firms!IInv, Firms!WorkspacesExist, Firms!Known
<1>9. \A x \in CompanyIds : company'[x].gstin = company[x].gstin
  BY <1>5, <1>6
<1>10. Firms!GstinsDiffer'
  BY <1>7, <1>9 DEF Firms!IInv, Firms!GstinsDiffer, Firms!Available, Firms!Known
<1> HIDE DEF c
<1>11. QED
  BY <1>1, <1>4, <1>7, <1>8, <1>10, FirmsEndKeeps DEF Firms!IInv, Firms!TypeOK

LEMMA SetBranchKeeps ==
  ASSUME Firms!CompaniesAssumption, Firms!IInv, NEW c \in CompanyIds, NEW code \in BranchCodes,
         \/ \E state \in {"none", "active", "inactive"} : Firms!SetBranch(c, code, state)
         \/ \E other \in BranchCodes : Firms!RenameBranch(c, code, other)
  PROVE  Firms!IInv'
<1>1. sites' \in [CompanyIds -> [BranchCodes -> {"none", "active", "inactive"}]]
  BY DEF Firms!IInv, Firms!TypeOK, Firms!SetBranch, Firms!RenameBranch
<1>2. UNCHANGED <<workspace, company, staff, pc, job>>
  BY DEF Firms!SetBranch, Firms!RenameBranch
<1>3. QED
  BY <1>1, <1>2 DEF Firms!IInv, Firms!TypeOK, Firms!Going, Firms!WorkspacesExist,
     Firms!GstinsDiffer, Firms!Available, Firms!Known

LEMMA FirmsStepInv ==
  ASSUME Firms!CompaniesAssumption PROVE Firms!IInv /\ [Firms!Next]_(Firms!vars) => Firms!IInv'
<1> SUFFICES ASSUME Firms!IInv, [Firms!Next]_(Firms!vars) PROVE Firms!IInv'
  OBVIOUS
<1>1. CASE UNCHANGED Firms!vars
  BY <1>1 DEF Firms!vars, Firms!IInv, Firms!TypeOK, Firms!Going, Firms!WorkspacesExist,
     Firms!GstinsDiffer, Firms!Available, Firms!Known
<1>2. CASE Firms!WorkspaceStep
  BY <1>2, CreateWorkspaceKeeps, UpdateWorkspaceKeeps, RemoveWorkspaceKeeps,
     RemoveWorkspaceCommitKeeps
  DEF Firms!WorkspaceStep
<1>3. ASSUME NEW q \in Requests, Firms!CompanyStep(q) PROVE Firms!IInv'
  <2>1. CASE \E u \in Users, c \in CompanyIds :
               \E w \in Workspaces, gstin \in Gstins \cup {NoOne} : Firms!Create(q, u, c, w, gstin)
    BY <2>1, FirmsCreateKeeps
  <2>2. CASE \E u \in Users, c \in CompanyIds : Firms!Update(q, u, c, FALSE, NoOne)
    BY <2>2, FirmsUpdateKeeps
  <2>3. CASE \E u \in Users, c \in CompanyIds :
               \E gstin \in Gstins \cup {NoOne} : Firms!Update(q, u, c, TRUE, gstin)
    BY <2>3, FirmsUpdateKeeps
  <2>4. CASE \E u \in Users, c \in CompanyIds : Firms!Archive(q, u, c)
    BY <2>4, ArchiveKeeps
  <2>5. QED
    BY <1>3, <2>1, <2>2, <2>3, <2>4, CreateCommitKeeps, UpdateCommitKeeps, ArchiveCommitKeeps
    DEF Firms!CompanyStep
<1>4. CASE \E c \in CompanyIds, code \in BranchCodes :
             \/ \E state \in {"none", "active", "inactive"} : Firms!SetBranch(c, code, state)
             \/ \E other \in BranchCodes : Firms!RenameBranch(c, code, other)
  BY <1>4, SetBranchKeeps
<1>5. QED
  BY <1>1, <1>2, <1>3, <1>4 DEF Firms!Next

\* Companies belong to workspace branches that exist and no two share a GSTIN, whoever makes,
\* changes and archives them at the same time (IInv names WorkspacesExist and GstinsDiffer).
THEOREM FirmsInvariance == ASSUME Firms!CompaniesAssumption PROVE Firms!Spec => []Firms!IInv
<1>1. Firms!Init => Firms!IInv
  BY FirmsInitInv
<1>2. Firms!IInv /\ [Firms!Next]_(Firms!vars) => Firms!IInv'
  BY FirmsStepInv
<1>3. QED
  BY <1>1, <1>2, PTL DEF Firms!Spec

\* Sharing is mutual in every state, whatever led to it.
LEMMA SharingIsMutual == Firms!MastersIsolated
<1> SUFFICES ASSUME NEW c \in Firms!Known, NEW d \in Firms!Known, NEW x \in BranchCodes, NEW y \in BranchCodes,
                    company[c].state = "active", <<d, y>> \in Firms!LogicalBranches(c, x)
             PROVE  /\ <<c, x>> \in Firms!LogicalBranches(d, y)
                    /\ c = d \/ (company[c].workspace = company[d].workspace /\ company[c].workspace # NoOne)
  BY DEF Firms!MastersIsolated
<1>1. d \in Firms!BranchBusinesses(c, x) /\ sites[d][y] = "active"
  BY DEF Firms!LogicalBranches
<1>2. sites[c][x] = "active"
  <2>1. SUFFICES ASSUME sites[c][x] # "active" PROVE FALSE
    OBVIOUS
  <2>2. Firms!BranchBusinesses(c, x) = {}
    BY <2>1 DEF Firms!BranchBusinesses
  <2>3. QED
    BY <1>1, <2>2
<1>3. CASE company[c].workspace = NoOne
  <2>1. Firms!BranchBusinesses(c, x) = {c}
    BY <1>2, <1>3 DEF Firms!BranchBusinesses
  <2>2. d = c
    BY <1>1, <2>1
  <2>3. Firms!BranchBusinesses(d, y) = {c}
    BY <1>1, <1>3, <2>2 DEF Firms!BranchBusinesses
  <2>4. QED
    BY <1>2, <2>2, <2>3 DEF Firms!LogicalBranches
<1>4. CASE company[c].workspace # NoOne
  <2>1. Firms!BranchBusinesses(c, x)
          = {z \in Firms!Known : company[z].state = "active" /\ company[z].workspace = company[c].workspace}
    BY <1>2, <1>4 DEF Firms!BranchBusinesses
  <2>2. company[d].state = "active" /\ company[d].workspace = company[c].workspace
    BY <1>1, <2>1
  <2>3. Firms!BranchBusinesses(d, y)
          = {z \in Firms!Known : company[z].state = "active" /\ company[z].workspace = company[c].workspace}
    BY <1>1, <1>4, <2>2 DEF Firms!BranchBusinesses
  <2>4. c \in Firms!BranchBusinesses(d, y)
    BY <2>3
  <2>5. QED
    BY <1>2, <1>4, <2>2, <2>4 DEF Firms!LogicalBranches
<1>5. QED
  BY <1>3, <1>4

-----------------------------------------------------------------------------
(* Preferences.                                                              *)

\* What is read is valid, and reads back as itself.
LEMMA ReadIsValid ==
  ASSUME Settings!PreferencesAssumption, NEW f \in Fields, NEW value
  PROVE  /\ Settings!Valid(Settings!PreferenceSpec(f), Settings!ReadField(Settings!PreferenceSpec(f), value))
         /\ Settings!ReadField(Settings!PreferenceSpec(f), Settings!ReadField(Settings!PreferenceSpec(f), value))
              = Settings!ReadField(Settings!PreferenceSpec(f), value)
<1> DEFINE spec == Settings!PreferenceSpec(f)
<1>1. Settings!Valid(spec, Settings!Default(spec))
  BY DEF Settings!PreferencesAssumption, Settings!DefaultsAreValid
<1>2. QED
  BY <1>1 DEF Settings!ReadField

LEMMA AllReadsAreValid ==
  ASSUME Settings!PreferencesAssumption PROVE Settings!ReadsAreValid
BY ReadIsValid DEF Settings!ReadsAreValid, Settings!Resolved

LEMMA ThreeFieldRecord ==
  ASSUME NEW x, NEW p, NEW n, NEW o, x = [patch |-> p, next |-> n, overtaken |-> o]
  PROVE  x = [patch |-> x.patch, next |-> x.next, overtaken |-> x.overtaken]
<1>1. x.patch = p /\ x.next = n /\ x.overtaken = o
  OBVIOUS
<1>2. QED
  BY <1>1

LEMMA SettingsInitInv == Settings!Init => Settings!IInv
BY DEF Settings!Init, Settings!IInv, Settings!TypeOK, Settings!NoSave

LEMMA SettingsReadKeeps ==
  ASSUME Settings!IInv, NEW q \in Requests, Settings!Read(q)
  PROVE  Settings!IInv'
<1>0. PICK F \in SUBSET Fields : \E patch \in [F -> Settings!Values] :
        /\ Settings!Accepted(patch)
        /\ job' = [job EXCEPT ![q] = [patch |-> patch, overtaken |-> FALSE,
             next |-> [f \in Fields |-> IF f \in F THEN patch[f] ELSE Settings!Resolved[f]]]]
  BY DEF Settings!Read
<1>1. PICK patch \in [F -> Settings!Values] :
        /\ Settings!Accepted(patch)
        /\ job' = [job EXCEPT ![q] = [patch |-> patch, overtaken |-> FALSE,
             next |-> [f \in Fields |-> IF f \in F THEN patch[f] ELSE Settings!Resolved[f]]]]
  BY <1>0
<1> DEFINE next == [f \in Fields |-> IF f \in F THEN patch[f] ELSE Settings!Resolved[f]]
<1>2. pc' = [pc EXCEPT ![q] = "write"] /\ stored' = stored
  BY DEF Settings!Read
<1>3. DOMAIN job = Requests
  BY DEF Settings!IInv, Settings!TypeOK
<1>4. /\ job'[q] = [patch |-> patch, overtaken |-> FALSE, next |-> next]
      /\ \A r \in Requests : r # q => job'[r] = job[r] /\ pc'[r] = pc[r]
  BY <1>1, <1>2, <1>3 DEF Settings!IInv, Settings!TypeOK
<1>5. job'[q].patch = patch /\ job'[q].next = next /\ job'[q].overtaken = FALSE
  BY <1>4
<1>6. Settings!Resolved' = Settings!Resolved
  BY <1>2 DEF Settings!Resolved
<1>7. Settings!TypeOK'
  <2>1. pc' \in [Requests -> {"idle", "write"}]
    BY <1>2 DEF Settings!IInv, Settings!TypeOK
  <2>2. job' = [r \in Requests |-> job'[r]]
    BY <1>1, <1>3
  <2>3. \A r \in Requests : job'[r] = [patch |-> job'[r].patch, next |-> job'[r].next,
                                       overtaken |-> job'[r].overtaken]
    <3>1. job'[q] = [patch |-> job'[q].patch, next |-> job'[q].next, overtaken |-> job'[q].overtaken]
      BY <1>4, <1>5
    <3>2. \A r \in Requests : job[r] = [patch |-> job[r].patch, next |-> job[r].next,
                                        overtaken |-> job[r].overtaken]
      BY DEF Settings!IInv, Settings!TypeOK
    <3>3. QED
      BY <1>4, <3>1, <3>2
  <2>4. QED
    BY <2>1, <2>2, <2>3 DEF Settings!TypeOK
<1>8. Settings!Saving(q)'
  <2>1. DOMAIN patch = F
    OBVIOUS
  <2>2. \A f \in Fields : next[f] = IF f \in F THEN patch[f] ELSE Settings!Resolved[f]
    OBVIOUS
  <2> HIDE DEF next
  <2>3. QED
    BY <1>1, <1>5, <1>6, <2>1, <2>2 DEF Settings!Saving
<1>9. \A r \in Requests : r # q /\ pc'[r] = "write" => Settings!Saving(r)'
  <2>1. ASSUME NEW r \in Requests, r # q, pc'[r] = "write"
        PROVE  Settings!Saving(r)'
    <3>1. Settings!Saving(r) /\ job'[r] = job[r]
      BY <1>4, <2>1 DEF Settings!IInv
    <3>2. QED
      BY <1>6, <3>1 DEF Settings!Saving
  <2>2. QED
    BY <2>1
<1>10. QED
  BY <1>7, <1>8, <1>9 DEF Settings!IInv

LEMMA SettingsWriteKeeps ==
  ASSUME Settings!IInv, NEW q \in Requests, Settings!Write(q)
  PROVE  Settings!IInv'
<1>1. /\ pc' = [pc EXCEPT ![q] = "idle"]
      /\ job' = [r \in Requests |-> IF r = q THEN Settings!NoSave ELSE [job[r] EXCEPT !.overtaken = (pc[r] = "write")]]
  BY DEF Settings!Write, Settings!Written
<1>2. \A r \in Requests : job[r] = [patch |-> job[r].patch, next |-> job[r].next,
                                    overtaken |-> job[r].overtaken]
  BY DEF Settings!IInv, Settings!TypeOK
<1>3. ASSUME NEW r \in Requests, r # q
      PROVE  job'[r] = [patch |-> job[r].patch, next |-> job[r].next, overtaken |-> (pc[r] = "write")]
  <2>1. PICK p, n, o : job[r] = [patch |-> p, next |-> n, overtaken |-> o]
    BY <1>2
  <2>2. job'[r] = [job[r] EXCEPT !.overtaken = (pc[r] = "write")]
    BY <1>1, <1>3
  <2>3. job'[r] = [patch |-> p, next |-> n, overtaken |-> (pc[r] = "write")]
    BY <2>1, <2>2
  <2>4. QED
    BY <2>1, <2>3
<1>4. Settings!TypeOK'
  <2>1. pc' \in [Requests -> {"idle", "write"}]
    BY <1>1 DEF Settings!IInv, Settings!TypeOK
  <2>2. job' = [r \in Requests |-> job'[r]]
    BY <1>1
  <2>3. ASSUME NEW r \in Requests
        PROVE  job'[r] = [patch |-> job'[r].patch, next |-> job'[r].next,
                          overtaken |-> job'[r].overtaken]
    <3>1. CASE r = q
      <4>1. job'[r] = Settings!NoSave
        BY <1>1, <3>1
      <4>2. Settings!NoSave = [patch |-> Settings!NoSave.patch, next |-> Settings!NoSave.next, overtaken |-> Settings!NoSave.overtaken]
        BY DEF Settings!NoSave
      <4>3. QED
        BY <4>1, <4>2
    <3>2. CASE r # q
      <4>1. PICK p, n, o : job'[r] = [patch |-> p, next |-> n, overtaken |-> o]
        <5>1. job'[r] = [patch |-> job[r].patch, next |-> job[r].next, overtaken |-> (pc[r] = "write")]
          BY <1>3, <3>2
        <5>2. PICK o : o = (pc[r] = "write")
          OBVIOUS
        <5>3. job'[r] = [patch |-> job[r].patch, next |-> job[r].next, overtaken |-> o]
          BY <5>1, <5>2
        <5>4. QED
          BY <5>3
      <4>2. QED
        BY <4>1, ThreeFieldRecord
    <3>3. QED
      BY <3>1, <3>2
  <2>4. QED
    BY <2>1, <2>2, <2>3 DEF Settings!TypeOK
<1>5. ASSUME NEW r \in Requests, pc'[r] = "write"
      PROVE  Settings!Saving(r)'
  <2>1. r # q /\ pc[r] = "write"
    BY <1>1, <1>5 DEF Settings!IInv, Settings!TypeOK
  <2>2. job'[r] = [patch |-> job[r].patch, next |-> job[r].next, overtaken |-> TRUE]
    <3>1. (pc[r] = "write") = TRUE
      BY <2>1
    <3>2. job'[r] = [patch |-> job[r].patch, next |-> job[r].next, overtaken |-> (pc[r] = "write")]
      BY <1>3, <2>1
    <3>3. QED
      BY <3>1, <3>2
  <2>3. Settings!Saving(r)
    BY <2>1 DEF Settings!IInv
  <2>4. job'[r].patch = job[r].patch /\ job'[r].next = job[r].next /\ job'[r].overtaken
    BY <2>2
  <2>5. QED
    BY <2>3, <2>4 DEF Settings!Saving, Settings!Accepted
<1>6. QED
  BY <1>4, <1>5 DEF Settings!IInv

LEMMA SettingsStepInv == Settings!IInv /\ [Settings!Next]_(Settings!vars) => Settings!IInv'
<1> SUFFICES ASSUME Settings!IInv, [Settings!Next]_(Settings!vars) PROVE Settings!IInv'
  OBVIOUS
<1>1. CASE UNCHANGED Settings!vars
  BY <1>1 DEF Settings!vars, Settings!IInv, Settings!TypeOK, Settings!Saving, Settings!Resolved
<1>2. QED
  BY <1>1, SettingsReadKeeps, SettingsWriteKeeps DEF Settings!Next

LEMMA WriteSaves ==
  ASSUME Settings!PreferencesAssumption, Settings!IInv, [Settings!Next]_(Settings!vars)
  PROVE  Settings!SavesKeepTheRestStep
<1> SUFFICES ASSUME NEW q \in Requests, pc[q] = "write", pc'[q] = "idle", NEW f \in Fields
             PROVE  IF f \in DOMAIN job[q].patch THEN Settings!Resolved'[f] = job[q].patch[f]
                    ELSE job[q].overtaken \/ Settings!Resolved'[f] = Settings!Resolved[f]
  BY DEF Settings!SavesKeepTheRestStep
<1>1. Settings!Write(q)
  <2>1. PICK r \in Requests : Settings!Read(r) \/ Settings!Write(r)
    BY DEF Settings!Next, Settings!vars
  <2>2. ~Settings!Read(r)
    BY DEF Settings!Read, Settings!IInv, Settings!TypeOK
  <2>3. r = q
    BY <2>1, <2>2 DEF Settings!Write, Settings!Written, Settings!IInv, Settings!TypeOK
  <2>4. QED
    BY <2>1, <2>2, <2>3
<1>2. stored' = job[q].next
  BY <1>1 DEF Settings!Write, Settings!Written
<1>3. Settings!Resolved'[f] = Settings!ReadField(Settings!PreferenceSpec(f), job[q].next[f])
  BY <1>2 DEF Settings!Resolved
<1>4. Settings!Saving(q)
  BY DEF Settings!IInv
<1>5. CASE f \in DOMAIN job[q].patch
  BY <1>3, <1>4, <1>5 DEF Settings!Saving, Settings!Accepted
<1>6. CASE f \notin DOMAIN job[q].patch
  <2>1. Settings!Resolved[f] = Settings!ReadField(Settings!PreferenceSpec(f), stored[f])
    BY DEF Settings!Resolved
  <2>2. Settings!ReadField(Settings!PreferenceSpec(f), Settings!Resolved[f]) = Settings!Resolved[f]
    BY <2>1, ReadIsValid
  <2>3. QED
    BY <1>3, <1>4, <1>6, <2>2 DEF Settings!Saving
<1>7. QED
  BY <1>5, <1>6

\* A save is read back as it was sent and leaves the rest unless it is overtaken, and whatever
\* the column holds only valid values are read from it.
THEOREM SavesAreKept ==
  ASSUME Settings!PreferencesAssumption
  PROVE  Settings!Spec => Settings!SavesKeepTheRest /\ []Settings!ReadsAreValid
<1>1. Settings!Init => Settings!IInv
  BY SettingsInitInv
<1>2. Settings!IInv /\ [Settings!Next]_(Settings!vars) => Settings!IInv'
  BY SettingsStepInv
<1>3. Settings!IInv /\ [Settings!Next]_(Settings!vars) => [Settings!SavesKeepTheRestStep]_(Settings!vars)
  BY WriteSaves
<1>4. Settings!ReadsAreValid
  BY AllReadsAreValid
<1>5. QED
  BY <1>1, <1>2, <1>3, <1>4, PTL DEF Settings!Spec, Settings!SavesKeepTheRest

-----------------------------------------------------------------------------
(* Customers and suppliers.                                                  *)

LEMMA KnownKinds == \A c : People!Counted(c) \subseteq People!Kinds
BY DEF People!Counted, People!Kinds

LEMMA PeopleInitInv ==
  ASSUME People!ContactsAssumption PROVE People!Init => People!IInv
<1> SUFFICES ASSUME People!Init PROVE People!IInv
  OBVIOUS
<1>1. People!TypeOK
  BY DEF People!Init, People!TypeOK, People!Row, People!JobRow, People!Idle, People!NoPaper,
     People!GstTypes, People!Kinds
<1>2. \A p \in Papers : paper[p].of \notin People!Contact
  BY DEF People!Init, People!NoPaper, People!Contact, People!ContactsAssumption
<1>3. \A q \in Requests : pc[q] = "idle"
  BY DEF People!Init
<1>4. QED
  BY <1>1, <1>2, <1>3 DEF People!IInv, People!PapersCount, People!Going,
     People!CountedPapersCrossed, People!OnlyCrossingPapersAreLeft

-----------------------------------------------------------------------------
\* A request reads its contact.
LEMMA PeopleReadKeeps ==
  ASSUME People!ContactsAssumption, People!IInv, NEW q \in Requests, NEW c \in People!Contact, NEW sent \in People!JobRow,
         People!FindOne(q, c, sent),
         sent.op = "paper" => sent.paper \in Papers /\ sent.kind \in People!Counted(c)
  PROVE  People!IInv'
<1> DEFINE j == [sent EXCEPT !.of = c, !.seen = contact[c]]
<1>1. /\ pc[q] = "idle" /\ ~contact[c].deleted
      /\ pc' = [pc EXCEPT ![q] = "read"] /\ job' = [job EXCEPT ![q] = j]
      /\ UNCHANGED <<contact, paper, crossed>>
  BY DEF People!FindOne
<1>2. contact[c] \in People!Row
  BY DEF People!IInv, People!TypeOK
<1>3. /\ j \in People!JobRow /\ j.of = c /\ j.seen = contact[c]
      /\ j.op = sent.op /\ j.paper = sent.paper /\ j.kind = sent.kind
  BY <1>2 DEF People!JobRow
<1> HIDE DEF j
<1>4. People!TypeOK'
  BY <1>1, <1>3 DEF People!IInv, People!TypeOK
<1>5. /\ pc'[q] = "read" /\ job'[q] = j
      /\ \A r \in Requests : r # q => pc'[r] = pc[r] /\ job'[r] = job[r]
  BY <1>1 DEF People!IInv, People!TypeOK
<1>6. People!Going(q)'
  BY <1>1, <1>3, <1>5 DEF People!Going
<1>7. \A r \in Requests : r # q => People!Going(r)'
  BY <1>5 DEF People!IInv, People!Going
<1>8. People!CountedPapersCrossed'
  BY <1>1, <1>5 DEF People!IInv, People!CountedPapersCrossed
<1>9. People!PapersCount' /\ People!OnlyCrossingPapersAreLeft'
  BY <1>1 DEF People!IInv, People!PapersCount, People!OnlyCrossingPapersAreLeft
<1>10. QED
  BY <1>4, <1>6, <1>7, <1>8, <1>9 DEF People!IInv

\* A request is done.
LEMMA DoneKeeps ==
  ASSUME People!IInv, NEW q \in Requests, People!Done(q)
  PROVE  /\ pc' \in [Requests -> {"idle", "read", "counted"}] /\ job' \in [Requests -> People!JobRow]
         /\ pc'[q] = "idle"
         /\ \A r \in Requests : r # q => pc'[r] = pc[r] /\ job'[r] = job[r]
         /\ \A r \in Requests : People!Going(r)'
<1>1. People!Idle \in People!JobRow
  BY DEF People!Idle, People!JobRow, People!Row
<1>2. pc' \in [Requests -> {"idle", "read", "counted"}] /\ job' \in [Requests -> People!JobRow]
  BY <1>1 DEF People!Done, People!IInv, People!TypeOK
<1>3. pc'[q] = "idle" /\ \A r \in Requests : r # q => pc'[r] = pc[r] /\ job'[r] = job[r]
  BY DEF People!Done, People!IInv, People!TypeOK
<1>4. \A r \in Requests : People!Going(r)'
  BY <1>3 DEF People!IInv, People!Going
<1>5. QED
  BY <1>2, <1>3, <1>4

\* A request that wrote something about its contact, and deletes nothing, is done.
LEMMA EditKeeps ==
  ASSUME People!IInv, NEW q \in Requests, People!Done(q), UNCHANGED <<paper, crossed>>,
         contact' \in [People!Contact -> People!Row],
         \A c \in People!Contact : contact'[c].deleted => contact[c].deleted
  PROVE  People!IInv'
<1>1. /\ People!TypeOK' /\ pc'[q] = "idle" /\ \A r \in Requests : People!Going(r)'
      /\ \A r \in Requests : r # q => pc'[r] = pc[r] /\ job'[r] = job[r]
  BY DoneKeeps DEF People!IInv, People!TypeOK
<1>2. People!CountedPapersCrossed'
  BY <1>1 DEF People!IInv, People!CountedPapersCrossed
<1>3. People!PapersCount' /\ People!OnlyCrossingPapersAreLeft'
  BY DEF People!IInv, People!PapersCount, People!OnlyCrossingPapersAreLeft
<1>4. QED
  BY <1>1, <1>2, <1>3 DEF People!IInv

LEMMA WritePartyKeeps ==
  ASSUME People!IInv, NEW q \in Requests, People!WriteParty(q)
  PROVE  People!IInv'
<1> DEFINE c == job[q].of
<1>1. People!Done(q) /\ UNCHANGED <<paper, crossed>> /\ c \in People!Contact
  BY DEF People!WriteParty, People!Contact
<1>2. job[q] \in People!JobRow
  BY DEF People!IInv, People!TypeOK
<1> DEFINE goesBy == IF job[q].type = "none" THEN job[q].seen.gstType ELSE job[q].type
           type == IF job[q].type = "none" THEN contact[c].gstType ELSE job[q].type
           kept == IF job[q].gstin # NoOne THEN job[q].gstin ELSE contact[c].gstin
           gstin == IF People!UsesGstin(goesBy) THEN kept ELSE NoOne
<1>3. contact' = [contact EXCEPT ![c].gstType = type, ![c].gstin = gstin]
  BY DEF People!WriteParty
<1>4. type \in People!GstTypes \cup {"none"} /\ gstin \in PartyGstins \cup {NoOne}
  <2>1. contact[c].gstType \in People!GstTypes \cup {"none"} /\ contact[c].gstin \in PartyGstins \cup {NoOne}
    BY <1>1 DEF People!IInv, People!TypeOK, People!Row
  <2>2. job[q].type \in People!GstTypes \cup {"none"} /\ job[q].gstin \in PartyGstins \cup {NoOne}
    BY <1>2 DEF People!JobRow
  <2>3. QED
    BY <2>1, <2>2
<1> HIDE DEF type, gstin, kept, goesBy
<1> HIDE DEF c
<1>5. contact' \in [People!Contact -> People!Row] /\ \A x \in People!Contact : contact'[x].deleted = contact[x].deleted
  <2> DEFINE mid == [contact EXCEPT ![c].gstType = type]
  <2>1. mid \in [People!Contact -> People!Row] /\ \A x \in People!Contact : mid[x].deleted = contact[x].deleted
    BY <1>1, <1>4 DEF People!IInv, People!TypeOK, People!Row
  <2>2. contact' = [mid EXCEPT ![c].gstin = gstin]
    BY <1>3
  <2> HIDE DEF mid
  <2>3. QED
    BY <1>1, <1>4, <2>1, <2>2 DEF People!Row
<1>6. QED
  BY <1>1, <1>5, EditKeeps

LEMMA WriteSupplierKeeps ==
  ASSUME People!IInv, NEW q \in Requests, People!WriteSupplier(q)
  PROVE  People!IInv'
<1> DEFINE c == job[q].of
<1>1. People!Done(q) /\ UNCHANGED <<paper, crossed>> /\ c \in People!Contact
  BY DEF People!WriteSupplier, People!Contact
<1>2. job[q] \in People!JobRow
  BY DEF People!IInv, People!TypeOK
<1>3. PICK gstin \in PartyGstins \cup {NoOne} : contact' = [contact EXCEPT ![c].gstin = gstin]
  <2>1. contact[c].gstin \in PartyGstins \cup {NoOne} /\ job[q].gstin \in PartyGstins \cup {NoOne}
    BY <1>1, <1>2 DEF People!IInv, People!TypeOK, People!Row, People!JobRow
  <2>2. QED
    BY <1>1, <2>1 DEF People!WriteSupplier, People!IInv, People!TypeOK
<1> HIDE DEF c
<1>4. contact' \in [People!Contact -> People!Row] /\ \A x \in People!Contact : contact'[x].deleted = contact[x].deleted
  BY <1>1, <1>3 DEF People!IInv, People!TypeOK, People!Row
<1>5. QED
  BY <1>1, <1>4, EditKeeps

LEMMA CountKeeps ==
  ASSUME People!ContactsAssumption, People!IInv, NEW q \in Requests, People!CountLinked(q)
  PROVE  People!IInv'
<1> DEFINE c == job[q].of
           linked == \E p \in Papers : paper[p].of = c /\ paper[p].kind \in People!Counted(c)
<1>1. UNCHANGED <<contact, paper, crossed>> /\ pc[q] = "read"
  BY DEF People!CountLinked
<1>2. CASE linked
  <2>1. People!Done(q)
    BY <1>2 DEF People!CountLinked
  <2>2. QED
    BY <1>1, <2>1, EditKeeps DEF People!IInv, People!TypeOK
<1>3. CASE ~linked
  <2>1. pc' = [pc EXCEPT ![q] = "counted"] /\ job' = job
    BY <1>3 DEF People!CountLinked
  <2>2. c \in People!Contact
    BY <1>1 DEF People!IInv, People!Going
  <2>3. \A p \in Papers : paper[p].of # c
    BY <1>3, <2>2 DEF People!IInv, People!PapersCount
  <2>4. People!TypeOK'
    BY <1>1, <2>1 DEF People!IInv, People!TypeOK
  <2>5. pc'[q] = "counted" /\ \A r \in Requests : r # q => pc'[r] = pc[r]
    BY <2>1 DEF People!IInv, People!TypeOK
  <2>6. \A r \in Requests : People!Going(r)'
    BY <1>1, <2>1, <2>5 DEF People!IInv, People!Going
  <2>7. People!CountedPapersCrossed'
    BY <1>1, <2>1, <2>3, <2>5 DEF People!IInv, People!CountedPapersCrossed
  <2>8. People!PapersCount' /\ People!OnlyCrossingPapersAreLeft'
    BY <1>1 DEF People!IInv, People!PapersCount, People!OnlyCrossingPapersAreLeft
  <2>9. QED
    BY <2>4, <2>6, <2>7, <2>8 DEF People!IInv
<1>4. QED
  BY <1>2, <1>3

LEMMA MarkKeeps ==
  ASSUME People!ContactsAssumption, People!IInv, NEW q \in Requests, People!MarkDeleted(q)
  PROVE  People!IInv'
<1> DEFINE c == job[q].of
<1>1. /\ People!Done(q) /\ UNCHANGED <<paper, crossed>> /\ pc[q] = "counted"
      /\ contact' = [contact EXCEPT ![c].deleted = TRUE]
  BY DEF People!MarkDeleted
<1>2. c \in People!Contact
  BY <1>1 DEF People!IInv, People!Going
<1>3. contact' \in [People!Contact -> People!Row] /\ \A x \in People!Contact : x # c => contact'[x] = contact[x]
  BY <1>1, <1>2 DEF People!IInv, People!TypeOK, People!Row
<1>4. /\ People!TypeOK' /\ pc'[q] = "idle" /\ \A r \in Requests : People!Going(r)'
      /\ \A r \in Requests : r # q => pc'[r] = pc[r] /\ job'[r] = job[r]
  BY <1>1, <1>3, DoneKeeps DEF People!IInv, People!TypeOK
<1>5. People!CountedPapersCrossed'
  BY <1>1, <1>4 DEF People!IInv, People!CountedPapersCrossed
<1>6. People!OnlyCrossingPapersAreLeft'
  BY <1>1, <1>3 DEF People!IInv, People!CountedPapersCrossed, People!OnlyCrossingPapersAreLeft
<1>7. People!PapersCount'
  BY <1>1 DEF People!IInv, People!PapersCount
<1>8. QED
  BY <1>4, <1>5, <1>6, <1>7 DEF People!IInv

LEMMA PeopleCommitKeeps ==
  ASSUME People!ContactsAssumption, People!IInv, NEW q \in Requests, People!CommitPaper(q)
  PROVE  People!IInv'
<1> DEFINE c == job[q].of
           p == job[q].paper
           row == [of |-> c, kind |-> job[q].kind]
<1>1. /\ People!Done(q) /\ UNCHANGED contact /\ pc[q] = "read" /\ job[q].op = "paper"
      /\ paper' = [paper EXCEPT ![p] = row]
      /\ crossed' = IF People!Crosses(q) THEN crossed \cup {p} ELSE crossed \ {p}
  BY DEF People!CommitPaper
<1>2. c \in People!Contact /\ ~job[q].seen.deleted /\ p \in Papers /\ job[q].kind \in People!Counted(c)
  BY <1>1 DEF People!IInv, People!Going
<1>3. /\ paper' \in [Papers -> [of : People!Contact \cup {NoOne}, kind : People!Kinds \cup {"none"}]]
      /\ paper'[p].of = c /\ paper'[p].kind = job[q].kind
      /\ \A x \in Papers : x # p => paper'[x] = paper[x]
  BY <1>1, <1>2, KnownKinds DEF People!IInv, People!TypeOK
<1>4. crossed' \subseteq Papers /\ (\A x \in Papers : x # p => (x \in crossed' <=> x \in crossed))
      /\ (p \in crossed' <=> People!Crosses(q))
  BY <1>1, <1>2 DEF People!IInv, People!TypeOK
<1>5. People!Crosses(q) <=> \/ contact[c].deleted
                            \/ \E r \in Requests : pc[r] = "counted" /\ job[r].of = c
  BY <1>2 DEF People!Crosses
<1>6. /\ People!TypeOK' /\ pc'[q] = "idle" /\ \A r \in Requests : People!Going(r)'
      /\ \A r \in Requests : r # q => pc'[r] = pc[r] /\ job'[r] = job[r]
  BY <1>1, <1>3, <1>4, DoneKeeps DEF People!IInv, People!TypeOK
<1> HIDE DEF p, c, row
<1>7. People!PapersCount'
  BY <1>2, <1>3 DEF People!IInv, People!PapersCount
<1>8. People!CountedPapersCrossed'
  BY <1>3, <1>4, <1>5, <1>6 DEF People!IInv, People!CountedPapersCrossed
<1>9. People!OnlyCrossingPapersAreLeft'
  BY <1>1, <1>3, <1>4, <1>5 DEF People!IInv, People!OnlyCrossingPapersAreLeft
<1>10. QED
  BY <1>6, <1>7, <1>8, <1>9 DEF People!IInv

LEMMA RemoveCostKeeps ==
  ASSUME People!ContactsAssumption, People!IInv, NEW p \in Papers, People!RemoveCost(p)
  PROVE  People!IInv'
<1>1. paper' = [paper EXCEPT ![p] = People!NoPaper] /\ UNCHANGED <<contact, pc, job, crossed>>
  BY DEF People!RemoveCost
<1>2. People!NoPaper.of = NoOne /\ People!NoPaper.of \notin People!Contact
      /\ People!NoPaper \in [of : People!Contact \cup {NoOne}, kind : People!Kinds \cup {"none"}]
  BY DEF People!NoPaper, People!Contact, People!ContactsAssumption
<1>3. People!TypeOK'
  BY <1>1, <1>2 DEF People!IInv, People!TypeOK
<1>4. \A x \in Papers : paper'[x] = paper[x] \/ paper'[x].of \notin People!Contact
  BY <1>1, <1>2 DEF People!IInv, People!TypeOK
<1>5. \A q \in Requests : People!Going(q)'
  BY <1>1 DEF People!IInv, People!Going
<1>6. People!CountedPapersCrossed'
  BY <1>1, <1>4 DEF People!IInv, People!CountedPapersCrossed, People!Going
<1>7. People!PapersCount' /\ People!OnlyCrossingPapersAreLeft'
  BY <1>1, <1>4 DEF People!IInv, People!PapersCount, People!OnlyCrossingPapersAreLeft
<1>8. QED
  BY <1>3, <1>5, <1>6, <1>7 DEF People!IInv

LEMMA PeopleUpdateKeeps ==
  ASSUME People!ContactsAssumption, People!IInv, NEW q \in Requests, NEW c \in People!Contact,
         NEW type \in People!GstTypes \cup {"none"}, NEW gstin \in PartyGstins \cup {NoOne}, People!Update(q, c, type, gstin)
  PROVE  People!IInv'
<1> DEFINE sent == [People!Idle EXCEPT !.op = "update", !.type = type, !.gstin = gstin]
<1>1. sent \in People!JobRow /\ sent.op = "update"
  BY DEF People!Idle, People!JobRow, People!Row
<1>2. People!FindOne(q, c, sent)
  BY DEF People!Update
<1> HIDE DEF sent
<1>3. QED
  BY <1>1, <1>2, PeopleReadKeeps

LEMMA PeopleRemoveKeeps ==
  ASSUME People!ContactsAssumption, People!IInv, NEW q \in Requests, NEW c \in People!Contact, People!Remove(q, c)
  PROVE  People!IInv'
<1> DEFINE sent == [People!Idle EXCEPT !.op = "remove"]
<1>1. sent \in People!JobRow /\ sent.op = "remove"
  BY DEF People!Idle, People!JobRow, People!Row
<1>2. People!FindOne(q, c, sent)
  BY DEF People!Remove
<1> HIDE DEF sent
<1>3. QED
  BY <1>1, <1>2, PeopleReadKeeps

LEMMA PeopleWriteKeeps ==
  ASSUME People!ContactsAssumption, People!IInv, NEW q \in Requests, NEW c \in People!Contact, NEW p \in Papers,
         NEW kind \in People!Kinds, People!Write(q, c, p, kind)
  PROVE  People!IInv'
<1> DEFINE sent == [People!Idle EXCEPT !.op = "paper", !.paper = p, !.kind = kind]
<1>1. sent \in People!JobRow /\ sent.paper = p /\ sent.kind = kind
  BY DEF People!Idle, People!JobRow, People!Row
<1>2. People!FindOne(q, c, sent) /\ kind \in People!Counted(c)
  BY DEF People!Write
<1> HIDE DEF sent
<1>3. QED
  BY <1>1, <1>2, PeopleReadKeeps

LEMMA PeopleStepInv ==
  ASSUME People!ContactsAssumption PROVE People!IInv /\ [People!Next]_(People!vars) => People!IInv'
<1> SUFFICES ASSUME People!IInv, [People!Next]_(People!vars) PROVE People!IInv'
  OBVIOUS
<1>1. CASE UNCHANGED People!vars
  BY <1>1 DEF People!vars, People!IInv, People!TypeOK, People!PapersCount, People!Going,
     People!CountedPapersCrossed, People!OnlyCrossingPapersAreLeft
<1>2. QED
  BY <1>1, PeopleUpdateKeeps, PeopleRemoveKeeps, PeopleWriteKeeps, WritePartyKeeps,
     WriteSupplierKeeps, CountKeeps,
     MarkKeeps, PeopleCommitKeeps, RemoveCostKeeps
  DEF People!Next

\* An edit of a party that ends is its WriteParty.
LEMMA EditFits ==
  ASSUME People!ContactsAssumption, People!IInv, [People!Next]_(People!vars)
  PROVE  People!GstinFitsTypeStep
<1> SUFFICES ASSUME NEW q \in Requests, NEW c \in Parties, pc[q] = "read", job[q].op = "update",
                    job[q].of = c, pc'[q] = "idle", contact[c].gstType = job[q].seen.gstType,
                    contact'[c].gstin # NoOne
             PROVE  People!UsesGstin(contact'[c].gstType)
  BY DEF People!GstinFitsTypeStep
<1>1. pc' # pc /\ c \in People!Contact /\ c \notin Suppliers
  BY DEF People!ContactsAssumption, People!Contact
<1>2. People!Next
  BY <1>1 DEF People!vars
<1>3. \A r \in Requests, x \in People!Contact : \A sent : ~People!FindOne(r, x, sent)
  BY DEF People!FindOne, People!IInv, People!TypeOK
<1>4. PICK r \in Requests : People!WriteParty(r) \/ People!WriteSupplier(r) \/ People!CountLinked(r) \/ People!MarkDeleted(r) \/ People!CommitPaper(r)
  BY <1>1, <1>2, <1>3 DEF People!Next, People!Update, People!Remove, People!Write,
     People!RemoveCost
<1>5. r = q
  BY <1>4 DEF People!WriteParty, People!WriteSupplier, People!CountLinked, People!MarkDeleted,
     People!CommitPaper, People!Done, People!IInv, People!TypeOK
<1>6. People!WriteParty(q)
  BY <1>1, <1>4, <1>5 DEF People!WriteSupplier, People!CountLinked, People!MarkDeleted,
     People!CommitPaper
<1> DEFINE goesBy == IF job[q].type = "none" THEN contact[c].gstType ELSE job[q].type
<1>7. contact'[c].gstType = goesBy /\ (contact'[c].gstin # NoOne => People!UsesGstin(goesBy))
  BY <1>1, <1>6 DEF People!WriteParty, People!IInv, People!TypeOK, People!Row
<1>8. QED
  BY <1>7

\* The papers about a removed contact come from requests that crossed its removal (IInv names
\* OnlyCrossingPapersAreLeft).
THEOREM PeopleInvariance == ASSUME People!ContactsAssumption PROVE People!Spec => []People!IInv
<1>1. People!Init => People!IInv
  BY PeopleInitInv
<1>2. People!IInv /\ [People!Next]_(People!vars) => People!IInv'
  BY PeopleStepInv
<1>3. QED
  BY <1>1, <1>2, PTL DEF People!Spec

-----------------------------------------------------------------------------
(* Numbers of papers and codes of parties.                                   *)

LEMMA SomeLast ==
  ASSUME NEW C, IsFiniteSet(C), C # {}, NEW above \in [C -> SUBSET C],
         \A s \in C : s \notin above[s],
         \A s, t \in C : t \in above[s] => above[t] \subseteq above[s]
  PROVE  \E s \in C : above[s] = {}
<1> DEFINE T == {above[s] : s \in C}
<1>1. IsWellFoundedOn(StrictSubsetOrdering(C), FiniteSubsetsOf(C))
  BY FS_StrictSubsetOrderingWellFounded
<1>2. T \subseteq FiniteSubsetsOf(C) /\ T # {}
  <2>1. FiniteSubsetsOf(C) = SUBSET C
    BY FS_FiniteSubsetsOfFinite
  <2>2. PICK s \in C : TRUE
    OBVIOUS
  <2>3. above[s] \in T
    BY <2>2
  <2>4. QED
    BY <2>1, <2>3
<1>3. PICK b \in T : \A c \in T : <<c, b>> \notin StrictSubsetOrdering(C)
  BY <1>1, <1>2, WFMin
<1>4. PICK s \in C : b = above[s]
  OBVIOUS
<1>5. SUFFICES ASSUME NEW t \in above[s] PROVE FALSE
  OBVIOUS
<1>6. above[t] \subseteq above[s] /\ t \notin above[t]
  OBVIOUS
<1>7. <<above[t], above[s]>> \in StrictSubsetOrdering(C)
  BY <1>5, <1>6 DEF StrictSubsetOrdering
<1>8. QED
  BY <1>3, <1>4, <1>7

\* The sets counted in Numbering are counted as they are here.
LEMMA SeriesCounts == \A S : Series!Cardinality(S) = Cardinality(S) /\ (Series!IsFiniteSet(S) <=> IsFiniteSet(S))
BY Zenon DEF Series!Cardinality, Cardinality, Series!IsFiniteSet, IsFiniteSet

\* Finitely many numbers have a greatest one.
LEMMA GreatestNumber ==
  ASSUME NEW S \in SUBSET Nat, IsFiniteSet(S), S # {}
  PROVE  \E n \in S : \A m \in S : m <= n
<1> DEFINE above == [n \in S |-> {m \in S : n < m}]
<1>1. above \in [S -> SUBSET S] /\ \A n \in S : n \notin above[n]
  OBVIOUS
<1>2. \A n, m \in S : m \in above[n] => above[m] \subseteq above[n]
  <2>1. \A i, n, m \in Nat : n < m /\ m < i => n < i
    OBVIOUS
  <2>2. QED
    BY <2>1
<1>3. \E n \in S : above[n] = {}
  <2> HIDE DEF above
  <2>1. QED
    BY <1>1, <1>2, SomeLast
<1>4. PICK n \in S : above[n] = {}
  BY <1>3
<1>5. ASSUME NEW m \in S PROVE m <= n
  <2>1. ~(n < m)
    BY <1>4
  <2>2. QED
    BY <2>1
<1>6. QED
  BY <1>5

\* Highest() is an upper bound.
LEMMA HighestBounds ==
  ASSUME NEW S \in SUBSET Nat, IsFiniteSet(S)
  PROVE  Series!Highest(S) \in Nat /\ \A m \in S : m <= Series!Highest(S)
<1>1. IsFiniteSet(S \cup {0}) /\ S \cup {0} \in SUBSET Nat /\ S \cup {0} # {}
  BY FS_AddElement
<1>2. \E n \in S \cup {0} : \A m \in S \cup {0} : m <= n
  <2> DEFINE T == S \cup {0}
  <2>1. IsFiniteSet(T) /\ T \in SUBSET Nat /\ T # {}
    BY <1>1
  <2> HIDE DEF T
  <2>2. \E n \in T : \A m \in T : m <= n
    BY <2>1, GreatestNumber
  <2>3. QED
    BY <2>2 DEF T
<1>3. \E n \in S \cup {0} : \A m \in S : m <= n
  BY <1>2
<1>4. Series!Highest(S) \in S \cup {0} /\ \A m \in S : m <= Series!Highest(S)
  <2> DEFINE Good(n) == \A m \in S : m <= n
             T == S \cup {0}
             h == CHOOSE n \in T : Good(n)
  <2>1. Series!Highest(S) = h
    BY DEF Series!Highest
  <2>2. \E n \in T : Good(n)
    BY <1>3
  <2> HIDE DEF Good, T
  <2>3. h \in T /\ Good(h)
    BY <2>2
  <2> USE DEF Good, T
  <2>4. QED
    BY <2>1, <2>3
<1>5. QED
  BY <1>1, <1>4

-----------------------------------------------------------------------------
LEMMA RegisterNames ==
  ASSUME Series!NumberingAssumption
  PROVE  Registers \subseteq {"invoice", "document", "order", "receipt", "code"} /\ "none" \notin Registers
BY DEF Series!NumberingAssumption

\* The rows of a register are finitely many, and so are their numbers.
LEMMA RowsAreFinite ==
  ASSUME Series!NumberingAssumption
  PROVE  /\ \A R \in SUBSET Rows : IsFiniteSet(R) /\ Cardinality(R) \in Nat
         /\ \A R \in SUBSET Rows : IsFiniteSet(Series!Sequences(R))
<1>1. ASSUME NEW R \in SUBSET Rows
      PROVE  IsFiniteSet(R) /\ Cardinality(R) \in Nat /\ IsFiniteSet(Series!Sequences(R))
  <2>1. IsFiniteSet(R)
    BY FS_Subset, SeriesCounts DEF Series!NumberingAssumption
  <2>2. Cardinality(R) \in Nat
    BY <2>1, FS_CardinalityType
  <2>3. IsFiniteSet({numbered[r].n : r \in R})
    <3> DEFINE f == [r \in R |-> numbered[r].n]
               T == {numbered[r].n : r \in R}
    <3>1. f \in Surjection(R, T)
      BY DEF Surjection
    <3>2. QED
      BY <2>1, <3>1, FS_Surjection
  <2>4. Series!Sequences(R) \in SUBSET {numbered[r].n : r \in R}
    BY DEF Series!Sequences
  <2>5. IsFiniteSet(Series!Sequences(R))
    BY <2>3, <2>4, FS_Subset
  <2>6. QED
    BY <2>1, <2>2, <2>5
<1>2. QED
  BY <1>1

\* The number after the highest is in no numbered.
LEMMA AfterHighestIsFree ==
  ASSUME Series!NumberingAssumption, Series!IInv, NEW R \in SUBSET Rows, \A r \in R : numbered[r].in # "none"
  PROVE  Series!Highest(Series!Sequences(R)) + 1 \in Nat /\ \A r \in R : numbered[r].n # Series!Highest(Series!Sequences(R)) + 1
<1>1. Series!Sequences(R) \in SUBSET Nat
  BY DEF Series!IInv, Series!NumbersAreGiven, Series!Sequences, Series!NumberingAssumption
<1>2. Series!Highest(Series!Sequences(R)) \in Nat /\ \A m \in Series!Sequences(R) : m <= Series!Highest(Series!Sequences(R))
  BY <1>1, RowsAreFinite, HighestBounds
<1>3. ASSUME NEW r \in R, numbered[r].n = Series!Highest(Series!Sequences(R)) + 1
      PROVE  FALSE
  <2>1. numbered[r].n \in Nat
    BY <1>2, <1>3
  <2>2. numbered[r].n \in Series!Sequences(R)
    BY <2>1 DEF Series!Sequences, Series!NumberingAssumption
  <2>3. QED
    BY <1>2, <1>3, <2>2
<1>4. QED
  BY <1>2, <1>3

\* Invoices and documents: as many as there are in the year, and one.
LEMMA CountedIsFree ==
  ASSUME Series!NumberingAssumption, Series!IInv, NEW g \in {"invoice", "document"}, NEW y, NEW r \in Series!Numbered(g, y),
         Typed \subseteq {"code"}
  PROVE  numbered[r].n \in Nat /\ numbered[r].n <= Cardinality(Series!Numbered(g, y))
<1>1. r \in Rows /\ numbered[r].in = g /\ numbered[r].year = y /\ Series!Peers(r) = Series!Numbered(g, y)
  BY DEF Series!Numbered, Series!In, Series!Peers
<1>2. numbered[r].n \in 1 .. Limit
  BY <1>1 DEF Series!IInv, Series!NumbersAreGiven
<1>3. QED
  BY <1>1, <1>2, SeriesCounts DEF Series!IInv, Series!CountsReachNumbers,
     Series!NumberingAssumption

LEMMA DatedAsNumbered ==
  ASSUME Series!NumberingAssumption, Series!IInv, NEW y
  PROVE  {r \in Series!In("document") : numbered[r].dated = y} = Series!Numbered("document", y)
BY DEF Series!IInv, Series!CountsReachNumbers, Series!Numbered, Series!In

LEMMA NextIsFree ==
  ASSUME Series!NumberingAssumption, Series!IInv, Typed \subseteq {"code"},
         NEW g \in Registers, NEW y \in Years
  PROVE  Series!NextSequence(g, y) \in Nat /\ <<y, Series!NextSequence(g, y)>> \notin Series!Used(g)
<1>1. g \in {"invoice", "document", "order", "receipt", "code"}
  BY RegisterNames
<1>2. Series!Numbered(g, y) \in SUBSET Rows /\ Series!In(g) \in SUBSET Rows
  BY DEF Series!Numbered, Series!In
<1>3. \A r \in Series!In(g) : numbered[r].in # "none"
  BY <1>1 DEF Series!In
<1>4. SUFFICES Series!NextSequence(g, y) \in Nat /\ \A r \in Series!Numbered(g, y) : numbered[r].n # Series!NextSequence(g, y)
  BY DEF Series!Used, Series!Numbered
<1>5. CASE g \in {"invoice", "document"}
  <2>1. Series!NextSequence(g, y) = Cardinality(Series!Numbered(g, y)) + 1
    BY <1>5, DatedAsNumbered, SeriesCounts DEF Series!NextSequence
  <2>2. Cardinality(Series!Numbered(g, y)) \in Nat
    BY <1>2, RowsAreFinite
  <2>3. \A r \in Series!Numbered(g, y) : numbered[r].n \in Nat /\ numbered[r].n <= Cardinality(Series!Numbered(g, y))
    BY <1>5, CountedIsFree
  <2>4. QED
    BY <2>1, <2>2, <2>3
<1>6. CASE g = "code"
  <2>1. Series!NextSequence(g, y) = Series!Highest(Series!Sequences(Series!In(g))) + 1
    BY <1>6 DEF Series!NextSequence
  <2>2. Series!NextSequence(g, y) \in Nat /\ \A r \in Series!In(g) : numbered[r].n # Series!NextSequence(g, y)
    BY <1>2, <1>3, <2>1, AfterHighestIsFree
  <2>3. QED
    BY <2>2 DEF Series!Numbered
<1>7. CASE g \in {"order", "receipt"}
  <2>1. Series!NextSequence(g, y) = Series!AfterLatest(g, y)
    BY <1>7 DEF Series!NextSequence
  <2>2. \A r \in Series!Numbered(g, y) : numbered[r].n # Word
    BY <1>7 DEF Series!IInv, Series!NumbersAreGiven, Series!Numbered, Series!In
  <2>3. Series!AfterLatest(g, y) = Series!Highest(Series!Sequences(Series!Numbered(g, y))) + 1
    BY <2>2 DEF Series!AfterLatest
  <2>4. \A r \in Series!Numbered(g, y) : numbered[r].in # "none"
    BY <1>3 DEF Series!Numbered
  <2>5. QED
    BY <1>2, <2>1, <2>3, <2>4, AfterHighestIsFree
<1>8. QED
  BY <1>1, <1>5, <1>6, <1>7

-----------------------------------------------------------------------------
LEMMA SeriesInitInv ==
  ASSUME Series!NumberingAssumption PROVE Series!Init => Series!IInv
<1> SUFFICES ASSUME Series!Init PROVE Series!IInv
  OBVIOUS
<1>1. \A r \in Rows : numbered[r].in = "none"
  BY DEF Series!Init, Series!NoRow
<1>2. Series!TypeOK
  BY DEF Series!Init, Series!TypeOK, Series!NoRow
<1>3. QED
  BY <1>1, <1>2 DEF Series!IInv, Series!NumbersAreGiven, Series!CountsReachNumbers

\* The counts of invoices and documents are those of the rows that stay in their register.
LEMMA SameCounts ==
  ASSUME Series!NumberingAssumption, Series!IInv, numbered' \in [Rows -> [in : Registers \cup {"none"}, year : Years \cup {NoOne},
                       n : 1 .. Limit \cup {Word, NoOne}, dated : Years \cup {NoOne}, gone : BOOLEAN]],
         \A r \in Rows : numbered[r].in \in {"invoice", "document"} \/ numbered'[r].in \in {"invoice", "document"} =>
           numbered'[r].in = numbered[r].in /\ numbered'[r].year = numbered[r].year /\ numbered'[r].n = numbered[r].n
           /\ (numbered[r].in = "document" => numbered'[r].dated = numbered[r].dated)
  PROVE  Series!CountsReachNumbers'
<1>1. ASSUME NEW x \in Rows, numbered'[x].in \in {"invoice", "document"}
      PROVE  /\ numbered'[x].n <= Cardinality(Series!Peers(x)')
             /\ numbered'[x].in = "document" => numbered'[x].dated = numbered'[x].year
  <2>1. numbered'[x].in = numbered[x].in /\ numbered'[x].year = numbered[x].year /\ numbered'[x].n = numbered[x].n
        /\ (numbered[x].in = "document" => numbered'[x].dated = numbered[x].dated)
    BY <1>1
  <2>2. /\ numbered[x].n <= Cardinality(Series!Peers(x))
        /\ numbered[x].in = "document" => numbered[x].dated = numbered[x].year
    BY <1>1, <2>1, SeriesCounts DEF Series!IInv, Series!CountsReachNumbers
  <2>3. Series!Peers(x)' = Series!Peers(x)
    <3>1. ASSUME NEW z \in Rows
          PROVE  numbered'[z].in = numbered'[x].in /\ numbered'[z].year = numbered'[x].year
                 <=> numbered[z].in = numbered[x].in /\ numbered[z].year = numbered[x].year
      BY <1>1, <2>1
    <3>2. QED
      BY <3>1 DEF Series!Peers
  <2>4. QED
    BY <2>1, <2>2, <2>3
<1>2. QED
  BY <1>1, SeriesCounts DEF Series!CountsReachNumbers

LEMMA InsertedKeeps ==
  ASSUME Series!NumberingAssumption, Typed \subseteq {"code"}, Series!IInv,
         NEW r \in Rows, NEW g \in Registers, NEW y \in Years, NEW n, Series!Inserted(r, g, y, n),
         n = Word => g \in Typed,
         g \in {"invoice", "document"} => n = Series!NextSequence(g, y),
         offered' \in 1 .. Limit \cup {NoOne}
  PROVE  Series!IInv'
<1> DEFINE new == [in |-> g, year |-> y, n |-> n, dated |-> y, gone |-> FALSE]
<1>1. numbered[r] = Series!NoRow /\ n \in 1 .. Limit \cup {Word} /\ numbered' = [numbered EXCEPT ![r] = new]
  BY DEF Series!Inserted, Series!Fits
<1>2. new.in = g /\ new.year = y /\ new.n = n /\ new.dated = y
      /\ new \in [in : Registers \cup {"none"}, year : Years \cup {NoOne},
                  n : 1 .. Limit \cup {Word, NoOne}, dated : Years \cup {NoOne}, gone : BOOLEAN]
  BY <1>1
<1> HIDE DEF new
<1>3. Series!TypeOK' /\ numbered'[r] = new /\ \A x \in Rows : x # r => numbered'[x] = numbered[x]
  BY <1>1, <1>2 DEF Series!IInv, Series!TypeOK
<1>4. Series!NumbersAreGiven'
  BY <1>1, <1>2, <1>3 DEF Series!IInv, Series!NumbersAreGiven
<1>5. numbered[r].in = "none" /\ g # "none"
  BY <1>1, RegisterNames DEF Series!NoRow
<1>6. CASE g \notin {"invoice", "document"}
  BY <1>2, <1>3, <1>4, <1>5, <1>6, SameCounts DEF Series!IInv, Series!TypeOK
<1>7. CASE g \in {"invoice", "document"}
  <2>1. Series!Numbered(g, y)' = Series!Numbered(g, y) \cup {r} /\ r \notin Series!Numbered(g, y)
    BY <1>2, <1>3, <1>5, <1>7 DEF Series!Numbered, Series!In
  <2>2. Series!Numbered(g, y) \in SUBSET Rows /\ Series!Numbered(g, y)' \in SUBSET Rows
    BY <2>1 DEF Series!Numbered, Series!In
  <2>3. IsFiniteSet(Series!Numbered(g, y)) /\ Cardinality(Series!Numbered(g, y)) \in Nat
    BY <2>2, RowsAreFinite
  <2>4. Cardinality(Series!Numbered(g, y)') = Cardinality(Series!Numbered(g, y)) + 1
    BY <2>1, <2>3, FS_AddElement
  <2>5. n = Cardinality(Series!Numbered(g, y)) + 1
    BY <1>7, DatedAsNumbered, SeriesCounts DEF Series!NextSequence
  <2>6. ASSUME NEW x \in Rows, numbered'[x].in \in {"invoice", "document"}
        PROVE  /\ numbered'[x].n <= Cardinality(Series!Peers(x)')
               /\ numbered'[x].in = "document" => numbered'[x].dated = numbered'[x].year
    <3>1. CASE x = r
      <4>1. Series!Peers(x)' = Series!Numbered(g, y)'
        BY <1>2, <1>3, <3>1 DEF Series!Peers, Series!Numbered, Series!In
      <4>2. numbered'[x].n = n
        BY <1>2, <1>3, <3>1
      <4>3. numbered'[x].n <= Cardinality(Series!Peers(x)')
        BY <2>3, <2>4, <2>5, <4>1, <4>2
      <4>4. QED
        BY <1>2, <1>3, <3>1, <4>3
    <3>2. CASE x # r
      <4>1. numbered'[x] = numbered[x]
        BY <1>3, <3>2
      <4>2. /\ numbered[x].n <= Cardinality(Series!Peers(x))
            /\ numbered[x].in = "document" => numbered[x].dated = numbered[x].year
        BY <2>6, <4>1, SeriesCounts DEF Series!IInv, Series!CountsReachNumbers
      <4>3. CASE numbered[x].in = g /\ numbered[x].year = y
        <5>1. Series!Peers(x) = Series!Numbered(g, y) /\ Series!Peers(x)' = Series!Numbered(g, y)'
          BY <4>1, <4>3 DEF Series!Peers, Series!Numbered, Series!In
        <5>2. numbered[x].n \in Nat
          <6>1. x \in Series!Numbered(g, y)
            BY <4>3 DEF Series!Numbered, Series!In
          <6>2. QED
            BY <1>7, <6>1, CountedIsFree
        <5>3. numbered[x].n <= Cardinality(Series!Numbered(g, y)) + 1
          BY <2>3, <4>2, <5>1, <5>2
        <5>4. QED
          BY <2>4, <4>1, <4>2, <5>1, <5>3
      <4>4. CASE ~(numbered[x].in = g /\ numbered[x].year = y)
        <5>1. ASSUME NEW z \in Rows
              PROVE  numbered'[z].in = numbered'[x].in /\ numbered'[z].year = numbered'[x].year
                     <=> numbered[z].in = numbered[x].in /\ numbered[z].year = numbered[x].year
          <6>1. CASE z = r
            BY <1>2, <1>3, <1>5, <2>6, <4>1, <4>4, <6>1
          <6>2. CASE z # r
            BY <1>3, <4>1, <6>2
          <6>3. QED
            BY <6>1, <6>2
        <5>2. Series!Peers(x)' = Series!Peers(x)
          BY <5>1 DEF Series!Peers
        <5>3. QED
          BY <4>1, <4>2, <5>2
      <4>5. QED
        BY <4>3, <4>4
    <3>3. QED
      BY <3>1, <3>2
  <2>7. Series!CountsReachNumbers'
    BY <2>6, SeriesCounts DEF Series!CountsReachNumbers
  <2>8. QED
    BY <1>3, <1>4, <2>7 DEF Series!IInv
<1>8. QED
  BY <1>3, <1>4, <1>6, <1>7 DEF Series!IInv

LEMMA RenumberKeeps ==
  ASSUME Series!NumberingAssumption, Typed \subseteq {"code"}, Series!IInv,
         NEW r \in Rows, NEW n \in 1 .. Limit \cup {Word}, Series!Renumber(r, n)
  PROVE  Series!IInv'
<1>1. /\ numbered[r].in = "code" /\ numbered[r].in \in Typed /\ numbered' = [numbered EXCEPT ![r].n = n] /\ offered' = offered
  BY DEF Series!Renumber
<1>2. Series!TypeOK'
  BY <1>1 DEF Series!IInv, Series!TypeOK
<1>3. /\ \A x \in Rows : x # r => numbered'[x] = numbered[x]
      /\ numbered'[r].in = numbered[r].in /\ numbered'[r].year = numbered[r].year /\ numbered'[r].n = n
  BY <1>1 DEF Series!IInv, Series!TypeOK
<1>4. Series!NumbersAreGiven'
  BY <1>1, <1>3 DEF Series!IInv, Series!NumbersAreGiven
<1>5. Series!CountsReachNumbers'
  BY <1>1, <1>2, <1>3, SameCounts DEF Series!TypeOK
<1>6. QED
  BY <1>2, <1>4, <1>5 DEF Series!IInv

LEMMA RedateKeeps ==
  ASSUME Series!NumberingAssumption, "document" \notin Redated, Series!IInv,
         NEW r \in Rows, NEW y \in Years, Series!Redate(r, y)
  PROVE  Series!IInv'
<1>1. /\ numbered[r].in # "document" /\ numbered' = [numbered EXCEPT ![r].dated = y] /\ offered' = offered
  BY DEF Series!Redate
<1>2. Series!TypeOK'
  BY <1>1 DEF Series!IInv, Series!TypeOK
<1>3. /\ \A x \in Rows : x # r => numbered'[x] = numbered[x]
      /\ numbered'[r].in = numbered[r].in /\ numbered'[r].year = numbered[r].year /\ numbered'[r].n = numbered[r].n
  BY <1>1 DEF Series!IInv, Series!TypeOK
<1>4. Series!NumbersAreGiven'
  BY <1>3 DEF Series!IInv, Series!NumbersAreGiven
<1>5. Series!CountsReachNumbers'
  BY <1>1, <1>2, <1>3, SameCounts DEF Series!TypeOK
<1>6. QED
  BY <1>2, <1>4, <1>5 DEF Series!IInv

LEMMA SeriesRemoveKeeps ==
  ASSUME Series!NumberingAssumption, Series!IInv, NEW r \in Rows, Series!Remove(r)
  PROVE  Series!IInv'
<1> DEFINE deleted == numbered[r].in \in {"order", "receipt"}
<1>1. offered' = offered
  BY DEF Series!Remove
<1>2. CASE deleted
  <2> DEFINE new == [Series!NoRow EXCEPT !.gone = TRUE]
  <2>1. numbered' = [numbered EXCEPT ![r] = new]
    BY <1>2 DEF Series!Remove
  <2>2. new.in = "none" /\ new \in [in : Registers \cup {"none"}, year : Years \cup {NoOne},
                  n : 1 .. Limit \cup {Word, NoOne}, dated : Years \cup {NoOne}, gone : BOOLEAN]
    BY DEF Series!NoRow
  <2> HIDE DEF new
  <2>3. Series!TypeOK' /\ numbered'[r] = new /\ \A x \in Rows : x # r => numbered'[x] = numbered[x]
    BY <1>1, <2>1, <2>2 DEF Series!IInv, Series!TypeOK
  <2>4. Series!NumbersAreGiven'
    BY <2>2, <2>3 DEF Series!IInv, Series!NumbersAreGiven
  <2>5. Series!CountsReachNumbers'
    BY <1>2, <2>2, <2>3, SameCounts DEF Series!TypeOK
  <2>6. QED
    BY <2>3, <2>4, <2>5 DEF Series!IInv
<1>3. CASE ~deleted
  <2>1. numbered' = [numbered EXCEPT ![r] = [numbered[r] EXCEPT !.gone = TRUE]]
    BY <1>3 DEF Series!Remove
  <2>2. Series!TypeOK'
    BY <1>1, <2>1 DEF Series!IInv, Series!TypeOK
  <2>3. \A x \in Rows : /\ numbered'[x].in = numbered[x].in /\ numbered'[x].year = numbered[x].year
                        /\ numbered'[x].n = numbered[x].n /\ numbered'[x].dated = numbered[x].dated
    BY <2>1 DEF Series!IInv, Series!TypeOK
  <2>4. Series!NumbersAreGiven'
    BY <2>3 DEF Series!IInv, Series!NumbersAreGiven
  <2>5. Series!CountsReachNumbers'
    BY <2>2, <2>3, SameCounts DEF Series!TypeOK
  <2>6. QED
    BY <2>2, <2>4, <2>5 DEF Series!IInv
<1>4. QED
  BY <1>2, <1>3

LEMMA SameRows ==
  ASSUME Series!NumberingAssumption, Series!IInv, numbered' = numbered, offered' \in 1 .. Limit \cup {NoOne}
  PROVE  Series!IInv'
BY DEF Series!IInv, Series!TypeOK, Series!NumbersAreGiven, Series!CountsReachNumbers,
   Series!Peers

LEMMA SeriesStepInv ==
  ASSUME Series!NumberingAssumption, Typed \subseteq {"code"}, "document" \notin Redated
  PROVE  Series!IInv /\ [Series!Next]_(Series!vars) => Series!IInv'
<1> SUFFICES ASSUME Series!IInv, [Series!Next]_(Series!vars) PROVE Series!IInv'
  OBVIOUS
<1>1. offered \in 1 .. Limit \cup {NoOne} /\ Series!Year \in Years
  BY DEF Series!IInv, Series!TypeOK, Series!Year, Series!NumberingAssumption
<1>2. CASE UNCHANGED Series!vars
  BY <1>1, <1>2, SameRows DEF Series!vars
<1>3. ASSUME NEW r \in Rows, NEW g \in Registers, NEW y \in Years, Series!Automatic(r, g, y)
      PROVE  Series!IInv'
  <2>1. Series!Inserted(r, g, y, Series!NextSequence(g, y)) /\ offered' = offered
    BY <1>3 DEF Series!Automatic
  <2>2. Series!NextSequence(g, y) # Word
    BY NextIsFree DEF Series!NumberingAssumption
  <2>3. QED
    BY <1>1, <2>1, <2>2, InsertedKeeps
<1>4. ASSUME NEW r \in Rows, NEW g \in Registers, NEW y \in Years, NEW n \in 1 .. Limit \cup {Word},
             Series!ByHand(r, g, y, n)
      PROVE  Series!IInv'
  <2>1. Series!Inserted(r, g, y, n) /\ offered' = offered /\ g \in Typed /\ g = "code"
    BY <1>4 DEF Series!ByHand
  <2>2. QED
    BY <1>1, <2>1, InsertedKeeps
<1>5. ASSUME NEW r \in Rows, Series!Insert(r, Series!Year)
      PROVE  Series!IInv'
  <2>1. Series!Inserted(r, "code", Series!Year, offered) /\ offered' = NoOne /\ offered # NoOne
    BY <1>5 DEF Series!Insert
  <2>2. "code" \in Registers
    BY <2>1 DEF Series!Inserted
  <2>3. offered # Word
    BY <1>1, <2>1 DEF Series!NumberingAssumption
  <2>4. QED
    BY <1>1, <2>1, <2>2, <2>3, InsertedKeeps
<1>6. ASSUME Series!Offer(Series!Year)
      PROVE  Series!IInv'
  <2>1. offered' = Series!NextSequence("code", Series!Year) /\ Series!Fits(Series!NextSequence("code", Series!Year)) /\ numbered' = numbered
        /\ "code" \in Registers
    BY <1>6 DEF Series!Offer
  <2>2. Series!NextSequence("code", Series!Year) # Word
    BY <1>1, <2>1, NextIsFree DEF Series!NumberingAssumption
  <2>3. QED
    BY <2>1, <2>2, SameRows DEF Series!Fits
<1>7. CASE Series!TryAgain(Series!Year)
  BY <1>7, SameRows DEF Series!TryAgain
<1>8. QED
  BY <1>2, <1>3, <1>4, <1>5, <1>6, <1>7, RenumberKeeps, RedateKeeps, SeriesRemoveKeeps DEF
     Series!Next

\* Where users type codes only and no document is redated, the number a register offers next
\* is not in use.
THEOREM NumbersStayFree ==
  ASSUME Series!NumberingAssumption, Typed \subseteq {"code"}, "document" \notin Redated
  PROVE  Series!Spec => []Series!NextNumberIsFree
<1>1. Series!Init => Series!IInv
  BY SeriesInitInv
<1>2. Series!IInv /\ [Series!Next]_(Series!vars) => Series!IInv'
  BY SeriesStepInv
<1>3. Series!IInv => Series!NextNumberIsFree
  BY NextIsFree DEF Series!NextNumberIsFree
<1>4. QED
  BY <1>1, <1>2, <1>3, PTL DEF Series!Spec

-----------------------------------------------------------------------------
(* Purchase orders, their bills and files.                                   *)

OrderRow == [status : Buying!Statuses \cup {"none", "deleted"}, total : Totals \cup {0}, bill : BillIds \cup {NoOne}]

\* What an update leaves of a row.
LEMMA PatchedRow ==
  ASSUME NEW row \in OrderRow, NEW patch
  PROVE  LET new == Buying!Patched(row, patch)
             Of(c) == IF c \in DOMAIN patch THEN patch[c] ELSE row[c] IN
         /\ new.status = Of("status") /\ new.total = Of("total") /\ new.bill = Of("bill")
         /\ Of("status") \in Buying!Statuses \cup {"none", "deleted"} /\ Of("total") \in Totals \cup {0}
            /\ Of("bill") \in BillIds \cup {NoOne} => new \in OrderRow
<1> DEFINE Of(c) == IF c \in DOMAIN patch THEN patch[c] ELSE row[c]
           new == Buying!Patched(row, patch)
<1>1. DOMAIN row = {"status", "total", "bill"}
  BY DEF OrderRow
<1>2. new = [c \in {"status", "total", "bill"} |-> Of(c)]
  BY <1>1 DEF Buying!Patched
<1>3. new.status = Of("status") /\ new.total = Of("total") /\ new.bill = Of("bill")
  BY <1>2
<1>4. new = [status |-> Of("status"), total |-> Of("total"), bill |-> Of("bill")]
  BY <1>2
<1>5. ASSUME Of("status") \in Buying!Statuses \cup {"none", "deleted"}, Of("total") \in Totals \cup {0},
             Of("bill") \in BillIds \cup {NoOne}
      PROVE  new \in OrderRow
  <2> HIDE DEF Of, new
  <2>1. QED
    BY <1>4, <1>5 DEF OrderRow
<1>6. QED
  BY <1>3, <1>5

-----------------------------------------------------------------------------
LEMMA BuyingInitInv ==
  ASSUME NoOne \notin Requests, Buying!PurchaseOrdersAssumption PROVE Buying!Init => Buying!IInv
<1> SUFFICES ASSUME Buying!Init PROVE Buying!IInv
  OBVIOUS
<1>1. Buying!TypeOK
  BY DEF Buying!Init, Buying!TypeOK, Buying!NoOrder
<1>2. Buying!RowsAreWhole /\ Buying!BilledOrderIsKept
  BY DEF Buying!Init, Buying!RowsAreWhole, Buying!BilledOrderIsKept, Buying!Exists,
     Buying!NoOrder
<1>3. Buying!Planned
  BY DEF Buying!Init, Buying!Planned
<1>4. QED
  BY <1>1, <1>2, <1>3 DEF Buying!IInv

\* What a request without the lock planned it may still do, whoever commits.
LEMMA FreePlansStay ==
  ASSUME NEW q \in Requests, job'[q] = job[q],
         \A o \in Orders : order[o].status # "none" => order'[o].status # "none",
         \A b \in BillIds : bill[b] # 0 => bill'[b] # 0
  PROVE  Buying!StatusPlan(q) \/ Buying!FilesPlan(q) => Buying!StatusPlan(q)' \/ Buying!FilesPlan(q)'
<1>1. ASSUME Buying!StatusPlan(q) PROVE Buying!StatusPlan(q)'
  <2>1. PICK o \in Orders, status \in Buying!Statuses :
          /\ order[o].status # "none" /\ DOMAIN job[q].files = {}
          /\ Buying!Plan(q, Buying!One(o, [status |-> status]), Buying!Nothing)
    BY <1>1 DEF Buying!StatusPlan
  <2>2. Buying!Plan(q, Buying!One(o, [status |-> status]), Buying!Nothing)'
    BY <2>1 DEF Buying!Plan, Buying!One, Buying!Nothing
  <2>3. order'[o].status # "none" /\ DOMAIN job'[q].files = {}
    BY <2>1
  <2>4. QED
    BY <2>2, <2>3 DEF Buying!StatusPlan
<1>2. ASSUME Buying!FilesPlan(q) PROVE Buying!FilesPlan(q)'
  <2>1. PICK x \in Orders \cup BillIds :
          (x \in BillIds => bill[x] # 0) /\ DOMAIN job[q].files = {x} /\ Buying!Plan(q, Buying!Nothing, Buying!Nothing)
    BY <1>2 DEF Buying!FilesPlan
  <2>2. Buying!Plan(q, Buying!Nothing, Buying!Nothing)'
    BY <2>1 DEF Buying!Plan, Buying!Nothing
  <2>3. (x \in BillIds => bill'[x] # 0) /\ DOMAIN job'[q].files = {x}
    BY <2>1
  <2>4. QED
    BY <2>2, <2>3 DEF Buying!FilesPlan
<1>3. QED
  BY <1>1, <1>2

\* What a request with the lock planned it may still do after a change of status.
LEMMA LockedPlanStays ==
  ASSUME NEW q \in Requests, job'[q] = job[q], bill' = bill,
         \A o \in Orders : /\ Buying!Exists(o)' <=> Buying!Exists(o)
                           /\ order[o].status = "none" <=> order'[o].status = "none"
                           /\ order'[o].total = order[o].total /\ order'[o].bill = order[o].bill
  PROVE  Buying!LockedPlan(q) => Buying!LockedPlan(q)'
<1> SUFFICES ASSUME Buying!LockedPlan(q) PROVE Buying!LockedPlan(q)'
  OBVIOUS
<1>1. PICK o \in Orders : Buying!CreatePlan(q, o) \/ Buying!UpdatePlan(q, o) \/ Buying!RemovePlan(q, o) \/ Buying!ConvertPlan(q, o)
  BY DEF Buying!LockedPlan
<1>2. Buying!Unbilled(o)' <=> Buying!Unbilled(o)
  BY DEF Buying!Unbilled
<1>3. Buying!CreatePlan(q, o) => Buying!CreatePlan(q, o)'
  BY DEF Buying!CreatePlan, Buying!Plan, Buying!One, Buying!Nothing
<1>4. Buying!UpdatePlan(q, o) => Buying!UpdatePlan(q, o)'
  BY <1>2 DEF Buying!UpdatePlan, Buying!Plan, Buying!One, Buying!Nothing
<1>5. Buying!RemovePlan(q, o) => Buying!RemovePlan(q, o)'
  BY <1>2 DEF Buying!RemovePlan, Buying!Plan, Buying!One, Buying!Nothing, Buying!Deleted
<1>6. Buying!ConvertPlan(q, o) => Buying!ConvertPlan(q, o)'
  BY <1>2 DEF Buying!ConvertPlan, Buying!Plan, Buying!One, Buying!Nothing
<1>7. QED
  BY <1>1, <1>3, <1>4, <1>5, <1>6 DEF Buying!LockedPlan

LEMMA PlanTypes ==
  ASSUME Buying!PurchaseOrdersAssumption, Buying!IInv
  PROVE  /\ \A o \in Orders : order[o] \in OrderRow /\ order[o].total \in Totals \cup {0}
                             /\ order[o].bill \in BillIds \cup {NoOne}
         /\ \A b \in BillIds : bill[b] \in Totals \cup {0}
         /\ Totals \subseteq Nat /\ 0 \notin Totals /\ NoOne \notin BillIds /\ Orders \cap BillIds = {}
         /\ \A x \in Orders \cup BillIds : files[x] \in Nat
BY DEF Buying!IInv, Buying!TypeOK, OrderRow, Buying!PurchaseOrdersAssumption

-----------------------------------------------------------------------------
\* A handler's reads plan what it may do.
LEMMA CheckKeeps ==
  ASSUME NoOne \notin Requests, Buying!PurchaseOrdersAssumption, Buying!IInv, NEW q \in Requests, NEW op, NEW locks, NEW orders, NEW bills,
         NEW added, Buying!Check(q, op, locks, orders, bills, added),
         \/ locks = {"branch"} /\ Buying!LockedPlan(q)'
         \/ locks = {} /\ (Buying!StatusPlan(q)' \/ Buying!FilesPlan(q)')
  PROVE  Buying!IInv'
<1>1. /\ pc[q] = "idle" /\ order' = order /\ bill' = bill /\ files' = files
      /\ pc' = [pc EXCEPT ![q] = "checked"] /\ \A r \in locks : lock[r] = NoOne
      /\ lock' = [r \in {"branch"} |-> IF r \in locks THEN q ELSE lock[r]]
      /\ \A r \in Requests : r # q => job'[r] = job[r]
      /\ DOMAIN job' = Requests
  BY DEF Buying!Check, Buying!CanLock, Buying!IInv, Buying!TypeOK
<1>2. Buying!TypeOK'
  BY <1>1 DEF Buying!IInv, Buying!TypeOK
<1>3. Buying!RowsAreWhole' /\ Buying!BilledOrderIsKept'
  BY <1>1 DEF Buying!IInv, Buying!RowsAreWhole, Buying!BilledOrderIsKept, Buying!Exists
<1>4. lock["branch"] # q /\ (lock'["branch"] = q <=> locks = {"branch"})
      /\ (locks = {} => lock'["branch"] = lock["branch"])
      /\ (locks = {"branch"} => lock["branch"] = NoOne)
  BY <1>1 DEF Buying!IInv, Buying!Planned
<1>5. ASSUME NEW r \in Requests
      PROVE  \/ pc'[r] = "idle" /\ lock'["branch"] # r
             \/ pc'[r] = "checked" /\ lock'["branch"] = r /\ Buying!LockedPlan(r)'
             \/ pc'[r] = "checked" /\ lock'["branch"] # r /\ (Buying!StatusPlan(r)' \/ Buying!FilesPlan(r)')
  <2>1. CASE r = q
    BY <1>1, <1>2, <1>4, <2>1 DEF Buying!IInv, Buying!TypeOK
  <2>2. CASE r # q
    <3>1. pc'[r] = pc[r] /\ job'[r] = job[r]
      BY <1>1, <2>2 DEF Buying!IInv, Buying!TypeOK
    <3>2. \A o \in Orders : Buying!Exists(o)' <=> Buying!Exists(o)
      BY <1>1 DEF Buying!Exists
    <3>3. Buying!LockedPlan(r) => Buying!LockedPlan(r)'
      BY <1>1, <3>1, <3>2, LockedPlanStays
    <3>4. Buying!StatusPlan(r) \/ Buying!FilesPlan(r) => Buying!StatusPlan(r)' \/ Buying!FilesPlan(r)'
      BY <1>1, <3>1, FreePlansStay
    <3>5. lock'["branch"] = r <=> lock["branch"] = r
      BY <1>1, <1>4, <2>2
    <3>6. QED
      BY <3>1, <3>3, <3>4, <3>5 DEF Buying!IInv, Buying!Planned
  <2>3. QED
    BY <2>1, <2>2
<1>6. Buying!Planned'
  BY <1>5 DEF Buying!Planned
<1>7. QED
  BY <1>2, <1>3, <1>6 DEF Buying!IInv

\* A request ends: it has no lock and no plan any more.
LEMMA EndKeepsPlans ==
  ASSUME NoOne \notin Requests, Buying!IInv, NEW q \in Requests, Buying!End(q),
         \A r \in Requests \ {q} : lock["branch"] = r /\ Buying!LockedPlan(r) => Buying!LockedPlan(r)',
         \A r \in Requests \ {q} : Buying!StatusPlan(r) \/ Buying!FilesPlan(r) => Buying!StatusPlan(r)' \/ Buying!FilesPlan(r)'
  PROVE  /\ Buying!Planned' /\ lock' \in [{"branch"} -> Requests \cup {NoOne}]
         /\ pc' \in [Requests -> {"idle", "checked"}] /\ DOMAIN job' = Requests
<1>1. /\ lock' = [row \in {"branch"} |-> IF lock[row] = q THEN NoOne ELSE lock[row]]
      /\ pc' = [pc EXCEPT ![q] = "idle"] /\ DOMAIN job' = Requests
  BY DEF Buying!End, Buying!Released, Buying!IInv, Buying!TypeOK
<1>2. ASSUME NEW r \in Requests
      PROVE  \/ pc'[r] = "idle" /\ lock'["branch"] # r
             \/ pc'[r] = "checked" /\ lock'["branch"] = r /\ Buying!LockedPlan(r)'
             \/ pc'[r] = "checked" /\ lock'["branch"] # r /\ (Buying!StatusPlan(r)' \/ Buying!FilesPlan(r)')
  <2>1. CASE r = q
    BY <1>1, <2>1 DEF Buying!IInv, Buying!TypeOK
  <2>2. CASE r # q
    <3>1. pc'[r] = pc[r] /\ (lock'["branch"] = r <=> lock["branch"] = r)
      BY <1>1, <2>2 DEF Buying!IInv, Buying!TypeOK
    <3>2. QED
      BY <2>2, <3>1 DEF Buying!IInv, Buying!Planned
  <2>3. QED
    BY <2>1, <2>2
<1>3. Buying!Planned'
  BY <1>2 DEF Buying!Planned
<1>4. QED
  BY <1>1, <1>3 DEF Buying!IInv, Buying!TypeOK

LEMMA RollbackKeeps ==
  ASSUME NoOne \notin Requests, Buying!PurchaseOrdersAssumption, Buying!IInv, NEW q \in Requests, Buying!Rollback(q)
  PROVE  Buying!IInv'
<1>1. Buying!End(q) /\ order' = order /\ bill' = bill /\ files' = files
  BY DEF Buying!Rollback
<1>2. \A r \in Requests \ {q} : job'[r] = job[r]
  BY <1>1 DEF Buying!End, Buying!IInv, Buying!TypeOK
<1>3. \A o \in Orders : Buying!Exists(o)' <=> Buying!Exists(o)
  BY <1>1 DEF Buying!Exists
<1>4. \A r \in Requests \ {q} : Buying!LockedPlan(r) => Buying!LockedPlan(r)'
  BY <1>1, <1>2, <1>3, LockedPlanStays
<1>5. \A r \in Requests \ {q} : Buying!StatusPlan(r) \/ Buying!FilesPlan(r) => Buying!StatusPlan(r)' \/ Buying!FilesPlan(r)'
  BY <1>1, <1>2, FreePlansStay
<1>6. Buying!Planned' /\ lock' \in [{"branch"} -> Requests \cup {NoOne}]
      /\ pc' \in [Requests -> {"idle", "checked"}] /\ DOMAIN job' = Requests
  BY <1>1, <1>4, <1>5, EndKeepsPlans
<1>7. Buying!TypeOK' /\ Buying!RowsAreWhole' /\ Buying!BilledOrderIsKept'
  BY <1>1, <1>6 DEF Buying!IInv, Buying!TypeOK, Buying!RowsAreWhole, Buying!BilledOrderIsKept,
     Buying!Exists
<1>8. QED
  BY <1>6, <1>7 DEF Buying!IInv

-----------------------------------------------------------------------------
\* The locks after a commit.
LEMMA CommitEffect ==
  ASSUME NEW q \in Requests, Buying!Commit(q)
  PROVE  /\ \A o \in Orders : o \in DOMAIN job[q].order =>
              /\ Buying!Exists(o) \/ order[o].status = "none"
              /\ order'[o] = Buying!Patched(order[o], job[q].order[o])
         /\ \A o \in Orders : o \notin DOMAIN job[q].order => order'[o] = order[o]
         /\ \A b \in BillIds : bill'[b] = IF b \in DOMAIN job[q].bill THEN job[q].bill[b] ELSE bill[b]
         /\ \A x \in Orders \cup BillIds : files'[x] =
              IF x \in Orders /\ order'[x].status = "deleted" THEN 0
              ELSE IF x \in DOMAIN job[q].files THEN files[x] + job[q].files[x] ELSE files[x]
BY DEF Buying!Commit

LEMMA CommitTypes ==
  ASSUME Buying!PurchaseOrdersAssumption, Buying!IInv, NEW q \in Requests, Buying!Commit(q),
         \A o \in Orders : order'[o] \in OrderRow, \A b \in BillIds : bill'[b] \in Totals \cup {0},
         \A x \in DOMAIN job[q].files : job[q].files[x] \in Nat
  PROVE  /\ order' \in [Orders -> OrderRow] /\ bill' \in [BillIds -> Totals \cup {0}]
         /\ files' \in [Orders \cup BillIds -> Nat]
<1>1. order' \in [Orders -> OrderRow]
  <2> DEFINE new(o) == IF o \in DOMAIN job[q].order THEN Buying!Patched(order[o], job[q].order[o]) ELSE order[o]
  <2>1. order' = [o \in Orders |-> new(o)]
    BY DEF Buying!Commit
  <2> HIDE DEF new
  <2>2. \A o \in Orders : order'[o] = new(o)
    BY <2>1
  <2>3. QED
    BY <2>1, <2>2
<1>2. bill' \in [BillIds -> Totals \cup {0}]
  <2> DEFINE new(b) == IF b \in DOMAIN job[q].bill THEN job[q].bill[b] ELSE bill[b]
  <2>1. bill' = [b \in BillIds |-> new(b)]
    BY DEF Buying!Commit
  <2> HIDE DEF new
  <2>2. \A b \in BillIds : bill'[b] = new(b)
    BY <2>1
  <2>3. QED
    BY <2>1, <2>2
<1>3. files' \in [Orders \cup BillIds -> Nat]
  <2> DEFINE new(x) == IF x \in Orders /\ order'[x].status = "deleted" THEN 0
                       ELSE IF x \in DOMAIN job[q].files THEN files[x] + job[q].files[x] ELSE files[x]
  <2>1. files' = [x \in Orders \cup BillIds |-> new(x)]
    BY DEF Buying!Commit
  <2>2. \A x \in Orders \cup BillIds : new(x) \in Nat
    BY PlanTypes
  <2> HIDE DEF new
  <2>3. QED
    BY <2>1, <2>2
<1>4. QED
  BY <1>1, <1>2, <1>3

\* What is left to show of a commit.
LEMMA Committed ==
  ASSUME NoOne \notin Requests, Buying!PurchaseOrdersAssumption, Buying!IInv, NEW q \in Requests, Buying!Commit(q),
         \A o \in Orders : order'[o] \in OrderRow, \A b \in BillIds : bill'[b] \in Totals \cup {0},
         \A x \in DOMAIN job[q].files : job[q].files[x] \in Nat,
         \A o \in Orders : order[o].status # "none" => order'[o].status # "none",
         \A b \in BillIds : bill[b] # 0 => bill'[b] # 0,
         \/ lock["branch"] = q
         \/ /\ \A o \in Orders : /\ Buying!Exists(o)' <=> Buying!Exists(o)
                                 /\ order[o].status = "none" <=> order'[o].status = "none"
                                 /\ order'[o].total = order[o].total /\ order'[o].bill = order[o].bill
            /\ bill' = bill,
         Buying!RowsAreWhole', Buying!BilledOrderIsKept'
  PROVE  Buying!IInv'
<1>1. Buying!End(q)
  BY DEF Buying!Commit
<1>2. \A r \in Requests \ {q} : job'[r] = job[r]
  BY <1>1 DEF Buying!End, Buying!IInv, Buying!TypeOK
<1>3. ASSUME NEW r \in Requests \ {q}, lock["branch"] = r, Buying!LockedPlan(r) PROVE Buying!LockedPlan(r)'
  <2>1. lock["branch"] # q
    BY <1>3
  <2>2. QED
    BY <1>2, <1>3, <2>1, LockedPlanStays
<1>4. \A r \in Requests \ {q} : Buying!StatusPlan(r) \/ Buying!FilesPlan(r) => Buying!StatusPlan(r)' \/ Buying!FilesPlan(r)'
  BY <1>2, FreePlansStay
<1>5. Buying!Planned' /\ lock' \in [{"branch"} -> Requests \cup {NoOne}]
      /\ pc' \in [Requests -> {"idle", "checked"}] /\ DOMAIN job' = Requests
  BY <1>1, <1>3, <1>4, EndKeepsPlans
<1>6. Buying!TypeOK'
  BY <1>5, CommitTypes DEF Buying!TypeOK, OrderRow
<1>7. QED
  BY <1>5, <1>6 DEF Buying!IInv

LEMMA CommitStatus ==
  ASSUME NoOne \notin Requests, Buying!PurchaseOrdersAssumption, Buying!IInv, NEW q \in Requests, Buying!Commit(q), Buying!StatusPlan(q)
  PROVE  Buying!IInv'
<1>1. PICK o \in Orders, status \in Buying!Statuses :
          /\ order[o].status # "none" /\ DOMAIN job[q].files = {}
          /\ Buying!Plan(q, Buying!One(o, [status |-> status]), Buying!Nothing)
  BY DEF Buying!StatusPlan
<1>2. /\ DOMAIN job[q].order = {o} /\ job[q].order[o] = [status |-> status]
      /\ DOMAIN job[q].bill = {} /\ DOMAIN job[q].files = {}
  BY <1>1 DEF Buying!Plan, Buying!One, Buying!Nothing
<1>3. order'[o] = Buying!Patched(order[o], [status |-> status]) /\ Buying!Exists(o)
      /\ \A x \in Orders : x # o => order'[x] = order[x]
  BY <1>1, <1>2, CommitEffect
<1>4. order'[o].status = status /\ order'[o].total = order[o].total /\ order'[o].bill = order[o].bill
      /\ order'[o] \in OrderRow
  <2>1. DOMAIN [status |-> status] = {"status"}
    OBVIOUS
  <2>2. order[o] \in OrderRow /\ order[o].total \in Totals \cup {0} /\ order[o].bill \in BillIds \cup {NoOne}
    BY PlanTypes
  <2>3. QED
    BY <1>3, <2>1, <2>2, PatchedRow
<1>5. bill' = bill
  <2>1. \A b \in BillIds : bill'[b] = bill[b]
    BY <1>2, CommitEffect
  <2>2. bill' = [b \in BillIds |-> bill'[b]]
    BY DEF Buying!Commit
  <2>3. QED
    BY <2>1, <2>2 DEF Buying!IInv, Buying!TypeOK
<1>6. \A x \in Orders : /\ Buying!Exists(x)' <=> Buying!Exists(x)
                        /\ order[x].status = "none" <=> order'[x].status = "none"
                        /\ order'[x].total = order[x].total /\ order'[x].bill = order[x].bill
                        /\ order'[x] \in OrderRow
  <2>1. status \notin {"none", "deleted"}
    BY DEF Buying!Statuses
  <2>2. QED
    BY <1>1, <1>3, <1>4, <2>1, PlanTypes DEF Buying!Exists
<1>7. \A b \in BillIds : files'[b] = files[b]
  BY <1>2, CommitEffect, PlanTypes
<1>8. Buying!RowsAreWhole'
  BY <1>5, <1>6, <1>7 DEF Buying!IInv, Buying!RowsAreWhole
<1>9. Buying!BilledOrderIsKept'
  BY <1>5, <1>6 DEF Buying!IInv, Buying!BilledOrderIsKept
<1>10. \A b \in BillIds : bill'[b] \in Totals \cup {0}
  BY <1>5, PlanTypes
<1>11. QED
  BY <1>2, <1>5, <1>6, <1>8, <1>9, <1>10, Committed

LEMMA CommitFiles ==
  ASSUME NoOne \notin Requests, Buying!PurchaseOrdersAssumption, Buying!IInv, NEW q \in Requests, Buying!Commit(q), Buying!FilesPlan(q)
  PROVE  Buying!IInv'
<1>1. PICK x \in Orders \cup BillIds :
          (x \in BillIds => bill[x] # 0) /\ DOMAIN job[q].files = {x} /\ Buying!Plan(q, Buying!Nothing, Buying!Nothing)
  BY DEF Buying!FilesPlan
<1>2. DOMAIN job[q].order = {} /\ DOMAIN job[q].bill = {} /\ job[q].files[x] \in Nat
  BY <1>1 DEF Buying!Plan, Buying!Nothing
<1>3. \A o \in Orders : order'[o] = order[o]
  BY <1>2, CommitEffect
<1>4. bill' = bill
  <2>1. \A b \in BillIds : bill'[b] = bill[b]
    BY <1>2, CommitEffect
  <2>2. bill' = [b \in BillIds |-> bill'[b]]
    BY DEF Buying!Commit
  <2>3. QED
    BY <2>1, <2>2 DEF Buying!IInv, Buying!TypeOK
<1>5. \A b \in BillIds : bill[b] = 0 => files'[b] = files[b]
  BY <1>1, CommitEffect, PlanTypes
<1>6. \A o \in Orders : Buying!Exists(o)' <=> Buying!Exists(o)
  BY <1>3 DEF Buying!Exists
<1>7. Buying!RowsAreWhole'
  BY <1>3, <1>4, <1>5, <1>6 DEF Buying!IInv, Buying!RowsAreWhole
<1>8. Buying!BilledOrderIsKept'
  BY <1>3, <1>4 DEF Buying!IInv, Buying!BilledOrderIsKept
<1>9. \A b \in BillIds : bill'[b] \in Totals \cup {0}
  BY <1>4, PlanTypes
<1>10. \A o \in Orders : order'[o] \in OrderRow
  BY <1>3, PlanTypes
<1>11. QED
  BY <1>1, <1>2, <1>3, <1>4, <1>6, <1>7, <1>8, <1>9, <1>10, Committed

\* An order that has no bill is made, edited or deleted.
LEMMA CommitUnbilled ==
  ASSUME NoOne \notin Requests, Buying!PurchaseOrdersAssumption, Buying!IInv, NEW q \in Requests, Buying!Commit(q), lock["branch"] = q,
         NEW o \in Orders, Buying!CreatePlan(q, o) \/ Buying!UpdatePlan(q, o) \/ Buying!RemovePlan(q, o)
  PROVE  Buying!IInv'
<1>1. /\ DOMAIN job[q].order = {o} /\ DOMAIN job[q].bill = {} /\ DOMAIN job[q].files = {}
  BY DEF Buying!CreatePlan, Buying!UpdatePlan, Buying!RemovePlan, Buying!Plan, Buying!One,
     Buying!Nothing
<1>2. order[o] \in OrderRow /\ order[o].bill = NoOne
  BY PlanTypes DEF Buying!CreatePlan, Buying!UpdatePlan, Buying!RemovePlan, Buying!Unbilled,
     Buying!IInv, Buying!RowsAreWhole, Buying!Exists
<1>3. order'[o] = Buying!Patched(order[o], job[q].order[o]) /\ \A x \in Orders : x # o => order'[x] = order[x]
  BY <1>1, CommitEffect
<1>4. order'[o] \in OrderRow /\ order'[o].bill = NoOne /\ order'[o].status # "none"
      /\ (order'[o].status # "deleted" => order'[o].total \in Totals)
  <2>1. CASE Buying!CreatePlan(q, o)
    <3>1. PICK total \in Totals, status \in Buying!Statuses :
            job[q].order[o] = [status |-> status, total |-> total, bill |-> NoOne]
      BY <2>1 DEF Buying!CreatePlan, Buying!Plan, Buying!One
    <3>2. DOMAIN job[q].order[o] = {"status", "total", "bill"}
      BY <3>1
    <3>3. QED
      BY <1>2, <1>3, <3>1, <3>2, PatchedRow DEF Buying!Statuses
  <2>2. CASE Buying!UpdatePlan(q, o)
    <3>1. PICK total \in Totals, status \in Buying!Statuses :
            job[q].order[o] = [total |-> total, status |-> status]
      BY <2>2 DEF Buying!UpdatePlan, Buying!Plan, Buying!One
    <3>2. DOMAIN job[q].order[o] = {"status", "total"}
      BY <3>1
    <3>3. QED
      BY <1>2, <1>3, <3>1, <3>2, PatchedRow DEF Buying!Statuses
  <2>3. CASE Buying!RemovePlan(q, o)
    <3>1. job[q].order[o] = Buying!Deleted
      BY <2>3 DEF Buying!RemovePlan, Buying!Plan, Buying!One
    <3>2. DOMAIN job[q].order[o] = {"status", "total", "bill"}
      BY <3>1 DEF Buying!Deleted
    <3>3. QED
      BY <1>2, <1>3, <3>1, <3>2, PatchedRow DEF Buying!Deleted
  <2>4. QED
    BY <2>1, <2>2, <2>3
<1>5. bill' = bill
  <2>1. \A b \in BillIds : bill'[b] = bill[b]
    BY <1>1, CommitEffect
  <2>2. bill' = [b \in BillIds |-> bill'[b]]
    BY DEF Buying!Commit
  <2>3. QED
    BY <2>1, <2>2 DEF Buying!IInv, Buying!TypeOK
<1>6. \A b \in BillIds : files'[b] = files[b]
  BY <1>1, CommitEffect, PlanTypes
<1>7. Buying!RowsAreWhole'
  <2>1. ASSUME NEW x \in Orders
        PROVE  IF Buying!Exists(x)' THEN order'[x].total \in Totals ELSE order'[x].bill = NoOne
    BY <1>3, <1>4 DEF Buying!IInv, Buying!RowsAreWhole, Buying!Exists
  <2>2. QED
    BY <1>5, <1>6, <2>1 DEF Buying!IInv, Buying!RowsAreWhole
<1>8. Buying!BilledOrderIsKept'
  <2>1. ASSUME NEW b \in BillIds, bill'[b] # 0 PROVE \E x \in Orders : order'[x].bill = b
    <3>1. PICK x \in Orders : order[x].bill = b
      BY <1>5, <2>1 DEF Buying!IInv, Buying!BilledOrderIsKept
    <3>2. x # o
      BY <1>2, <3>1, PlanTypes
    <3>3. QED
      BY <1>3, <3>1, <3>2
  <2>2. ASSUME NEW x \in Orders, order'[x].bill # NoOne PROVE order'[x].total = bill'[order'[x].bill]
    <3>1. order'[x] = order[x]
      BY <1>3, <1>4, <2>2
    <3>2. QED
      BY <1>5, <2>2, <3>1 DEF Buying!IInv, Buying!BilledOrderIsKept
  <2>3. QED
    BY <2>1, <2>2 DEF Buying!BilledOrderIsKept
<1>9. \A b \in BillIds : bill'[b] \in Totals \cup {0}
  BY <1>5, PlanTypes
<1>10. \A x \in Orders : order'[x] \in OrderRow /\ (order[x].status # "none" => order'[x].status # "none")
  BY <1>3, <1>4, PlanTypes
<1>11. QED
  BY <1>1, <1>5, <1>7, <1>8, <1>9, <1>10, Committed

LEMMA CommitConvert ==
  ASSUME NoOne \notin Requests, Buying!PurchaseOrdersAssumption, Buying!IInv, NEW q \in Requests, Buying!Commit(q), lock["branch"] = q,
         NEW o \in Orders, Buying!ConvertPlan(q, o)
  PROVE  Buying!IInv'
<1>1. PICK b \in BillIds : /\ Buying!Unbilled(o) /\ bill[b] = 0 /\ DOMAIN job[q].files = {b}
                        /\ Buying!Plan(q, Buying!One(o, [status |-> "RECEIVED", bill |-> b]), Buying!One(b, order[o].total))
  BY DEF Buying!ConvertPlan
<1>2. /\ DOMAIN job[q].order = {o} /\ job[q].order[o] = [status |-> "RECEIVED", bill |-> b]
      /\ DOMAIN job[q].bill = {b} /\ job[q].bill[b] = order[o].total
      /\ job[q].files[b] \in Nat
  BY <1>1 DEF Buying!Plan, Buying!One
<1>3. order[o] \in OrderRow /\ order[o].bill = NoOne /\ Buying!Exists(o) /\ order[o].total \in Totals
  BY <1>1, PlanTypes DEF Buying!Unbilled, Buying!IInv, Buying!RowsAreWhole
<1>4. order'[o] = Buying!Patched(order[o], job[q].order[o]) /\ \A x \in Orders : x # o => order'[x] = order[x]
  BY <1>2, CommitEffect
<1>5. order'[o] \in OrderRow /\ order'[o].bill = b /\ order'[o].status = "RECEIVED"
      /\ order'[o].total = order[o].total
  <2>1. DOMAIN job[q].order[o] = {"status", "bill"}
    BY <1>2
  <2>2. QED
    BY <1>2, <1>3, <1>4, <2>1, PatchedRow DEF Buying!Statuses
<1>6. bill'[b] = order[o].total /\ \A c \in BillIds : c # b => bill'[c] = bill[c]
  BY <1>2, CommitEffect
<1>7. order[o].total # 0
  BY <1>3, PlanTypes
<1>8. \A c \in BillIds : c # b => files'[c] = files[c]
  BY <1>1, CommitEffect, PlanTypes
<1>9. Buying!RowsAreWhole'
  <2>1. ASSUME NEW x \in Orders
        PROVE  IF Buying!Exists(x)' THEN order'[x].total \in Totals ELSE order'[x].bill = NoOne
    BY <1>3, <1>4, <1>5 DEF Buying!IInv, Buying!RowsAreWhole, Buying!Exists
  <2>2. QED
    BY <1>6, <1>7, <1>8, <2>1 DEF Buying!IInv, Buying!RowsAreWhole
<1>10. Buying!BilledOrderIsKept'
  <2>1. ASSUME NEW c \in BillIds, bill'[c] # 0 PROVE \E x \in Orders : order'[x].bill = c
    <3>1. CASE c = b
      BY <1>5, <3>1
    <3>2. CASE c # b
      <4>1. PICK x \in Orders : order[x].bill = c
        BY <1>6, <2>1, <3>2 DEF Buying!IInv, Buying!BilledOrderIsKept
      <4>2. x # o
        BY <1>3, <4>1, PlanTypes
      <4>3. QED
        BY <1>4, <4>1, <4>2
    <3>3. QED
      BY <3>1, <3>2
  <2>2. ASSUME NEW x \in Orders, order'[x].bill # NoOne PROVE order'[x].total = bill'[order'[x].bill]
    <3>1. CASE x = o
      BY <1>5, <1>6, <3>1
    <3>2. CASE x # o
      <4>1. order'[x] = order[x]
        BY <1>4, <3>2
      <4>2. order[x].bill \in BillIds /\ order[x].total = bill[order[x].bill]
        BY <2>2, <4>1, PlanTypes DEF Buying!IInv, Buying!BilledOrderIsKept
      <4>3. order[x].bill # b
        <5>1. Buying!Exists(x)
          BY <2>2, <4>1 DEF Buying!IInv, Buying!RowsAreWhole
        <5>2. order[x].total # 0
          BY <5>1, PlanTypes DEF Buying!IInv, Buying!RowsAreWhole
        <5>3. QED
          BY <1>1, <4>2, <5>2
      <4>4. QED
        BY <1>6, <4>1, <4>2, <4>3
    <3>3. QED
      BY <3>1, <3>2
  <2>3. QED
    BY <2>1, <2>2 DEF Buying!BilledOrderIsKept
<1>11. \A c \in BillIds : bill'[c] \in Totals \cup {0} /\ (bill[c] # 0 => bill'[c] # 0)
  BY <1>1, <1>3, <1>6, PlanTypes
<1>12. \A x \in Orders : order'[x] \in OrderRow /\ (order[x].status # "none" => order'[x].status # "none")
  BY <1>4, <1>5, PlanTypes
<1>13. \A x \in DOMAIN job[q].files : job[q].files[x] \in Nat
  BY <1>1, <1>2
<1>14. QED
  BY <1>9, <1>10, <1>11, <1>12, <1>13, Committed

LEMMA BuyingCommitKeeps ==
  ASSUME NoOne \notin Requests, Buying!PurchaseOrdersAssumption, Buying!IInv, NEW q \in Requests, Buying!Commit(q)
  PROVE  Buying!IInv'
<1>1. pc[q] = "checked"
  BY DEF Buying!Commit, Buying!End
<1>2. \/ lock["branch"] = q /\ Buying!LockedPlan(q)
      \/ Buying!StatusPlan(q) \/ Buying!FilesPlan(q)
  BY <1>1 DEF Buying!IInv, Buying!Planned
<1>3. CASE lock["branch"] = q /\ Buying!LockedPlan(q)
  BY <1>3, CommitUnbilled, CommitConvert DEF Buying!LockedPlan
<1>4. QED
  BY <1>2, <1>3, CommitStatus, CommitFiles

-----------------------------------------------------------------------------
\* What a handler keeps for its commit.
LEMMA Checked ==
  ASSUME Buying!IInv, NEW q \in Requests, NEW op, NEW locks, NEW orders, NEW bills, NEW added,
         Buying!Check(q, op, locks, orders, bills, added)
  PROVE  /\ job'[q].order = orders /\ job'[q].bill = bills /\ job'[q].files = added
         /\ order' = order /\ bill' = bill /\ files' = files
         /\ \A o \in Orders : Buying!Unbilled(o) => Buying!Unbilled(o)'
BY DEF Buying!Check, Buying!IInv, Buying!TypeOK, Buying!Unbilled, Buying!Exists

LEMMA HandlersKeep ==
  ASSUME NoOne \notin Requests, Buying!PurchaseOrdersAssumption, Buying!IInv, NEW q \in Requests, NEW o \in Orders
  PROVE  /\ \A total \in Totals, status \in Buying!Statuses : Buying!Create(q, o, total, status) => Buying!IInv'
         /\ \A b \in BillIds : Buying!ConvertToBill(q, o, b) => Buying!IInv'
         /\ \A status \in Buying!Statuses : Buying!UpdateStatus(q, o, status) => Buying!IInv'
         /\ \A total \in Totals, status \in Buying!Statuses : Buying!Update(q, o, total, status) => Buying!IInv'
         /\ Buying!Remove(q, o) => Buying!IInv'
<1>1. ASSUME NEW total \in Totals, NEW status \in Buying!Statuses, Buying!Create(q, o, total, status) PROVE Buying!IInv'
  <2> DEFINE new == [Buying!NoOrder EXCEPT !.status = status, !.total = total]
  <2>1. order[o].status = "none" /\ Buying!Check(q, "create", {"branch"}, Buying!One(o, new), Buying!Nothing, Buying!Nothing)
    BY <1>1 DEF Buying!Create
  <2>2. new = [status |-> status, total |-> total, bill |-> NoOne]
    <3> DEFINE mid == [Buying!NoOrder EXCEPT !.status = status]
    <3>1. mid = [status |-> status, total |-> 0, bill |-> NoOne]
      BY DEF Buying!NoOrder
    <3>2. new = [mid EXCEPT !.total = total]
      BY DEF Buying!NoOrder
    <3> HIDE DEF mid, new
    <3>3. QED
      BY <3>1, <3>2
  <2> HIDE DEF new
  <2>3. job'[q].order = Buying!One(o, new) /\ job'[q].bill = Buying!Nothing /\ job'[q].files = Buying!Nothing /\ order' = order
    BY <2>1, Checked
  <2>4. Buying!CreatePlan(q, o)'
    BY <2>1, <2>2, <2>3 DEF Buying!CreatePlan, Buying!Plan, Buying!One, Buying!Nothing
  <2>5. Buying!LockedPlan(q)'
    BY <2>4 DEF Buying!LockedPlan
  <2>6. QED
    BY <2>1, <2>5, CheckKeeps
<1>2. ASSUME NEW b \in BillIds, Buying!ConvertToBill(q, o, b) PROVE Buying!IInv'
  <2> DEFINE new == [status |-> "RECEIVED", bill |-> b]
  <2>1. /\ Buying!Unbilled(o) /\ bill[b] = 0
        /\ Buying!Check(q, "convert", {"branch"}, Buying!One(o, new), Buying!One(b, order[o].total), Buying!One(b, files[o]))
    BY <1>2 DEF Buying!ConvertToBill, Buying!Unbilled
  <2> HIDE DEF new
  <2>2. /\ job'[q].order = Buying!One(o, new) /\ job'[q].bill = Buying!One(b, order[o].total)
        /\ job'[q].files = Buying!One(b, files[o]) /\ order' = order /\ bill' = bill /\ Buying!Unbilled(o)'
    BY <2>1, Checked
  <2>3. files[o] \in Nat
    BY PlanTypes
  <2>4. Buying!ConvertPlan(q, o)'
    BY <2>1, <2>2, <2>3 DEF Buying!ConvertPlan, Buying!Plan, Buying!One, new
  <2>5. Buying!LockedPlan(q)'
    BY <2>4 DEF Buying!LockedPlan
  <2>6. QED
    BY <2>1, <2>5, CheckKeeps
<1>3. ASSUME NEW status \in Buying!Statuses, Buying!UpdateStatus(q, o, status) PROVE Buying!IInv'
  <2> DEFINE new == [status |-> status]
  <2>1. order[o].status # "none" /\ Buying!Check(q, "status", {}, Buying!One(o, new), Buying!Nothing, Buying!Nothing)
    BY <1>3 DEF Buying!UpdateStatus, Buying!Exists
  <2> HIDE DEF new
  <2>2. job'[q].order = Buying!One(o, new) /\ job'[q].bill = Buying!Nothing /\ job'[q].files = Buying!Nothing /\ order' = order
    BY <2>1, Checked
  <2>3. Buying!StatusPlan(q)'
    <3>1. Buying!Plan(q, Buying!One(o, new), Buying!Nothing)' /\ DOMAIN job'[q].files = {} /\ order'[o].status # "none"
      BY <2>1, <2>2 DEF Buying!Plan, Buying!One, Buying!Nothing
    <3>2. QED
      BY <3>1 DEF Buying!StatusPlan, new
  <2>4. QED
    BY <2>1, <2>3, CheckKeeps
<1>4. ASSUME NEW total \in Totals, NEW status \in Buying!Statuses, Buying!Update(q, o, total, status) PROVE Buying!IInv'
  <2> DEFINE new == [total |-> total, status |-> status]
  <2>1. Buying!Unbilled(o) /\ Buying!Check(q, "update", {"branch"}, Buying!One(o, new), Buying!Nothing, Buying!Nothing)
    BY <1>4 DEF Buying!Update, Buying!Unbilled
  <2> HIDE DEF new
  <2>2. /\ job'[q].order = Buying!One(o, new) /\ job'[q].bill = Buying!Nothing /\ job'[q].files = Buying!Nothing
        /\ Buying!Unbilled(o)'
    BY <2>1, Checked
  <2>3. Buying!UpdatePlan(q, o)'
    BY <2>2 DEF Buying!UpdatePlan, Buying!Plan, Buying!One, Buying!Nothing, new
  <2>4. Buying!LockedPlan(q)'
    BY <2>3 DEF Buying!LockedPlan
  <2>5. QED
    BY <2>1, <2>4, CheckKeeps
<1>5. ASSUME Buying!Remove(q, o) PROVE Buying!IInv'
  <2>1. Buying!Unbilled(o) /\ Buying!Check(q, "remove", {"branch"}, Buying!One(o, Buying!Deleted), Buying!Nothing, Buying!Nothing)
    BY <1>5 DEF Buying!Remove, Buying!Unbilled
  <2>2. /\ job'[q].order = Buying!One(o, Buying!Deleted) /\ job'[q].bill = Buying!Nothing /\ job'[q].files = Buying!Nothing
        /\ Buying!Unbilled(o)'
    BY <2>1, Checked
  <2>3. Buying!RemovePlan(q, o)'
    BY <2>2 DEF Buying!RemovePlan, Buying!Plan, Buying!One, Buying!Nothing, Buying!Deleted
  <2>4. Buying!LockedPlan(q)'
    BY <2>3 DEF Buying!LockedPlan
  <2>5. QED
    BY <2>1, <2>4, CheckKeeps
<1>6. QED
  BY <1>1, <1>2, <1>3, <1>4, <1>5

LEMMA AddKeeps ==
  ASSUME NoOne \notin Requests, Buying!PurchaseOrdersAssumption, Buying!IInv, NEW q \in Requests, NEW x \in Orders \cup BillIds,
         NEW n \in 1 .. MaxFiles, Buying!AddAttachments(q, x, n)
  PROVE  Buying!IInv'
<1>1. Buying!Check(q, "files", {}, Buying!Nothing, Buying!Nothing, Buying!One(x, n)) /\ (x \in BillIds => bill[x] # 0)
  BY PlanTypes DEF Buying!AddAttachments
<1>2. job'[q].order = Buying!Nothing /\ job'[q].bill = Buying!Nothing /\ job'[q].files = Buying!One(x, n) /\ bill' = bill
  BY <1>1, Checked
<1>3. Buying!FilesPlan(q)'
  BY <1>1, <1>2 DEF Buying!FilesPlan, Buying!Plan, Buying!One, Buying!Nothing
<1>4. QED
  BY <1>1, <1>3, CheckKeeps

LEMMA RemoveFileKeeps ==
  ASSUME Buying!PurchaseOrdersAssumption, Buying!IInv, NEW o \in Orders, Buying!RemoveAttachment(o)
  PROVE  Buying!IInv'
<1>1. /\ files' = [files EXCEPT ![o] = @ - 1] /\ files[o] > 0
      /\ order' = order /\ bill' = bill /\ lock' = lock /\ pc' = pc /\ job' = job
  BY DEF Buying!RemoveAttachment
<1>2. files' \in [Orders \cup BillIds -> Nat]
  BY <1>1 DEF Buying!IInv, Buying!TypeOK
<1>3. \A b \in BillIds : files'[b] = files[b]
  BY <1>1, PlanTypes DEF Buying!IInv, Buying!TypeOK
<1>4. Buying!RowsAreWhole'
  BY <1>1, <1>3 DEF Buying!IInv, Buying!RowsAreWhole, Buying!Exists
<1>5. Buying!TypeOK' /\ Buying!BilledOrderIsKept'
  BY <1>1, <1>2 DEF Buying!IInv, Buying!TypeOK, Buying!BilledOrderIsKept
<1>6. \A q \in Requests : Buying!LockedPlan(q) => Buying!LockedPlan(q)'
  <2>1. \A x \in Orders : Buying!Exists(x)' <=> Buying!Exists(x)
    BY <1>1 DEF Buying!Exists
  <2>2. QED
    BY <1>1, <2>1, LockedPlanStays
<1>7. \A q \in Requests : Buying!StatusPlan(q) \/ Buying!FilesPlan(q) => Buying!StatusPlan(q)' \/ Buying!FilesPlan(q)'
  BY <1>1, FreePlansStay
<1>8. Buying!Planned'
  BY <1>1, <1>6, <1>7 DEF Buying!IInv, Buying!Planned
<1>9. QED
  BY <1>4, <1>5, <1>8 DEF Buying!IInv

LEMMA StutterKeeps ==
  ASSUME Buying!IInv, UNCHANGED Buying!vars
  PROVE  Buying!IInv'
<1>1. order' = order /\ bill' = bill /\ files' = files /\ lock' = lock /\ pc' = pc /\ job' = job
  BY DEF Buying!vars
<1>2. \A q \in Requests : Buying!LockedPlan(q) => Buying!LockedPlan(q)'
  <2>1. \A x \in Orders : Buying!Exists(x)' <=> Buying!Exists(x)
    BY <1>1 DEF Buying!Exists
  <2>2. QED
    BY <1>1, <2>1, LockedPlanStays
<1>3. \A q \in Requests : Buying!StatusPlan(q) \/ Buying!FilesPlan(q) => Buying!StatusPlan(q)' \/ Buying!FilesPlan(q)'
  BY <1>1, FreePlansStay
<1>4. Buying!Planned'
  BY <1>1, <1>2, <1>3 DEF Buying!IInv, Buying!Planned
<1>5. Buying!TypeOK' /\ Buying!RowsAreWhole' /\ Buying!BilledOrderIsKept'
  BY <1>1 DEF Buying!IInv, Buying!TypeOK, Buying!RowsAreWhole, Buying!Exists,
     Buying!BilledOrderIsKept
<1>6. QED
  BY <1>4, <1>5 DEF Buying!IInv

LEMMA BuyingStepInv ==
  ASSUME NoOne \notin Requests, Buying!PurchaseOrdersAssumption
  PROVE  Buying!IInv /\ [Buying!Next]_(Buying!vars) => Buying!IInv'
<1> SUFFICES ASSUME Buying!IInv, [Buying!Next]_(Buying!vars) PROVE Buying!IInv'
  OBVIOUS
<1>1. CASE UNCHANGED Buying!vars
  BY <1>1, StutterKeeps
<1>2. CASE Buying!Next
  BY <1>2, HandlersKeep, AddKeeps, RemoveFileKeeps, BuyingCommitKeeps, RollbackKeeps DEF
     Buying!Next
<1>3. QED
  BY <1>1, <1>2

\* An order keeps the lines its bill was made from, whoever edits, removes, converts or changes
\* the status of orders at the same time (IInv names BilledOrderIsKept).
THEOREM BuyingInvariance ==
  ASSUME NoOne \notin Requests, Buying!PurchaseOrdersAssumption PROVE Buying!Spec => []Buying!IInv
<1>1. Buying!Init => Buying!IInv
  BY BuyingInitInv
<1>2. Buying!IInv /\ [Buying!Next]_(Buying!vars) => Buying!IInv'
  BY BuyingStepInv
<1>3. QED
  BY <1>1, <1>2, PTL DEF Buying!Spec

-----------------------------------------------------------------------------
(* One request at a time                                                    *)

\* The locks of the planned orders after a commit.
LEMMA CommittedStatus ==
  ASSUME NoOne \notin Requests, Buying!PurchaseOrdersAssumption, Buying!IInv, NEW q \in Requests, Buying!Commit(q),
         NEW o \in Orders, o \in DOMAIN job[q].order
  PROVE  /\ order'[o].status = job[q].order[o].status
         /\ order'[o].bill \in {NoOne, order[o].bill} \/ order'[o].status = "RECEIVED"
<1>1. order'[o] = Buying!Patched(order[o], job[q].order[o]) /\ order[o] \in OrderRow
  BY CommitEffect, PlanTypes
<1>2. Buying!StatusPlan(q) \/ Buying!FilesPlan(q) \/ Buying!LockedPlan(q)
  BY DEF Buying!IInv, Buying!Planned, Buying!Commit, Buying!End
<1>3. ~Buying!FilesPlan(q)
  BY DEF Buying!FilesPlan, Buying!Plan, Buying!Nothing
<1>4. CASE Buying!StatusPlan(q)
  <2>1. PICK x \in Orders, status \in Buying!Statuses : Buying!Plan(q, Buying!One(x, [status |-> status]), Buying!Nothing)
    BY <1>4 DEF Buying!StatusPlan
  <2>2. job[q].order[o] = [status |-> status]
    BY <2>1 DEF Buying!Plan, Buying!One
  <2>3. DOMAIN job[q].order[o] = {"status"}
    BY <2>2
  <2>4. QED
    BY <1>1, <2>2, <2>3, PatchedRow
<1>5. CASE Buying!LockedPlan(q)
  <2>1. PICK x \in Orders : Buying!CreatePlan(q, x) \/ Buying!UpdatePlan(q, x) \/ Buying!RemovePlan(q, x) \/ Buying!ConvertPlan(q, x)
    BY <1>5 DEF Buying!LockedPlan
  <2>2. CASE Buying!CreatePlan(q, x)
    <3>1. PICK total \in Totals, status \in Buying!Statuses :
            Buying!Plan(q, Buying!One(x, [status |-> status, total |-> total, bill |-> NoOne]), Buying!Nothing)
      BY <2>2 DEF Buying!CreatePlan
    <3>2. job[q].order[o] = [status |-> status, total |-> total, bill |-> NoOne]
      BY <3>1 DEF Buying!Plan, Buying!One
    <3>3. DOMAIN job[q].order[o] = {"status", "total", "bill"}
      BY <3>2
    <3>4. QED
      BY <1>1, <3>2, <3>3, PatchedRow
  <2>3. CASE Buying!UpdatePlan(q, x)
    <3>1. PICK total \in Totals, status \in Buying!Statuses :
            Buying!Plan(q, Buying!One(x, [total |-> total, status |-> status]), Buying!Nothing)
      BY <2>3 DEF Buying!UpdatePlan
    <3>2. job[q].order[o] = [total |-> total, status |-> status]
      BY <3>1 DEF Buying!Plan, Buying!One
    <3>3. DOMAIN job[q].order[o] = {"status", "total"}
      BY <3>2
    <3>4. QED
      BY <1>1, <3>2, <3>3, PatchedRow
  <2>4. CASE Buying!RemovePlan(q, x)
    <3>1. job[q].order[o] = Buying!Deleted
      BY <2>4 DEF Buying!RemovePlan, Buying!Plan, Buying!One
    <3>2. DOMAIN job[q].order[o] = {"status", "total", "bill"}
      BY <3>1 DEF Buying!Deleted
    <3>3. QED
      BY <1>1, <3>1, <3>2, PatchedRow DEF Buying!Deleted
  <2>5. CASE Buying!ConvertPlan(q, x)
    <3>1. PICK b \in BillIds : Buying!Plan(q, Buying!One(x, [status |-> "RECEIVED", bill |-> b]), Buying!One(b, order[x].total))
      BY <2>5 DEF Buying!ConvertPlan
    <3>2. job[q].order[o] = [status |-> "RECEIVED", bill |-> b]
      BY <3>1 DEF Buying!Plan, Buying!One
    <3>3. DOMAIN job[q].order[o] = {"status", "bill"}
      BY <3>2
    <3>4. QED
      BY <1>1, <3>2, <3>3, PatchedRow
  <2>6. QED
    BY <2>1, <2>2, <2>3, <2>4, <2>5
<1>6. QED
  BY <1>2, <1>3, <1>4, <1>5

LEMMA AloneCommit ==
  ASSUME NoOne \notin Requests, Buying!PurchaseOrdersAssumption, Buying!IInv, Buying!AloneInv, NEW q \in Requests, Buying!Commit(q),
         \A r, s \in Requests : r = s
  PROVE  Buying!AloneInv' /\ Buying!ClosedStayClosedStep
<1>1. Buying!PlansAreCurrent'
  <2>1. \A r \in Requests : pc'[r] = "idle"
    BY DEF Buying!Commit, Buying!End, Buying!IInv, Buying!TypeOK
  <2>2. QED
    BY <2>1 DEF Buying!PlansAreCurrent
<1>2. pc[q] = "checked"
  BY DEF Buying!Commit, Buying!End
<1>3. Buying!ConvertedStayReceived'
  <2>1. ASSUME NEW o \in Orders, order'[o].bill # NoOne PROVE order'[o].status = "RECEIVED"
    <3>1. CASE o \in DOMAIN job[q].order
      <4>1. CASE order'[o].bill \in {NoOne, order[o].bill}
        BY <1>2, <2>1, <3>1, <4>1, CommittedStatus DEF Buying!AloneInv, Buying!PlansAreCurrent
      <4>2. QED
        BY <3>1, <4>1, CommittedStatus
    <3>2. CASE o \notin DOMAIN job[q].order
      BY <2>1, <3>2, CommitEffect DEF Buying!AloneInv, Buying!ConvertedStayReceived
    <3>3. QED
      BY <3>1, <3>2
  <2>2. QED
    BY <2>1 DEF Buying!ConvertedStayReceived
<1>4. Buying!FilesWithinLimit'
  <2>1. ASSUME NEW x \in Orders \cup BillIds PROVE files'[x] <= MaxFiles
    <3>1. files[x] <= MaxFiles /\ 0 <= MaxFiles
      BY DEF Buying!AloneInv, Buying!FilesWithinLimit, Buying!PurchaseOrdersAssumption
    <3>2. x \in DOMAIN job[q].files => files[x] + job[q].files[x] <= MaxFiles
      BY <1>2 DEF Buying!AloneInv, Buying!PlansAreCurrent
    <3>3. files'[x] = IF x \in Orders /\ order'[x].status = "deleted" THEN 0
                      ELSE IF x \in DOMAIN job[q].files THEN files[x] + job[q].files[x] ELSE files[x]
      BY CommitEffect
    <3>4. QED
      BY <3>1, <3>2, <3>3
  <2>2. QED
    BY <2>1 DEF Buying!FilesWithinLimit
<1>5. Buying!ClosedStayClosedStep
  <2>1. ASSUME NEW o \in Orders, order[o].status \in {"CANCELLED", "CLOSED"}
        PROVE  order'[o].status \in {order[o].status, "deleted"}
    <3>1. CASE o \in DOMAIN job[q].order
      BY <1>2, <2>1, <3>1, CommittedStatus DEF Buying!AloneInv, Buying!PlansAreCurrent
    <3>2. CASE o \notin DOMAIN job[q].order
      BY <3>2, CommitEffect
    <3>3. QED
      BY <3>1, <3>2
  <2>2. QED
    BY <2>1 DEF Buying!ClosedStayClosedStep
<1>6. QED
  BY <1>1, <1>3, <1>4, <1>5 DEF Buying!AloneInv

LEMMA AloneCheck ==
  ASSUME Buying!IInv, Buying!AloneInv, NEW q \in Requests, NEW op, NEW locks, NEW orders, NEW bills, NEW added,
         Buying!Check(q, op, locks, orders, bills, added), \A r, s \in Requests : r = s,
         \A o \in DOMAIN orders :
           /\ order[o].bill # NoOne => orders[o].status = "RECEIVED"
           /\ order[o].status \in {"CANCELLED", "CLOSED"} => orders[o].status \in {order[o].status, "deleted"},
         \A x \in DOMAIN added : files[x] + added[x] <= MaxFiles
  PROVE  Buying!AloneInv' /\ Buying!ClosedStayClosedStep
<1>1. job'[q].order = orders /\ job'[q].files = added /\ order' = order /\ files' = files
  BY Checked
<1>2. Buying!PlansAreCurrent'
  BY <1>1 DEF Buying!PlansAreCurrent
<1>3. QED
  BY <1>1, <1>2 DEF Buying!AloneInv, Buying!ConvertedStayReceived, Buying!FilesWithinLimit,
     Buying!ClosedStayClosedStep

LEMMA AloneHandlers ==
  ASSUME Buying!PurchaseOrdersAssumption, Buying!IInv, Buying!AloneInv, NEW q \in Requests, NEW o \in Orders,
         \A r, s \in Requests : r = s
  PROVE  /\ \A total \in Totals, status \in Buying!Statuses :
              Buying!Create(q, o, total, status) => Buying!AloneInv' /\ Buying!ClosedStayClosedStep
         /\ \A b \in BillIds : Buying!ConvertToBill(q, o, b) => Buying!AloneInv' /\ Buying!ClosedStayClosedStep
         /\ \A status \in Buying!Statuses : Buying!UpdateStatus(q, o, status) => Buying!AloneInv' /\ Buying!ClosedStayClosedStep
         /\ \A total \in Totals, status \in Buying!Statuses :
              Buying!Update(q, o, total, status) => Buying!AloneInv' /\ Buying!ClosedStayClosedStep
         /\ Buying!Remove(q, o) => Buying!AloneInv' /\ Buying!ClosedStayClosedStep
<1>1. ASSUME NEW total \in Totals, NEW status \in Buying!Statuses, Buying!Create(q, o, total, status)
      PROVE  Buying!AloneInv' /\ Buying!ClosedStayClosedStep
  <2> DEFINE new == [Buying!NoOrder EXCEPT !.status = status, !.total = total]
             orders == Buying!One(o, new)
  <2>1. order[o].status = "none" /\ Buying!Check(q, "create", {"branch"}, orders, Buying!Nothing, Buying!Nothing)
    BY <1>1 DEF Buying!Create
  <2>2. DOMAIN orders = {o} /\ order[o].bill = NoOne /\ DOMAIN Buying!Nothing = {}
    BY <2>1 DEF Buying!One, Buying!Nothing, Buying!IInv, Buying!RowsAreWhole, Buying!Exists
  <2> HIDE DEF orders
  <2>3. QED
    BY <2>1, <2>2, AloneCheck
<1>2. ASSUME NEW b \in BillIds, Buying!ConvertToBill(q, o, b) PROVE Buying!AloneInv' /\ Buying!ClosedStayClosedStep
  <2> DEFINE orders == Buying!One(o, [status |-> "RECEIVED", bill |-> b])
             added == Buying!One(b, files[o])
  <2>1. /\ order[o].status \in Buying!OpenOrder /\ bill[b] = 0
        /\ Buying!Check(q, "convert", {"branch"}, orders, Buying!One(b, order[o].total), added)
    BY <1>2 DEF Buying!ConvertToBill
  <2>2. DOMAIN orders = {o} /\ orders[o].status = "RECEIVED" /\ DOMAIN added = {b} /\ added[b] = files[o]
    BY DEF Buying!One
  <2>3. files[b] + added[b] <= MaxFiles
    BY <2>1, <2>2, PlanTypes DEF Buying!IInv, Buying!RowsAreWhole, Buying!AloneInv,
       Buying!FilesWithinLimit
  <2>4. order[o].status \notin {"CANCELLED", "CLOSED"}
    BY <2>1 DEF Buying!OpenOrder
  <2> HIDE DEF orders, added
  <2>5. QED
    BY <2>1, <2>2, <2>3, <2>4, AloneCheck
<1>3. ASSUME NEW status \in Buying!Statuses, Buying!UpdateStatus(q, o, status) PROVE Buying!AloneInv' /\ Buying!ClosedStayClosedStep
  <2> DEFINE orders == Buying!One(o, [status |-> status])
  <2>1. /\ order[o].bill # NoOne => status = "RECEIVED"
        /\ order[o].status \in {"CANCELLED", "CLOSED"} => status = order[o].status
        /\ Buying!Check(q, "status", {}, orders, Buying!Nothing, Buying!Nothing)
    BY <1>3 DEF Buying!UpdateStatus
  <2>2. DOMAIN orders = {o} /\ orders[o].status = status /\ DOMAIN Buying!Nothing = {}
    BY DEF Buying!One, Buying!Nothing
  <2> HIDE DEF orders
  <2>3. QED
    BY <2>1, <2>2, AloneCheck
<1>4. ASSUME NEW total \in Totals, NEW status \in Buying!Statuses, Buying!Update(q, o, total, status)
      PROVE  Buying!AloneInv' /\ Buying!ClosedStayClosedStep
  <2> DEFINE orders == Buying!One(o, [total |-> total, status |-> status])
  <2>1. /\ order[o].bill = NoOne /\ order[o].status \in Buying!OpenOrder
        /\ Buying!Check(q, "update", {"branch"}, orders, Buying!Nothing, Buying!Nothing)
    BY <1>4 DEF Buying!Update
  <2>2. DOMAIN orders = {o} /\ order[o].status \notin {"CANCELLED", "CLOSED"} /\ DOMAIN Buying!Nothing = {}
    BY <2>1 DEF Buying!One, Buying!Nothing, Buying!OpenOrder
  <2> HIDE DEF orders
  <2>3. QED
    BY <2>1, <2>2, AloneCheck
<1>5. ASSUME Buying!Remove(q, o) PROVE Buying!AloneInv' /\ Buying!ClosedStayClosedStep
  <2> DEFINE orders == Buying!One(o, Buying!Deleted)
  <2>1. order[o].bill = NoOne /\ Buying!Check(q, "remove", {"branch"}, orders, Buying!Nothing, Buying!Nothing)
    BY <1>5 DEF Buying!Remove
  <2>2. DOMAIN orders = {o} /\ orders[o].status = "deleted" /\ DOMAIN Buying!Nothing = {}
    BY DEF Buying!One, Buying!Nothing, Buying!Deleted
  <2> HIDE DEF orders
  <2>3. QED
    BY <2>1, <2>2, AloneCheck
<1>6. QED
  BY <1>1, <1>2, <1>3, <1>4, <1>5

LEMMA BuyingAloneStep ==
  ASSUME NoOne \notin Requests, Buying!PurchaseOrdersAssumption, \A r, s \in Requests : r = s
  PROVE  Buying!IInv /\ Buying!AloneInv /\ [Buying!Next]_(Buying!vars) => Buying!AloneInv' /\ Buying!ClosedStayClosedStep
<1> SUFFICES ASSUME Buying!IInv, Buying!AloneInv, [Buying!Next]_(Buying!vars) PROVE Buying!AloneInv' /\ Buying!ClosedStayClosedStep
  OBVIOUS
<1>1. ASSUME order' = order, files' = files,
             \A q \in Requests : pc'[q] = "checked" => pc[q] = "checked" /\ job'[q] = job[q]
      PROVE  Buying!AloneInv' /\ Buying!ClosedStayClosedStep
  BY <1>1 DEF Buying!AloneInv, Buying!ConvertedStayReceived, Buying!FilesWithinLimit,
     Buying!PlansAreCurrent, Buying!ClosedStayClosedStep
<1>2. CASE UNCHANGED Buying!vars
  BY <1>1, <1>2 DEF Buying!vars
<1>3. ASSUME NEW q \in Requests, Buying!Rollback(q) PROVE Buying!AloneInv' /\ Buying!ClosedStayClosedStep
  <2>1. order' = order /\ files' = files /\ \A r \in Requests : pc'[r] = "idle"
    BY <1>3 DEF Buying!Rollback, Buying!End, Buying!IInv, Buying!TypeOK
  <2>2. QED
    BY <1>1, <2>1
<1>4. ASSUME NEW q \in Requests, NEW x \in Orders \cup BillIds, NEW n \in 1 .. MaxFiles,
             Buying!AddAttachments(q, x, n)
      PROVE  Buying!AloneInv' /\ Buying!ClosedStayClosedStep
  <2> DEFINE added == Buying!One(x, n)
  <2>1. files[x] + n <= MaxFiles /\ Buying!Check(q, "files", {}, Buying!Nothing, Buying!Nothing, added)
    BY <1>4 DEF Buying!AddAttachments
  <2>2. DOMAIN added = {x} /\ added[x] = n /\ DOMAIN Buying!Nothing = {}
    BY DEF Buying!One, Buying!Nothing
  <2> HIDE DEF added
  <2>3. QED
    BY <2>1, <2>2, AloneCheck
<1>5. ASSUME NEW o \in Orders, Buying!RemoveAttachment(o) PROVE Buying!AloneInv' /\ Buying!ClosedStayClosedStep
  <2>1. /\ files' = [files EXCEPT ![o] = @ - 1]
        /\ order' = order /\ pc' = pc /\ job' = job
    BY <1>5 DEF Buying!RemoveAttachment
  <2>2. \A x \in Orders \cup BillIds : files'[x] \in Int /\ files'[x] <= files[x]
    BY <2>1, PlanTypes DEF Buying!IInv, Buying!TypeOK
  <2>3. Buying!FilesWithinLimit'
    BY <2>2, PlanTypes DEF Buying!AloneInv, Buying!FilesWithinLimit,
       Buying!PurchaseOrdersAssumption
  <2>4. Buying!PlansAreCurrent'
    <3>1. ASSUME NEW q \in Requests, pc[q] = "checked", NEW x \in DOMAIN job[q].files
          PROVE  files'[x] + job[q].files[x] <= MaxFiles
      <4>1. Buying!StatusPlan(q) \/ Buying!FilesPlan(q) \/ Buying!LockedPlan(q)
        BY <3>1 DEF Buying!IInv, Buying!Planned
      <4>2. x \in Orders \cup BillIds /\ job[q].files[x] \in Nat
        BY <3>1, <4>1 DEF Buying!StatusPlan, Buying!FilesPlan, Buying!LockedPlan,
           Buying!CreatePlan, Buying!UpdatePlan, Buying!RemovePlan, Buying!ConvertPlan,
           Buying!Plan
      <4>3. files[x] + job[q].files[x] <= MaxFiles
        BY <3>1 DEF Buying!AloneInv, Buying!PlansAreCurrent
      <4>4. QED
        BY <2>2, <4>2, <4>3, PlanTypes DEF Buying!PurchaseOrdersAssumption
    <3>2. QED
      BY <2>1, <3>1 DEF Buying!AloneInv, Buying!PlansAreCurrent
  <2>5. QED
    BY <2>1, <2>3, <2>4 DEF Buying!AloneInv, Buying!ConvertedStayReceived,
       Buying!ClosedStayClosedStep
<1>6. CASE Buying!Next
  BY <1>3, <1>4, <1>5, <1>6, AloneHandlers, AloneCommit DEF Buying!Next
<1>7. QED
  BY <1>2, <1>6

LEMMA BuyingAloneInit ==
  ASSUME Buying!PurchaseOrdersAssumption PROVE Buying!Init => Buying!AloneInv
BY DEF Buying!Init, Buying!AloneInv, Buying!ConvertedStayReceived, Buying!FilesWithinLimit,
   Buying!PlansAreCurrent, Buying!NoOrder, Buying!PurchaseOrdersAssumption

-----------------------------------------------------------------------------
(* Sign-in and sessions.                                                     *)

USE AuthAssumption

(* No session comes back, and no login looks at them. *)
Fading == Opened \subseteq Opened' /\ Live' \cap Opened \subseteq Live
NoLook ==
  \A r \in Requests : pc'[r] = "trim" => pc[r] = "trim" /\ job'[r] = job[r]

-----------------------------------------------------------------------------
(* Room for a login.                                                         *)

\* Of finitely many sessions in an order of use one is the oldest.
LEMMA SomeOldest ==
  ASSUME NEW L, IsFiniteSet(L), L # {}, NEW after \in [L -> SUBSET L],
         \A s \in L : s \notin after[s],
         \A s, t \in L : s # t => (s \in after[t] <=> t \notin after[s]),
         \A s, t \in L : t \in after[s] => after[t] \subseteq after[s]
  PROVE  \E s \in L : after[s] = L \ {s}
<1> DEFINE Before(s) == {t \in L : s \in after[t]}
           T == {Before(s) : s \in L}
<1>1. IsWellFoundedOn(StrictSubsetOrdering(L), FiniteSubsetsOf(L))
  BY FS_StrictSubsetOrderingWellFounded
<1>2. T \subseteq FiniteSubsetsOf(L) /\ T # {}
  <2>1. \A s \in L : Before(s) \in SUBSET L
    OBVIOUS
  <2>2. FiniteSubsetsOf(L) = SUBSET L
    BY FS_FiniteSubsetsOfFinite
  <2>3. PICK s \in L : TRUE
    OBVIOUS
  <2>4. Before(s) \in T
    BY <2>3
  <2>5. T \subseteq SUBSET L
    BY <2>1
  <2>6. QED
    BY <2>2, <2>4, <2>5
<1>3. PICK b \in T : \A c \in T : <<c, b>> \notin StrictSubsetOrdering(L)
  BY <1>1, <1>2, WFMin
<1>4. PICK s \in L : b = Before(s)
  OBVIOUS
<1>5. Before(s) = {}
  <2>1. SUFFICES ASSUME NEW t \in Before(s) PROVE FALSE
    OBVIOUS
  <2>2. Before(t) \subseteq Before(s) /\ t \notin Before(t)
    OBVIOUS
  <2>3. <<Before(t), Before(s)>> \in StrictSubsetOrdering(L)
    BY <2>1, <2>2 DEF StrictSubsetOrdering
  <2>4. QED
    BY <1>3, <1>4, <2>3
<1>6. after[s] = L \ {s}
  BY <1>5
<1>7. QED
  BY <1>6

\* The sessions that fewer than limit others were used after are no more than limit.
LEMMA RoomIsMade ==
  ASSUME NEW L, IsFiniteSet(L), NEW after \in [L -> SUBSET L], NEW limit \in Nat,
         \A s \in L : s \notin after[s],
         \A s, t \in L : s # t => (s \in after[t] <=> t \notin after[s]),
         \A s, t \in L : t \in after[s] => after[t] \subseteq after[s],
         NEW K \in SUBSET L, \A s \in K : Cardinality(after[s]) < limit
  PROVE  Cardinality(K) <= limit
<1>1. CASE K = {}
  BY <1>1, FS_EmptySet
<1>2. CASE K # {}
  <2> DEFINE within == [s \in K |-> after[s] \cap K]
  <2>1. IsFiniteSet(K) /\ Cardinality(K) \in Nat
    BY FS_Subset, FS_CardinalityType
  <2>2. /\ within \in [K -> SUBSET K]
        /\ \A s \in K : s \notin within[s]
        /\ \A s, t \in K : s # t => (s \in within[t] <=> t \notin within[s])
        /\ \A s, t \in K : t \in within[s] => within[t] \subseteq within[s]
    OBVIOUS
  <2>3. PICK s \in K : within[s] = K \ {s}
    <3> HIDE DEF within
    <3> QED
      BY <1>2, <2>1, <2>2, SomeOldest
  <2>4. K \ {s} \subseteq after[s]
    BY <2>3
  <2>5. Cardinality(K \ {s}) = Cardinality(K) - 1
    BY <2>1, FS_RemoveElement
  <2>6. IsFiniteSet(after[s])
    BY FS_Subset
  <2>7. Cardinality(K \ {s}) <= Cardinality(after[s]) /\ Cardinality(after[s]) \in Nat
    BY <2>4, <2>6, FS_Subset, FS_CardinalityType
  <2>8. Cardinality(after[s]) < limit
    OBVIOUS
  <2>9. QED
    BY <2>1, <2>5, <2>7, <2>8
<1>3. QED
  BY <1>1, <1>2

\* A smaller set of sessions stays within the limit.
LEMMA FewerFit ==
  ASSUME NEW S \in SUBSET Sessions, NEW T \in SUBSET S, Cardinality(S) <= MaxSessions
  PROVE  Cardinality(T) <= MaxSessions
<1>1. IsFiniteSet(S)
  BY FS_Subset
<1>2. IsFiniteSet(T) /\ Cardinality(T) <= Cardinality(S)
  BY <1>1, FS_Subset
<1>3. Cardinality(S) \in Nat /\ Cardinality(T) \in Nat
  BY <1>1, <1>2, FS_CardinalityType
<1>4. QED
  BY <1>2, <1>3

\* The sessions that ReadExcess leaves alone are within the limit.
LEMMA RestFits ==
  ASSUME TypeOK, UseIsAnOrder
  PROVE  Cardinality(Live \ Excess) <= MaxSessions
<1> DEFINE after == [s \in Live |-> newer[s] \cap Live]
<1>1. Live \subseteq Opened /\ Opened \subseteq Sessions
  BY DEF Live, Opened, Valid
<1>2. IsFiniteSet(Live)
  BY <1>1, FS_Subset
<1>3. /\ after \in [Live -> SUBSET Live]
      /\ \A s \in Live : s \notin after[s]
      /\ \A s, t \in Live : s # t => (s \in after[t] <=> t \notin after[s])
      /\ \A s, t \in Live : t \in after[s] => after[t] \subseteq after[s]
  BY <1>1 DEF UseIsAnOrder
<1>4. \A s \in Live \ Excess : Cardinality(after[s]) < MaxSessions
  <2>1. TAKE s \in Live \ Excess
  <2>2. ~(Cardinality(newer[s] \cap Live) >= MaxSessions)
    BY DEF Excess
  <2>3. IsFiniteSet(newer[s] \cap Live)
    BY <1>2, FS_Subset
  <2>4. Cardinality(newer[s] \cap Live) \in Nat
    BY <2>3, FS_CardinalityType
  <2>5. QED
    BY <2>2, <2>4
<1>5. QED
  <2> HIDE DEF after
  <2> QED
    BY <1>2, <1>3, <1>4, RoomIsMade

-----------------------------------------------------------------------------
(* What the steps of a request leave as it was.                              *)

LEMMA NoJobType == NoJob \in JobType /\ NothingRead \in ReadType
<1>1. NothingRead \in ReadType
  BY DEF NothingRead, ReadType
<1>2. QED
  BY <1>1 DEF NoJob, JobType

\* A request goes to its next stage, the others stay.
LEMMA GotoEffect ==
  ASSUME TypeOK, NEW q \in Requests, NEW stage \in Stages, NEW j \in JobType, Goto(q, stage, j)
  PROVE  /\ pc' \in [Requests -> Stages] /\ job' \in [Requests -> JobType]
         /\ pc'[q] = stage /\ job'[q] = j
         /\ \A r \in Requests \ {q} : pc'[r] = pc[r] /\ job'[r] = job[r]
BY DEF TypeOK, Goto

LEMMA EndEffect ==
  ASSUME TypeOK, NEW q \in Requests, End(q)
  PROVE  /\ pc' \in [Requests -> Stages] /\ job' \in [Requests -> JobType]
         /\ pc'[q] = "idle"
         /\ \A r \in Requests \ {q} : pc'[r] = pc[r] /\ job'[r] = job[r]
<1>1. "idle" \in Stages
  BY DEF Stages
<1>2. QED
  BY <1>1, NoJobType, GotoEffect DEF End

\* Closing sessions opens none and keeps every chain.
LEMMA RevokedEffect ==
  ASSUME TypeOK, ChainsHold, NEW closed, session' = Revoked(closed)
  PROVE  /\ session' \in [Sessions -> SessionType]
         /\ Opened' = Opened /\ Live' = Live \ closed
         /\ \A s \in Sessions :
              /\ session'[s].token = session[s].token
              /\ session'[s].opened = session[s].opened
              /\ session'[s].expired = session[s].expired
              /\ session'[s].revoked = (session[s].revoked \/ (s \in closed /\ session[s].opened))
<1>1. ASSUME NEW s \in Sessions
      PROVE  /\ session'[s] \in SessionType
             /\ session'[s].token = session[s].token
             /\ session'[s].opened = session[s].opened
             /\ session'[s].expired = session[s].expired
             /\ session'[s].revoked = (session[s].revoked \/ (s \in closed /\ session[s].opened))
  <2>1. PICK row \in SessionType : row = session[s]
    BY DEF TypeOK
  <2>2. session'[s] = IF s \in closed /\ row.opened THEN [row EXCEPT !.revoked = TRUE] ELSE row
    BY <2>1 DEF Revoked
  <2>3. [row EXCEPT !.revoked = TRUE] \in SessionType
    BY DEF SessionType
  <2>4. CASE s \in closed /\ row.opened
    BY <2>1, <2>2, <2>3, <2>4 DEF SessionType
  <2>5. CASE ~(s \in closed /\ row.opened)
    BY <2>1, <2>2, <2>5 DEF SessionType
  <2>6. QED
    BY <2>4, <2>5
<1>2. session' \in [Sessions -> SessionType]
  BY <1>1 DEF Revoked
<1>3. Opened' = Opened
  BY <1>1 DEF Opened
<1>4. Live' = Live \ closed
  BY <1>1 DEF Live, Valid
<1>5. QED
  BY <1>1, <1>2, <1>3, <1>4

LEMMA RevokedKeepsChains ==
  ASSUME TypeOK, ChainsHold, NEW closed, session' = Revoked(closed), pairs' = pairs
  PROVE  ChainsHold'
BY RevokedEffect DEF ChainsHold

\* While sessions only fade and nobody looks at them, the limit and what the
\* logins know of it stay.
LEMMA LimitKept ==
  ASSUME IInv, TypeOK', Fading, NoLook, settled' = settled
  PROVE  /\ (settled \subseteq Opened)'
         /\ \A r \in Requests : TrimJob(r)'
         /\ LooksAreOrdered'
         /\ SessionsWithinLimit'
<1>1. settled \subseteq Opened /\ settled \subseteq Sessions
  BY DEF IInv, Opened
<1>2. (settled \subseteq Opened)'
  BY <1>1 DEF Fading
<1>3. ASSUME NEW r \in Requests PROVE TrimJob(r)'
  <2>1. SUFFICES ASSUME pc'[r] = "trim"
                 PROVE  /\ job'[r].seen \subseteq Opened'
                        /\ Cardinality((Live' \cap job'[r].seen) \ job'[r].excess) <= MaxSessions
                        /\ job'[r].seen \subseteq settled' \/ settled' \subseteq job'[r].seen
    BY DEF TrimJob
  <2>2. pc[r] = "trim" /\ job'[r] = job[r] /\ TrimJob(r)
    BY <2>1 DEF NoLook, IInv
  <2>3. /\ job[r].seen \subseteq Opened
        /\ Cardinality((Live \cap job[r].seen) \ job[r].excess) <= MaxSessions
        /\ job[r].seen \subseteq settled \/ settled \subseteq job[r].seen
    BY <2>2 DEF TrimJob
  <2>4. (Live' \cap job[r].seen) \ job[r].excess \subseteq (Live \cap job[r].seen) \ job[r].excess
    BY <2>3 DEF Fading
  <2>5. (Live \cap job[r].seen) \ job[r].excess \subseteq Sessions
    BY DEF Live
  <2>6. Cardinality((Live' \cap job[r].seen) \ job[r].excess) <= MaxSessions
    BY <2>3, <2>4, <2>5, FewerFit
  <2>7. QED
    BY <2>2, <2>3, <2>6 DEF Fading
<1>4. LooksAreOrdered'
  BY DEF LooksAreOrdered, NoLook, IInv
<1>5. SessionsWithinLimit'
  <2>1. Live' \cap settled \subseteq Live \cap settled
    BY <1>1 DEF Fading
  <2>2. Live \cap settled \subseteq Sessions
    BY <1>1
  <2>3. Cardinality(Live \cap settled) <= MaxSessions
    BY DEF IInv, SessionsWithinLimit
  <2>4. Cardinality(Live' \cap settled) <= MaxSessions
    BY <2>1, <2>2, <2>3, FewerFit
  <2>5. QED
    BY <2>4 DEF SessionsWithinLimit
<1>6. QED
  BY <1>2, <1>3, <1>4, <1>5

-----------------------------------------------------------------------------
(* Steps that neither open a session nor look at the live ones.              *)

(* Requests end or go on to a stage that relies on no session. *)
Calm ==
  /\ pc' \in [Requests -> Stages] /\ job' \in [Requests -> JobType]
  /\ \A r \in Requests :
       pc'[r] \in {"trim", "rotate", "reuse"} => pc'[r] = pc[r] /\ job'[r] = job[r]
UserFits == user \in UserType /\ LockFollowsFailures

LEMMA CalmGoto ==
  ASSUME TypeOK, NEW q \in Requests, NEW stage \in Stages \ {"trim", "rotate", "reuse"},
         NEW j \in JobType, Goto(q, stage, j)
  PROVE  Calm
BY GotoEffect DEF Calm

LEMMA CalmEnd ==
  ASSUME TypeOK, NEW q \in Requests, End(q)
  PROVE  Calm
BY EndEffect DEF Calm

LEMMA CalmStay ==
  ASSUME TypeOK, UNCHANGED <<pc, job>>
  PROVE  Calm
BY DEF Calm, TypeOK

LEMMA CalmKeepsRefreshes ==
  ASSUME IInv, Calm, Opened \subseteq Opened'
  PROVE  NoLook /\ \A r \in Requests : RefreshJob(r)'
BY DEF IInv, Calm, NoLook, RefreshJob

\* Steps that write at most the user.
LEMMA QuietStep ==
  ASSUME IInv, Calm, UNCHANGED <<session, newer, pairs, settled>>, UserFits'
  PROVE  IInv'
<1>1. TypeOK'
  BY DEF IInv, TypeOK, Calm, UserFits
<1>2. Opened' = Opened /\ Live' = Live
  BY DEF Opened, Live, Valid
<1>3. ChainsHold' /\ UseIsAnOrder'
  BY <1>2 DEF IInv, ChainsHold, UseIsAnOrder
<1>4. Fading
  BY <1>2 DEF Fading
<1>5. NoLook /\ \A r \in Requests : RefreshJob(r)'
  BY <1>2, CalmKeepsRefreshes
<1>6. QED
  BY <1>1, <1>3, <1>4, <1>5, LimitKept DEF IInv, UserFits

\* Steps that revoke sessions, and may write the user with it.
LEMMA ClosingStep ==
  ASSUME IInv, Calm, NEW closed, session' = Revoked(closed),
         UNCHANGED <<newer, pairs, settled>>, UserFits'
  PROVE  IInv'
<1>1. /\ session' \in [Sessions -> SessionType]
      /\ Opened' = Opened /\ Live' = Live \ closed
  BY RevokedEffect DEF IInv
<1>2. TypeOK'
  BY <1>1 DEF IInv, TypeOK, Calm, UserFits
<1>3. ChainsHold'
  BY RevokedKeepsChains DEF IInv
<1>4. UseIsAnOrder'
  BY <1>1 DEF IInv, UseIsAnOrder
<1>5. Fading
  BY <1>1 DEF Fading
<1>6. NoLook /\ \A r \in Requests : RefreshJob(r)'
  BY <1>1, CalmKeepsRefreshes
<1>7. QED
  BY <1>2, <1>3, <1>4, <1>5, <1>6, LimitKept DEF IInv, UserFits

\* A step that leaves the user alone leaves it fit.
LEMMA UserStays ==
  ASSUME IInv, user' = user
  PROVE  UserFits'
BY DEF IInv, TypeOK, UserFits, LockFollowsFailures

-----------------------------------------------------------------------------
(* The steps that open, use and revoke sessions.                             *)

\* The session that was used last comes after all others.
LEMMA TouchKeepsOrder ==
  ASSUME TypeOK, UseIsAnOrder, NEW s \in Sessions, Touch(s), Opened' = Opened \cup {s}
  PROVE  UseIsAnOrder' /\ newer' \in [Sessions -> SUBSET Sessions]
<1>1. \A t \in Sessions : newer'[t] = IF t = s THEN {} ELSE newer[t] \cup {s}
  BY DEF Touch
<1>2. newer' \in [Sessions -> SUBSET Sessions]
  BY DEF Touch, TypeOK
<1>3. Opened \subseteq Sessions /\ Opened' \subseteq Sessions
  BY DEF Opened
<1>4. \A t \in Opened' : t = s \/ t \in Opened
  OBVIOUS
<1>5. ASSUME NEW t \in Opened' PROVE t \notin newer'[t]
  <2>1. t # s => t \notin newer[t]
    BY <1>4 DEF UseIsAnOrder
  <2>2. QED
    BY <1>1, <1>3, <2>1
<1>6. ASSUME NEW t \in Opened', NEW u \in Opened', t # u
      PROVE  t \in newer'[u] <=> u \notin newer'[t]
  <2>1. CASE t = s
    BY <1>1, <1>3, <1>6, <2>1
  <2>2. CASE u = s
    BY <1>1, <1>3, <1>6, <2>2
  <2>3. CASE t # s /\ u # s
    <3>1. t \in newer[u] <=> u \notin newer[t]
      BY <1>4, <1>6, <2>3 DEF UseIsAnOrder
    <3>2. QED
      BY <1>1, <1>3, <2>3, <3>1
  <2>4. QED
    BY <2>1, <2>2, <2>3
<1>7. ASSUME NEW t \in Opened', NEW u \in Opened', u \in newer'[t]
      PROVE  newer'[u] \subseteq newer'[t]
  <2>1. CASE u = s
    BY <1>1, <1>3, <2>1
  <2>2. CASE u # s
    <3>1. t # s /\ u \in newer[t]
      BY <1>1, <1>3, <1>7, <2>2
    <3>2. newer[u] \subseteq newer[t]
      BY <1>4, <2>2, <3>1 DEF UseIsAnOrder
    <3>3. QED
      BY <1>1, <1>3, <2>2, <3>1, <3>2
  <2>3. QED
    BY <2>1, <2>2
<1>8. QED
  BY <1>2, <1>5, <1>6, <1>7 DEF UseIsAnOrder

LEMMA OpenSessionKeeps ==
  ASSUME IInv, NEW q \in Requests, NEW s \in Sessions, OpenSession(q, s)
  PROVE  IInv'
<1> DEFINE row == [opened |-> TRUE, revoked |-> FALSE, expired |-> FALSE, token |-> 1,
                   mfa |-> job[q].user.mfa]
<1>1. TypeOK /\ ChainsHold
  BY DEF IInv
<1>2. job[q].user.mfa \in BOOLEAN
  <2>1. PICK j \in JobType : j = job[q]
    BY <1>1 DEF TypeOK
  <2>2. j.user \in ReadType
    BY DEF JobType
  <2>3. QED
    BY <2>1, <2>2 DEF ReadType
<1>3. /\ row \in SessionType /\ row.opened /\ row.token = 1 /\ ~row.revoked /\ ~row.expired
  BY <1>2 DEF SessionType
<1>4. ~session[s].opened /\ session' = [session EXCEPT ![s] = row]
  BY DEF OpenSession
<1> HIDE DEF row
<1>5. /\ session' \in [Sessions -> SessionType] /\ session'[s] = row
      /\ \A t \in Sessions \ {s} : session'[t] = session[t]
  BY <1>1, <1>3, <1>4 DEF TypeOK
<1>6. Opened' = Opened \cup {s}
  BY <1>3, <1>5 DEF Opened
<1>7. Live' \cap Opened \subseteq Live
  BY <1>4, <1>5 DEF Live, Opened, Valid
<1>8. Calm
  BY <1>1, NoJobType, CalmGoto DEF OpenSession, Stages
<1>9. pairs' = [pairs EXCEPT ![s] = 1] /\ Touch(s) /\ user' = user /\ settled' = settled
  BY DEF OpenSession
<1>10. UseIsAnOrder' /\ newer' \in [Sessions -> SUBSET Sessions]
  BY <1>6, <1>9, TouchKeepsOrder DEF IInv
<1>11. pairs' \in [Sessions -> 0 .. MaxTokens]
  BY <1>1, <1>9 DEF TypeOK
<1>12. TypeOK'
  BY <1>1, <1>5, <1>8, <1>9, <1>10, <1>11 DEF TypeOK, Calm
<1>13. ChainsHold'
  BY <1>1, <1>3, <1>5, <1>9 DEF ChainsHold, TypeOK
<1>14. Fading
  BY <1>6, <1>7 DEF Fading
<1>15. NoLook /\ \A r \in Requests : RefreshJob(r)'
  BY <1>6, <1>8, CalmKeepsRefreshes
<1>16. UserFits'
  BY <1>9, UserStays
<1>17. QED
  BY <1>9, <1>10, <1>12, <1>13, <1>14, <1>15, <1>16, LimitKept DEF IInv, UserFits

LEMMA ReadExcessKeeps ==
  ASSUME IInv, NEW q \in Requests, ReadExcess(q)
  PROVE  IInv'
<1> DEFINE j == [NoJob EXCEPT !.excess = Excess, !.seen = Opened]
<1>1. TypeOK
  BY DEF IInv
<1>2. j \in JobType /\ j.excess = Excess /\ j.seen = Opened
  BY NoJobType DEF JobType, NoJob, Excess, Live, Opened
<1>3. Goto(q, "trim", j) /\ UNCHANGED rows
  BY DEF ReadExcess
<1> HIDE DEF j
<1>4. "trim" \in Stages
  BY DEF Stages
<1>5. /\ pc' \in [Requests -> Stages] /\ job' \in [Requests -> JobType]
      /\ pc'[q] = "trim" /\ job'[q] = j
      /\ \A r \in Requests \ {q} : pc'[r] = pc[r] /\ job'[r] = job[r]
  BY <1>1, <1>2, <1>3, <1>4, GotoEffect
<1>6. UNCHANGED <<user, session, newer, pairs, settled>>
  BY <1>3 DEF rows
<1>7. TypeOK'
  BY <1>1, <1>5, <1>6 DEF TypeOK
<1>8. Opened' = Opened /\ Live' = Live
  BY <1>6 DEF Opened, Live, Valid
<1>9. /\ ChainsHold' /\ UseIsAnOrder' /\ (settled \subseteq Opened)'
      /\ SessionsWithinLimit' /\ LockFollowsFailures'
  BY <1>6, <1>8
     DEF IInv, ChainsHold, UseIsAnOrder, SessionsWithinLimit, LockFollowsFailures
<1>10. ASSUME NEW r \in Requests PROVE RefreshJob(r)'
  BY <1>5, <1>8 DEF IInv, RefreshJob
<1>11. ASSUME NEW r \in Requests PROVE TrimJob(r)'
  <2>1. CASE r = q
    <3>1. Live \cap Opened = Live
      BY DEF Live, Opened, Valid
    <3>2. Cardinality((Live \cap j.seen) \ j.excess) <= MaxSessions
      BY <1>1, <1>2, <3>1, RestFits DEF IInv
    <3>3. settled \subseteq j.seen
      BY <1>2 DEF IInv
    <3>4. QED
      BY <1>2, <1>5, <1>6, <1>8, <2>1, <3>2, <3>3 DEF TrimJob
  <2>2. CASE r # q
    BY <1>5, <1>6, <1>8, <2>2 DEF IInv, TrimJob
  <2>3. QED
    BY <2>1, <2>2
<1>12. LooksAreOrdered'
  <2>1. \A r \in Requests : pc'[r] = "trim" => job'[r].seen \subseteq j.seen
    BY <1>2, <1>5 DEF IInv, TrimJob
  <2>2. QED
    BY <1>5, <2>1 DEF IInv, LooksAreOrdered
<1>13. QED
  BY <1>7, <1>9, <1>10, <1>11, <1>12 DEF IInv

\* After a login has made room, what it has seen is within the limit: the
\* sessions it did not pick were, and the others are revoked.
LEMMA RevokeExcessKeeps ==
  ASSUME IInv, NEW q \in Requests, RevokeExcess(q)
  PROVE  IInv'
<1> DEFINE seen == job[q].seen  excess == job[q].excess
<1>1. TypeOK /\ ChainsHold /\ TrimJob(q) /\ pc[q] = "trim"
  BY DEF IInv, RevokeExcess
<1>2. /\ session' = Revoked(excess) /\ settled' = settled \cup seen
      /\ End(q) /\ UNCHANGED <<user, newer, pairs>>
  BY DEF RevokeExcess
<1>3. /\ seen \subseteq Opened
      /\ Cardinality((Live \cap seen) \ excess) <= MaxSessions
      /\ seen \subseteq settled \/ settled \subseteq seen
  BY <1>1 DEF TrimJob
<1> HIDE DEF seen, excess
<1>4. /\ session' \in [Sessions -> SessionType]
      /\ Opened' = Opened /\ Live' = Live \ excess
  BY <1>1, <1>2, RevokedEffect
<1>5. /\ pc' \in [Requests -> Stages] /\ job' \in [Requests -> JobType] /\ pc'[q] = "idle"
      /\ \A r \in Requests \ {q} : pc'[r] = pc[r] /\ job'[r] = job[r]
  BY <1>1, <1>2, EndEffect
<1>6. settled \subseteq Opened /\ Opened \subseteq Sessions
  BY DEF IInv, Opened
<1>7. TypeOK'
  BY <1>1, <1>2, <1>3, <1>4, <1>5, <1>6 DEF TypeOK
<1>8. ChainsHold'
  BY <1>1, <1>2, RevokedKeepsChains
<1>9. UseIsAnOrder' /\ LockFollowsFailures' /\ (settled \subseteq Opened)'
  BY <1>2, <1>3, <1>4, <1>6 DEF IInv, UseIsAnOrder, LockFollowsFailures
<1>10. ASSUME NEW r \in Requests PROVE RefreshJob(r)'
  BY <1>4, <1>5 DEF IInv, RefreshJob
<1>11. ASSUME NEW r \in Requests PROVE TrimJob(r)'
  <2>1. SUFFICES ASSUME r # q, pc'[r] = "trim"
                 PROVE  /\ job'[r].seen \subseteq Opened'
                        /\ Cardinality((Live' \cap job'[r].seen) \ job'[r].excess) <= MaxSessions
                        /\ job'[r].seen \subseteq settled' \/ settled' \subseteq job'[r].seen
    BY <1>5 DEF TrimJob
  <2>2. pc[r] = "trim" /\ job'[r] = job[r] /\ TrimJob(r)
    BY <1>5, <2>1 DEF IInv
  <2>3. /\ job[r].seen \subseteq Opened
        /\ Cardinality((Live \cap job[r].seen) \ job[r].excess) <= MaxSessions
        /\ job[r].seen \subseteq settled \/ settled \subseteq job[r].seen
    BY <2>2 DEF TrimJob
  <2>4. job[r].seen \subseteq seen \/ seen \subseteq job[r].seen
    BY <1>1, <2>2 DEF IInv, LooksAreOrdered, seen
  <2>5. Cardinality((Live' \cap job[r].seen) \ job[r].excess) <= MaxSessions
    <3>1. (Live' \cap job[r].seen) \ job[r].excess \subseteq (Live \cap job[r].seen) \ job[r].excess
      BY <1>4
    <3>2. (Live \cap job[r].seen) \ job[r].excess \subseteq Sessions
      BY DEF Live
    <3>3. QED
      BY <2>3, <3>1, <3>2, FewerFit
  <2>6. QED
    BY <1>2, <1>4, <2>2, <2>3, <2>4, <2>5
<1>12. LooksAreOrdered'
  BY <1>5 DEF IInv, LooksAreOrdered
<1>13. SessionsWithinLimit'
  <2>1. CASE seen \subseteq settled
    <3>1. Live' \cap settled' \subseteq Live \cap settled
      BY <1>2, <1>4, <2>1
    <3>2. Cardinality(Live \cap settled) <= MaxSessions /\ Live \cap settled \subseteq Sessions
      BY <1>6 DEF IInv, SessionsWithinLimit
    <3>3. Cardinality(Live' \cap settled') <= MaxSessions
      BY <3>1, <3>2, FewerFit
    <3>4. QED
      BY <3>3 DEF SessionsWithinLimit
  <2>2. CASE settled \subseteq seen
    <3>1. Live' \cap settled' = (Live \cap seen) \ excess
      BY <1>2, <1>4, <2>2
    <3>2. QED
      BY <1>3, <3>1 DEF SessionsWithinLimit
  <2>3. QED
    BY <1>3, <2>1, <2>2
<1>14. QED
  BY <1>7, <1>8, <1>9, <1>10, <1>11, <1>12, <1>13 DEF IInv

LEMMA RefreshKeeps ==
  ASSUME IInv, NEW q \in Requests, NEW s \in Sessions, NEW token \in 1 .. MaxTokens - 1,
         Refresh(q, s, token)
  PROVE  IInv'
<1> DEFINE j == [NoJob EXCEPT !.session = s, !.token = token]
           stage == IF token = session[s].token THEN "rotate" ELSE "reuse"
<1>1. TypeOK
  BY DEF IInv
<1>2. j \in JobType /\ j.session = s /\ j.token = token
  <2>1. token \in 0 .. MaxTokens
    OBVIOUS
  <2>2. [NoJob EXCEPT !.session = s] \in JobType
    BY NoJobType DEF JobType
  <2>3. j = [[NoJob EXCEPT !.session = s] EXCEPT !.token = token]
    OBVIOUS
  <2>4. QED
    BY <2>1, <2>2 DEF JobType
<1>3. Goto(q, stage, j) /\ UNCHANGED rows /\ s \in Opened
  BY DEF Refresh, Start, Valid, Opened
<1> HIDE DEF j
<1>4. stage \in Stages /\ stage # "trim"
  BY DEF Stages
<1>5. /\ pc' \in [Requests -> Stages] /\ job' \in [Requests -> JobType]
      /\ pc'[q] = stage /\ job'[q] = j
      /\ \A r \in Requests \ {q} : pc'[r] = pc[r] /\ job'[r] = job[r]
  BY <1>1, <1>2, <1>3, <1>4, GotoEffect
<1> HIDE DEF stage
<1>6. UNCHANGED <<user, session, newer, pairs, settled>>
  BY <1>3 DEF rows
<1>7. TypeOK'
  BY <1>1, <1>5, <1>6 DEF TypeOK
<1>8. Opened' = Opened /\ Live' = Live
  BY <1>6 DEF Opened, Live, Valid
<1>9. ChainsHold' /\ UseIsAnOrder' /\ UserFits'
  BY <1>6, <1>8, UserStays DEF IInv, ChainsHold, UseIsAnOrder
<1>10. Fading /\ NoLook
  BY <1>4, <1>5, <1>8 DEF Fading, NoLook
<1>11. ASSUME NEW r \in Requests PROVE RefreshJob(r)'
  <2>1. CASE r = q
    BY <1>2, <1>3, <1>5, <1>8, <2>1 DEF RefreshJob
  <2>2. CASE r # q
    BY <1>5, <1>8, <2>2 DEF IInv, RefreshJob
  <2>3. QED
    BY <2>1, <2>2
<1>12. QED
  BY <1>6, <1>7, <1>9, <1>10, <1>11, LimitKept DEF IInv, UserFits

\* What an exchange of tokens writes.
LEMMA RotatedEffect ==
  ASSUME IInv, NEW q \in Requests, Rotate(q), pc[q] = "rotate",
         session[job[q].session].token = job[q].token, ~session[job[q].session].revoked
  PROVE  LET s == job[q].session  IN
         /\ s \in Opened /\ job[q].token < MaxTokens
         /\ Touch(s) /\ UNCHANGED <<user, settled>> /\ Calm
         /\ session' \in [Sessions -> SessionType]
         /\ \A t \in Sessions :
              /\ session'[t].opened = session[t].opened
              /\ session'[t].revoked = session[t].revoked
              /\ session'[t].expired = session[t].expired
              /\ session'[t].token = IF t = s THEN session[t].token + 1 ELSE session[t].token
         /\ pairs' = [pairs EXCEPT ![s] = session[s].token + 1]
         /\ pairs' \in [Sessions -> 0 .. MaxTokens]
<1> DEFINE s == job[q].session
<1>1. TypeOK /\ ChainsHold
  BY DEF IInv
<1>2. s \in Opened /\ job[q].token < MaxTokens /\ s \in Sessions
  BY DEF IInv, RefreshJob, Opened
<1>3. Rotated(s, job[q].token) /\ End(q) /\ user' = user
  BY DEF Rotate
<1>4. Calm
  BY <1>1, <1>3, CalmEnd
<1>5. /\ session' = [session EXCEPT ![s].token = session[s].token + 1]
      /\ pairs' = [pairs EXCEPT ![s] = pairs[s] + 1] /\ Touch(s) /\ settled' = settled
  BY <1>3 DEF Rotated
<1>6. PICK row \in SessionType : row = session[s]
  BY <1>1, <1>2 DEF TypeOK
<1>7. row.token + 1 \in 0 .. MaxTokens
  BY <1>2, <1>6 DEF SessionType
<1>8. /\ [row EXCEPT !.token = row.token + 1] \in SessionType
      /\ session'[s] = [row EXCEPT !.token = row.token + 1]
      /\ \A t \in Sessions \ {s} : session'[t] = session[t]
  BY <1>1, <1>2, <1>5, <1>6, <1>7 DEF SessionType, TypeOK
<1>9. session' \in [Sessions -> SessionType]
  BY <1>1, <1>5, <1>8 DEF TypeOK
<1>10. pairs[s] = session[s].token
  BY <1>1, <1>2 DEF ChainsHold
<1>11. pairs' \in [Sessions -> 0 .. MaxTokens]
  BY <1>1, <1>5, <1>6, <1>7, <1>10 DEF TypeOK
<1>12. ASSUME NEW t \in Sessions
       PROVE  /\ session'[t].opened = session[t].opened
              /\ session'[t].revoked = session[t].revoked
              /\ session'[t].expired = session[t].expired
              /\ session'[t].token = IF t = s THEN session[t].token + 1 ELSE session[t].token
  <2>1. CASE t = s
    BY <1>6, <1>8, <2>1 DEF SessionType
  <2>2. CASE t # s
    BY <1>8, <2>2
  <2>3. QED
    BY <2>1, <2>2
<1>13. QED
  BY <1>2, <1>3, <1>4, <1>5, <1>9, <1>10, <1>11, <1>12

LEMMA RotateKeeps ==
  ASSUME IInv, NEW q \in Requests, Rotate(q)
  PROVE  IInv'
<1> DEFINE s == job[q].session
<1>1. TypeOK /\ ChainsHold /\ pc[q] = "rotate" /\ s \in Sessions
  BY DEF IInv, Rotate, RefreshJob, Opened
<1>2. CASE session[s].token = job[q].token /\ ~session[s].revoked
  <2>1. /\ s \in Opened /\ job[q].token < MaxTokens
        /\ Touch(s) /\ UNCHANGED <<user, settled>> /\ Calm
        /\ session' \in [Sessions -> SessionType]
        /\ \A t \in Sessions :
             /\ session'[t].opened = session[t].opened
             /\ session'[t].revoked = session[t].revoked
             /\ session'[t].expired = session[t].expired
             /\ session'[t].token = IF t = s THEN session[t].token + 1 ELSE session[t].token
        /\ pairs' = [pairs EXCEPT ![s] = session[s].token + 1]
        /\ pairs' \in [Sessions -> 0 .. MaxTokens]
    BY <1>1, <1>2, RotatedEffect
  <2> HIDE DEF s
  <2>2. Opened' = Opened /\ Live' = Live
    BY <2>1 DEF Opened, Live, Valid
  <2>3. UseIsAnOrder' /\ newer' \in [Sessions -> SUBSET Sessions]
    <3>1. Opened' = Opened \cup {s}
      BY <2>1, <2>2
    <3>2. QED
      BY <1>1, <2>1, <3>1, TouchKeepsOrder DEF IInv
  <2>4. TypeOK'
    BY <1>1, <2>1, <2>3 DEF TypeOK, Calm
  <2>5. ChainsHold'
    <3>1. \A t \in Sessions : pairs'[t] = session'[t].token
      BY <1>1, <2>1 DEF ChainsHold, TypeOK
    <3>2. \A t \in Sessions : session'[t].opened <=> session'[t].token > 0
      <4>1. \A t \in Sessions : session[t].token \in Nat
        BY <1>1 DEF TypeOK, SessionType
      <4>2. session[s].opened
        BY <2>1 DEF Opened
      <4>3. QED
        BY <1>1, <2>1, <4>1, <4>2 DEF ChainsHold
    <3>3. QED
      BY <1>1, <2>1, <3>1, <3>2 DEF ChainsHold
  <2>6. Fading
    BY <2>2 DEF Fading
  <2>7. NoLook /\ \A r \in Requests : RefreshJob(r)'
    BY <2>1, <2>2, CalmKeepsRefreshes
  <2>8. UserFits'
    BY <2>1, UserStays
  <2>9. QED
    BY <2>1, <2>3, <2>4, <2>5, <2>6, <2>7, <2>8, LimitKept DEF IInv, UserFits
<1>3. CASE ~(session[s].token = job[q].token /\ ~session[s].revoked)
  <2>1. End(q) /\ UNCHANGED <<user, session, newer, pairs, settled>>
    BY <1>3 DEF Rotate
  <2>2. Calm /\ UserFits'
    BY <1>1, <2>1, CalmEnd, UserStays
  <2>3. QED
    BY <2>1, <2>2, QuietStep
<1>4. QED
  BY <1>2, <1>3

LEMMA ExpireKeeps ==
  ASSUME IInv, NEW s \in Sessions, Expire(s)
  PROVE  IInv'
<1>1. TypeOK /\ ChainsHold
  BY DEF IInv
<1>2. /\ session' = [session EXCEPT ![s].expired = TRUE] /\ s \in Opened
      /\ UNCHANGED <<user, newer, pairs, settled, pc, job>>
  BY DEF Expire, Valid, Opened
<1>3. PICK row \in SessionType : row = session[s]
  BY <1>1 DEF TypeOK
<1>4. /\ [row EXCEPT !.expired = TRUE] \in SessionType
      /\ session'[s] = [row EXCEPT !.expired = TRUE]
      /\ \A t \in Sessions \ {s} : session'[t] = session[t]
  BY <1>1, <1>2, <1>3 DEF SessionType, TypeOK
<1>5. session' \in [Sessions -> SessionType]
  BY <1>1, <1>2, <1>4 DEF TypeOK
<1>6. ASSUME NEW t \in Sessions
      PROVE  /\ session'[t].opened = session[t].opened
             /\ session'[t].revoked = session[t].revoked
             /\ session'[t].token = session[t].token
             /\ session[t].expired => session'[t].expired
             /\ session'[t].expired => session[t].expired \/ t = s
  <2>1. CASE t = s
    BY <1>3, <1>4, <2>1 DEF SessionType
  <2>2. CASE t # s
    BY <1>4, <2>2
  <2>3. QED
    BY <2>1, <2>2
<1>7. Opened' = Opened /\ Live' \subseteq Live
  BY <1>6 DEF Opened, Live, Valid
<1>8. TypeOK'
  BY <1>1, <1>2, <1>5 DEF TypeOK
<1>9. ChainsHold' /\ UseIsAnOrder'
  BY <1>2, <1>6, <1>7 DEF IInv, ChainsHold, UseIsAnOrder, Opened
<1>10. Fading
  BY <1>7 DEF Fading
<1>11. Calm /\ UserFits'
  BY <1>1, <1>2, CalmStay, UserStays
<1>12. NoLook /\ \A r \in Requests : RefreshJob(r)'
  BY <1>7, <1>11, CalmKeepsRefreshes
<1>13. QED
  BY <1>2, <1>8, <1>9, <1>10, <1>11, <1>12, LimitKept DEF IInv, UserFits

-----------------------------------------------------------------------------
(* Password, second factor and failures.                                     *)

\* The user that is written fits when it has its type and a lock has its reason.
LEMMA UserWritten ==
  ASSUME NEW u \in UserType, u.locked => u.failed >= MaxFailed, user' = u
  PROVE  UserFits'
BY DEF UserFits, LockFollowsFailures

\* The columns that a good login clears, and those of a new password.
LEMMA ClearedFits ==
  ASSUME NEW u \in UserType
  PROVE  LET w == [u EXCEPT !.failed = 0, !.locked = FALSE] IN
         w \in UserType /\ ~w.locked /\ w.changed = u.changed
<1>1. [u EXCEPT !.failed = 0] \in UserType /\ [u EXCEPT !.failed = 0].changed = u.changed
  BY DEF UserType
<1>2. QED
  BY <1>1 DEF UserType

LEMMA PasswordFits ==
  ASSUME NEW u \in UserType, NEW p \in 0 .. MaxChanges, NEW l \in BOOLEAN
  PROVE  /\ [u EXCEPT !.password = p, !.legacy = l] \in UserType
         /\ [u EXCEPT !.password = p, !.legacy = l].locked = u.locked
         /\ [u EXCEPT !.password = p, !.legacy = l].failed = u.failed
         /\ [u EXCEPT !.password = p, !.legacy = l].changed = u.changed
<1>1. CASE l = TRUE
  BY <1>1 DEF UserType
<1>2. CASE l = FALSE
  BY <1>2 DEF UserType
<1>3. QED
  BY <1>1, <1>2

LEMMA NewPasswordFits ==
  ASSUME IInv, NEW u \in UserType, u.changed = user.changed, user.changed < MaxChanges
  PROVE  /\ NewPassword(u) \in UserType
         /\ NewPassword(u).locked = u.locked /\ NewPassword(u).failed = u.failed
<1>1. user.changed + 1 \in 0 .. MaxChanges
  BY DEF IInv, TypeOK, UserType
<1> DEFINE v == [u EXCEPT !.password = user.changed + 1, !.legacy = FALSE]
<1>2. /\ v \in UserType /\ v.changed = user.changed
      /\ v.locked = u.locked /\ v.failed = u.failed
  BY <1>1, PasswordFits
<1>3. NewPassword(u) = [v EXCEPT !.changed = user.changed + 1]
  <2>1. [u EXCEPT !.password = user.changed + 1, !.changed = u.changed + 1, !.legacy = FALSE]
          = [[u EXCEPT !.password = user.changed + 1, !.legacy = FALSE]
               EXCEPT !.changed = u.changed + 1]
    BY DEF UserType
  <2>2. QED
    BY <2>1 DEF NewPassword
<1> HIDE DEF v
<1>4. QED
  BY <1>1, <1>2, <1>3 DEF UserType

LEMMA UserRow ==
  ASSUME IInv
  PROVE  \E u \in UserType : u = user /\ (u.locked => u.failed >= MaxFailed)
BY DEF IInv, TypeOK, LockFollowsFailures

\* What login() and disableMfa() read has its type.
LEMMA ReadUserType ==
  ASSUME TypeOK
  PROVE  ReadUser \in JobType
<1>1. PICK u \in UserType : u = user
  BY DEF TypeOK
<1>2. ReadUser = [user |-> [failed |-> u.failed, password |-> u.password, legacy |-> u.legacy,
                            mfa |-> u.mfa, codes |-> u.codes],
                  session |-> NoOne, token |-> 0, excess |-> {}, seen |-> {}]
  BY <1>1 DEF ReadUser, NoJob
<1>3. [failed |-> u.failed, password |-> u.password, legacy |-> u.legacy,
       mfa |-> u.mfa, codes |-> u.codes] \in ReadType
  BY DEF UserType, ReadType
<1>4. QED
  BY <1>2, <1>3 DEF JobType

\* A request that only begins.
LEMMA StartKeeps ==
  ASSUME IInv, NEW q \in Requests, NEW op, NEW stage \in Stages \ {"trim", "rotate", "reuse"},
         NEW j \in JobType, Start(q, op, stage, j), UNCHANGED rows
  PROVE  IInv'
<1>1. Calm
  BY CalmGoto DEF IInv, Start
<1>2. UNCHANGED <<user, session, newer, pairs, settled>>
  BY DEF rows
<1>3. QED
  BY <1>1, <1>2, UserStays, QuietStep

LEMMA LoginKeeps ==
  ASSUME IInv, NEW q \in Requests, NEW right \in BOOLEAN, Login(q, right)
  PROVE  IInv'
<1>1. TypeOK
  BY DEF IInv
<1>2. CASE right
  <2>1. Start(q, "login", "verified", ReadUser) /\ UNCHANGED rows
    BY <1>2 DEF Login
  <2>2. "verified" \in Stages \ {"trim", "rotate", "reuse"}
    BY DEF Stages
  <2>3. QED
    BY <1>1, <2>1, <2>2, ReadUserType, StartKeeps
<1>3. CASE ~right
  <2> DEFINE j == [NoJob EXCEPT !.user.failed = user.failed]
  <2>1. Start(q, "login", "failed", j) /\ UNCHANGED rows
    BY <1>3 DEF Login
  <2>2. "failed" \in Stages \ {"trim", "rotate", "reuse"}
    BY DEF Stages
  <2>3. j \in JobType
    <3>1. PICK u \in UserType : u = user
      BY <1>1 DEF TypeOK
    <3>2. [NothingRead EXCEPT !.failed = u.failed] \in ReadType
      BY NoJobType DEF ReadType, UserType
    <3>3. j = [NoJob EXCEPT !.user = [NothingRead EXCEPT !.failed = u.failed]]
      BY <3>1 DEF NoJob
    <3>4. QED
      BY <3>2, <3>3, NoJobType DEF JobType
  <2> HIDE DEF j
  <2>4. QED
    BY <2>1, <2>2, <2>3, StartKeeps
<1>4. QED
  BY <1>2, <1>3

LEMMA LoginFailedKeeps ==
  ASSUME IInv, NEW q \in Requests, LoginFailed(q)
  PROVE  IInv'
<1> DEFINE failed == job[q].user.failed + 1
<1>1. TypeOK
  BY DEF IInv
<1>2. /\ failed <= MaxFailed + 1 /\ End(q) /\ UNCHANGED <<session, newer, pairs, settled>>
      /\ user' = [user EXCEPT !.failed = failed, !.locked = failed >= MaxFailed]
  BY DEF LoginFailed
<1>3. failed \in 0 .. MaxFailed + 1
  <2>1. job[q].user.failed \in 0 .. MaxFailed + 1
    BY <1>1 DEF TypeOK, JobType, ReadType
  <2>2. QED
    BY <1>2, <2>1
<1> HIDE DEF failed
<1>4. PICK u \in UserType : u = user
  BY <1>1 DEF TypeOK
<1>5. UserFits'
  <2>1. CASE failed >= MaxFailed
    <3>1. user' = [u EXCEPT !.failed = failed, !.locked = TRUE]
      BY <1>2, <1>4, <2>1
    <3>2. [u EXCEPT !.failed = failed, !.locked = TRUE] \in UserType
      BY <1>3 DEF UserType
    <3>3. [u EXCEPT !.failed = failed, !.locked = TRUE].failed = failed
      BY DEF UserType
    <3>4. QED
      BY <2>1, <3>1, <3>2, <3>3, UserWritten
  <2>2. CASE ~(failed >= MaxFailed)
    <3>1. user' = [u EXCEPT !.failed = failed, !.locked = FALSE]
      <4>1. (failed >= MaxFailed) = FALSE
        BY <2>2
      <4>2. QED
        BY <1>2, <1>4, <4>1
    <3>2. [u EXCEPT !.failed = failed, !.locked = FALSE] \in UserType
      BY <1>3 DEF UserType
    <3>3. ~[u EXCEPT !.failed = failed, !.locked = FALSE].locked
      BY DEF UserType
    <3>4. QED
      BY <3>1, <3>2, <3>3, UserWritten
  <2>3. QED
    BY <2>1, <2>2
<1>6. QED
  BY <1>1, <1>2, <1>5, CalmEnd, QuietStep

LEMMA LoginVerifiedKeeps ==
  ASSUME IInv, NEW q \in Requests, LoginVerified(q)
  PROVE  IInv'
<1>1. TypeOK
  BY DEF IInv
<1>2. PICK seen \in ReadType : seen = job[q].user
  BY <1>1 DEF TypeOK, JobType
<1> DEFINE stage == IF seen.mfa THEN "factor" ELSE "open"
           j == [NoJob EXCEPT !.user.mfa = seen.mfa, !.user.codes = seen.codes]
<1>3. /\ Goto(q, stage, j) /\ UNCHANGED <<session, newer, pairs, settled>>
      /\ user' = [user EXCEPT !.failed = 0, !.locked = FALSE,
                              !.password = IF seen.legacy THEN seen.password ELSE @,
                              !.legacy = IF seen.legacy THEN FALSE ELSE @]
  BY <1>2 DEF LoginVerified
<1>4. stage \in Stages \ {"trim", "rotate", "reuse"}
  BY DEF Stages
<1>5. j \in JobType
  <2>1. [NothingRead EXCEPT !.mfa = seen.mfa, !.codes = seen.codes] \in ReadType
    BY NoJobType DEF ReadType
  <2>2. j = [NoJob EXCEPT !.user = [NothingRead EXCEPT !.mfa = seen.mfa, !.codes = seen.codes]]
    BY DEF NoJob, NothingRead
  <2>3. QED
    BY <2>1, <2>2, NoJobType DEF JobType
<1> HIDE DEF j, stage
<1>6. Calm
  BY <1>1, <1>3, <1>4, <1>5, CalmGoto
<1>7. PICK u \in UserType : u = user
  BY <1>1 DEF TypeOK
<1>8. PICK p \in 0 .. MaxChanges, l \in BOOLEAN :
        user' = [u EXCEPT !.failed = 0, !.locked = FALSE, !.password = p, !.legacy = l]
  <2>1. CASE seen.legacy
    <3>1. user' = [u EXCEPT !.failed = 0, !.locked = FALSE,
                            !.password = seen.password, !.legacy = FALSE]
      BY <1>3, <1>7, <2>1
    <3>2. seen.password \in 0 .. MaxChanges
      BY DEF ReadType
    <3>3. QED
      BY <3>1, <3>2
  <2>2. CASE ~seen.legacy
    <3>1. user' = [u EXCEPT !.failed = 0, !.locked = FALSE,
                            !.password = u.password, !.legacy = u.legacy]
      BY <1>3, <1>7, <2>2
    <3>2. u.password \in 0 .. MaxChanges /\ u.legacy \in BOOLEAN
      BY DEF UserType
    <3>3. QED
      BY <3>1, <3>2
  <2>3. QED
    BY <2>1, <2>2
<1>9. UserFits'
  <2> DEFINE v == [u EXCEPT !.failed = 0, !.locked = FALSE]
             w == [v EXCEPT !.password = p, !.legacy = l]
  <2>1. user' = w
    BY <1>8
  <2>2. v \in UserType /\ ~v.locked
    BY ClearedFits
  <2> HIDE DEF v
  <2>3. w \in UserType /\ ~w.locked
    BY <2>2, PasswordFits
  <2> HIDE DEF w
  <2>4. QED
    BY <2>1, <2>3, UserWritten
<1>10. QED
  BY <1>3, <1>6, <1>9, QuietStep

\* A recovery code is taken off a list of recovery codes.
LEMMA UseCodeFits ==
  ASSUME IInv, NEW q \in Requests, NEW c, UseCode(q, c)
  PROVE  UserFits'
<1>1. PICK u \in UserType : u = user /\ (u.locked => u.failed >= MaxFailed)
  BY UserRow
<1>2. PICK left \in SUBSET Codes : left = job[q].user.codes \ {c}
  BY DEF IInv, TypeOK, JobType, ReadType
<1> DEFINE w == [u EXCEPT !.codes = left]
<1>3. w \in UserType /\ w.locked = u.locked /\ w.failed = u.failed
  BY DEF UserType
<1>4. user' = w
  BY <1>1, <1>2 DEF UseCode
<1> HIDE DEF w
<1>5. QED
  BY <1>1, <1>3, <1>4, UserWritten

LEMMA SecondFactorKeeps ==
  ASSUME IInv, NEW q \in Requests, SecondFactor(q)
  PROVE  IInv'
<1>1. TypeOK
  BY DEF IInv
<1> DEFINE j == [job[q] EXCEPT !.user.codes = {}]
<1>2. j \in JobType
  <2>1. PICK mine \in JobType : mine = job[q]
    BY <1>1 DEF TypeOK
  <2>2. [mine.user EXCEPT !.codes = {}] \in ReadType
    BY DEF JobType, ReadType
  <2>3. j = [mine EXCEPT !.user = [mine.user EXCEPT !.codes = {}]]
    BY <2>1
  <2> HIDE DEF j
  <2>4. QED
    BY <2>2, <2>3 DEF JobType
<1>3. "open" \in Stages \ {"trim", "rotate", "reuse"}
  BY DEF Stages
<1>4. /\ UNCHANGED <<session, newer, pairs, settled>>
      /\ End(q) \/ Goto(q, "open", j)
      /\ user' = user \/ \E c \in Codes : UseCode(q, c)
  BY DEF SecondFactor
<1> HIDE DEF j
<1>5. Calm
  BY <1>1, <1>2, <1>3, <1>4, CalmEnd, CalmGoto
<1>6. UserFits'
  BY <1>4, UserStays, UseCodeFits
<1>7. QED
  BY <1>4, <1>5, <1>6, QuietStep

LEMMA SetupMfaWriteKeeps ==
  ASSUME IInv, NEW q \in Requests, SetupMfaWrite(q)
  PROVE  IInv'
<1>1. PICK u \in UserType : u = user /\ (u.locked => u.failed >= MaxFailed)
  BY UserRow
<1> DEFINE w == [u EXCEPT !.secret = TRUE, !.codes = {}]
<1>2. w \in UserType /\ w.locked = u.locked /\ w.failed = u.failed
  BY DEF UserType
<1>3. user' = w /\ End(q) /\ UNCHANGED <<session, newer, pairs, settled>>
  BY <1>1 DEF SetupMfaWrite
<1> HIDE DEF w
<1>4. QED
  BY <1>1, <1>2, <1>3, UserWritten, CalmEnd, QuietStep DEF IInv

LEMMA DisableMfaCheckKeeps ==
  ASSUME IInv, NEW q \in Requests, DisableMfaCheck(q)
  PROVE  IInv'
<1>1. /\ UNCHANGED <<session, newer, pairs, settled>>
      /\ End(q) \/ Goto(q, "disable", NoJob)
      /\ user' = user \/ \E c \in Codes : UseCode(q, c)
  BY DEF DisableMfaCheck
<1>2. "disable" \in Stages \ {"trim", "rotate", "reuse"}
  BY DEF Stages
<1>3. TypeOK
  BY DEF IInv
<1>4. Calm
  BY <1>1, <1>2, <1>3, NoJobType, CalmEnd, CalmGoto
<1>5. QED
  BY <1>1, <1>4, UserStays, UseCodeFits, QuietStep

\* The writes of the user that end every session.
LEMMA AccountWriteKeeps ==
  ASSUME IInv, NEW q \in Requests,
         EnableMfaWrite(q) \/ DisableMfaWrite(q) \/ ChangePasswordWrite(q) \/ ResetPasswordWrite(q)
  PROVE  IInv'
<1>1. PICK u \in UserType : u = user /\ (u.locked => u.failed >= MaxFailed)
  BY UserRow
<1>2. session' = Revoked(Sessions) /\ End(q) /\ UNCHANGED <<newer, pairs, settled>>
  BY DEF EnableMfaWrite, DisableMfaWrite, ChangePasswordWrite, ResetPasswordWrite, RevokeAll
<1>3. CASE EnableMfaWrite(q)
  <2> DEFINE w == [u EXCEPT !.mfa = TRUE, !.codes = Codes]
  <2>1. w \in UserType /\ w.locked = u.locked /\ w.failed = u.failed
    BY DEF UserType
  <2>2. user' = w
    BY <1>1, <1>3 DEF EnableMfaWrite
  <2> HIDE DEF w
  <2>3. QED
    BY <1>1, <1>2, <2>1, <2>2, UserWritten, CalmEnd, ClosingStep DEF IInv
<1>4. CASE DisableMfaWrite(q)
  <2> DEFINE w == [u EXCEPT !.mfa = FALSE, !.secret = FALSE, !.codes = {}]
  <2>1. w \in UserType /\ w.locked = u.locked /\ w.failed = u.failed
    BY DEF UserType
  <2>2. user' = w
    BY <1>1, <1>4 DEF DisableMfaWrite
  <2> HIDE DEF w
  <2>3. QED
    BY <1>1, <1>2, <2>1, <2>2, UserWritten, CalmEnd, ClosingStep DEF IInv
<1>5. CASE ChangePasswordWrite(q)
  <2>1. user' = NewPassword(u) /\ user.changed < MaxChanges
    BY <1>1, <1>5 DEF ChangePasswordWrite
  <2>2. NewPassword(u) \in UserType /\ NewPassword(u).locked = u.locked
        /\ NewPassword(u).failed = u.failed
    BY <1>1, <2>1, NewPasswordFits
  <2>3. UserFits'
    BY <1>1, <2>1, <2>2, UserWritten
  <2>4. QED
    BY <1>2, <2>3, CalmEnd, ClosingStep DEF IInv
<1>6. CASE ResetPasswordWrite(q)
  <2> DEFINE v == [u EXCEPT !.reset = "none"]
             w == [v EXCEPT !.failed = 0, !.locked = FALSE]
  <2>1. user' = NewPassword(w) /\ user.changed < MaxChanges
    BY <1>1, <1>6 DEF ResetPasswordWrite
  <2>2. v \in UserType /\ v.changed = u.changed
    BY DEF UserType
  <2> HIDE DEF v
  <2>3. w \in UserType /\ ~w.locked /\ w.changed = user.changed
    BY <1>1, <2>2, ClearedFits
  <2> HIDE DEF w
  <2>4. NewPassword(w) \in UserType /\ ~NewPassword(w).locked
    BY <2>1, <2>3, NewPasswordFits
  <2>5. UserFits'
    BY <2>1, <2>4, UserWritten
  <2>6. QED
    BY <1>2, <2>5, CalmEnd, ClosingStep DEF IInv
<1>7. QED
  BY <1>3, <1>4, <1>5, <1>6

\* Mail, and the end of a lock or of a link.
LEMMA UserAloneKeeps ==
  ASSUME IInv, ForgotPassword \/ ResetExpires \/ Unlock
  PROVE  IInv'
<1>1. PICK u \in UserType : u = user /\ (u.locked => u.failed >= MaxFailed)
  BY UserRow
<1>2. UNCHANGED <<session, newer, pairs, settled, pc, job>>
  BY DEF ForgotPassword, ResetExpires, Unlock
<1>3. Calm
  BY <1>2, CalmStay DEF IInv
<1>4. CASE ForgotPassword \/ ResetExpires
  <2>1. PICK r \in {"sent", "expired"} : user' = [u EXCEPT !.reset = r]
    BY <1>1, <1>4 DEF ForgotPassword, ResetExpires
  <2> DEFINE w == [u EXCEPT !.reset = r]
  <2>2. w \in UserType /\ w.locked = u.locked /\ w.failed = u.failed /\ user' = w
    BY <2>1 DEF UserType
  <2> HIDE DEF w
  <2>3. QED
    BY <1>1, <1>2, <1>3, <2>2, UserWritten, QuietStep
<1>5. CASE Unlock
  <2> DEFINE w == [u EXCEPT !.locked = FALSE]
  <2>1. w \in UserType /\ ~w.locked /\ user' = w
    BY <1>1, <1>5 DEF UserType, Unlock
  <2> HIDE DEF w
  <2>2. QED
    BY <1>2, <1>3, <2>1, UserWritten, QuietStep
<1>6. QED
  BY <1>4, <1>5

-----------------------------------------------------------------------------
(* The invariant.                                                            *)

LEMMA InitInvariant == Init => IInv
<1> SUFFICES ASSUME Init PROVE IInv
  OBVIOUS
<1>1. TypeOK
  <2>1. NewUser \in UserType
    BY DEF NewUser, UserType
  <2>2. NoSession \in SessionType
    BY DEF NoSession, SessionType
  <2>3. "idle" \in Stages
    BY DEF Stages
  <2>4. QED
    BY <2>1, <2>2, <2>3, NoJobType DEF Init, TypeOK
<1>2. Opened = {}
  BY DEF Init, Opened, NoSession
<1>3. ChainsHold /\ UseIsAnOrder /\ settled \subseteq Opened
  BY <1>2 DEF Init, ChainsHold, UseIsAnOrder, NoSession
<1>4. \A q \in Requests : pc[q] = "idle"
  BY DEF Init
<1>5. (\A q \in Requests : RefreshJob(q) /\ TrimJob(q)) /\ LooksAreOrdered
  BY <1>4 DEF RefreshJob, TrimJob, LooksAreOrdered
<1>6. SessionsWithinLimit
  <2>1. Live \cap settled = {}
    BY DEF Init
  <2>2. QED
    BY <2>1, FS_EmptySet DEF SessionsWithinLimit
<1>7. LockFollowsFailures
  BY DEF Init, NewUser, LockFollowsFailures
<1>8. QED
  BY <1>1, <1>3, <1>5, <1>6, <1>7 DEF IInv

LEMMA LoginStepKeeps ==
  ASSUME IInv, NEW q \in Requests, LoginStep(q)
  PROVE  IInv'
BY LoginKeeps, LoginFailedKeeps, LoginVerifiedKeeps, SecondFactorKeeps, OpenSessionKeeps,
   ReadExcessKeeps, RevokeExcessKeeps DEF LoginStep

LEMMA RefreshStepKeeps ==
  ASSUME IInv, NEW q \in Requests, RefreshStep(q)
  PROVE  IInv'
<1>1. ASSUME NEW s \in Sessions, NEW token \in 1 .. MaxTokens - 1, Refresh(q, s, token)
      PROVE  IInv'
  BY <1>1, RefreshKeeps
<1>2. ASSUME Reuse(q) PROVE IInv'
  BY <1>2, UserStays, CalmEnd, ClosingStep DEF Reuse, IInv
<1>3. QED
  BY <1>1, <1>2, RotateKeeps DEF RefreshStep

LEMMA AccountStepKeeps ==
  ASSUME IInv, NEW q \in Requests, AccountStep(q)
  PROVE  IInv'
<1>1. /\ {"setup", "enable", "factors", "change", "reset"} \subseteq Stages \ {"trim", "rotate", "reuse"}
      /\ NoJob \in JobType /\ ReadUser \in JobType
  BY NoJobType, ReadUserType DEF Stages, IInv
<1>2. ASSUME SetupMfa(q) PROVE IInv'
  BY <1>1, <1>2, StartKeeps DEF SetupMfa
<1>3. ASSUME EnableMfa(q) PROVE IInv'
  BY <1>1, <1>3, StartKeeps DEF EnableMfa
<1>4. ASSUME DisableMfa(q) PROVE IInv'
  BY <1>1, <1>4, StartKeeps DEF DisableMfa
<1>5. ASSUME ChangePassword(q) PROVE IInv'
  BY <1>1, <1>5, StartKeeps DEF ChangePassword
<1>6. ASSUME ResetPassword(q) PROVE IInv'
  BY <1>1, <1>6, StartKeeps DEF ResetPassword
<1>7. QED
  BY <1>2, <1>3, <1>4, <1>5, <1>6, SetupMfaWriteKeeps, DisableMfaCheckKeeps, AccountWriteKeeps
     DEF AccountStep

LEMMA StopKeeps ==
  ASSUME IInv, NEW q \in Requests, Stop(q)
  PROVE  IInv'
<1>1. End(q) /\ UNCHANGED <<user, session, newer, pairs, settled>>
  BY DEF Stop, rows
<1>2. QED
  BY <1>1, CalmEnd, UserStays, QuietStep DEF IInv

\* Logging out closes one session, or all the others.
LEMMA LogoutKeeps ==
  ASSUME IInv, NEW s \in Sessions, Logout(s) \/ RevokeOthers(s)
  PROVE  IInv'
<1>1. UNCHANGED <<user, newer, pairs, settled, pc, job>>
  BY DEF Logout, RevokeOthers
<1>2. PICK closed : session' = Revoked(closed)
  BY DEF Logout, RevokeOthers
<1>3. QED
  BY <1>1, <1>2, CalmStay, UserStays, ClosingStep DEF IInv

LEMMA NextInvariant == IInv /\ [Next]_vars => IInv'
<1> SUFFICES ASSUME IInv, [Next]_vars PROVE IInv'
  OBVIOUS
<1>1. ASSUME NEW q \in Requests, LoginStep(q) \/ RefreshStep(q) \/ AccountStep(q) \/ Stop(q)
      PROVE  IInv'
  BY <1>1, LoginStepKeeps, RefreshStepKeeps, AccountStepKeeps, StopKeeps
<1>2. ASSUME NEW s \in Sessions, Logout(s) \/ RevokeOthers(s) \/ Expire(s)
      PROVE  IInv'
  BY <1>2, LogoutKeeps, ExpireKeeps
<1>3. ASSUME ForgotPassword \/ ResetExpires \/ Unlock PROVE IInv'
  BY <1>3, UserAloneKeeps
<1>4. CASE UNCHANGED vars
  <2>1. UNCHANGED <<user, session, newer, pairs, settled, pc, job>>
    BY <1>4 DEF vars
  <2>2. QED
    BY <2>1, CalmStay, UserStays, QuietStep DEF IInv
<1>5. QED
  BY <1>1, <1>2, <1>3, <1>4 DEF Next

\* IInv holds in every reachable state, whatever the number of requests, devices, tokens
\* and failures.
THEOREM Invariance == Spec => []IInv
BY InitInvariant, NextInvariant, PTL DEF Spec

\* The rows and what requests have read of them have their types.
THEOREM TypeCorrect == Spec => []TypeOK
<1>1. IInv => TypeOK
  BY DEF IInv
<1>2. QED
  BY <1>1, Invariance, PTL

\* However many devices sign in at once: no more sessions than the limit are live of those
\* a login has made room among, and an account is locked only for its failures.
THEOREM LoginsStayBounded == Spec => []LoginsAreBounded
<1>1. IInv => LoginsAreBounded
  BY DEF IInv, LoginsAreBounded
<1>2. QED
  BY <1>1, Invariance, PTL

-----------------------------------------------------------------------------
(* A change of the password or of the second factor signs everybody out.     *)

\* The stages that write other columns of the user leave these two.
LEMMA SecretsStay ==
  ASSUME IInv, NEW q \in Requests,
         LoginFailed(q) \/ LoginVerified(q) \/ SecondFactor(q) \/ SetupMfaWrite(q)
           \/ DisableMfaCheck(q)
  PROVE  user'.changed = user.changed /\ user'.mfa = user.mfa
<1>1. PICK u \in UserType : u = user
  BY DEF IInv, TypeOK
<1>2. CASE LoginFailed(q)
  <2>1. PICK f, l : user' = [u EXCEPT !.failed = f, !.locked = l]
    BY <1>1, <1>2 DEF LoginFailed
  <2>2. QED
    BY <1>1, <2>1 DEF UserType
<1>3. CASE LoginVerified(q)
  <2>1. PICK p, l : user' = [u EXCEPT !.failed = 0, !.locked = FALSE, !.password = p, !.legacy = l]
    BY <1>1, <1>3 DEF LoginVerified
  <2>2. QED
    BY <1>1, <2>1 DEF UserType
<1>4. CASE SecondFactor(q) \/ DisableMfaCheck(q)
  <2>1. user' = u \/ \E left : user' = [u EXCEPT !.codes = left]
    BY <1>1, <1>4 DEF SecondFactor, DisableMfaCheck, UseCode
  <2>2. QED
    BY <1>1, <2>1 DEF UserType
<1>5. CASE SetupMfaWrite(q)
  BY <1>1, <1>5 DEF SetupMfaWrite, UserType
<1>6. QED
  BY <1>2, <1>3, <1>4, <1>5

\* So do mail and time.
LEMMA SecretsOutlast ==
  ASSUME IInv, ForgotPassword \/ ResetExpires \/ Unlock
  PROVE  user'.changed = user.changed /\ user'.mfa = user.mfa
BY DEF IInv, TypeOK, UserType, ForgotPassword, ResetExpires, Unlock

\* All the sessions that were opened are revoked.
LEMMA AllSignedOut ==
  ASSUME IInv, session' = RevokeAll
  PROVE  ChangesSignOutStep
BY RevokedEffect DEF IInv, RevokeAll, ChangesSignOutStep

LEMMA SignOutStep == IInv /\ [Next]_vars => ChangesSignOutStep
<1> SUFFICES ASSUME IInv, [Next]_vars PROVE ChangesSignOutStep
  OBVIOUS
<1>1. ASSUME user' = user PROVE ChangesSignOutStep
  BY <1>1 DEF ChangesSignOutStep
<1>2. ASSUME NEW q \in Requests, LoginStep(q) PROVE ChangesSignOutStep
  <2>1. CASE LoginFailed(q) \/ LoginVerified(q) \/ SecondFactor(q)
    BY <2>1, SecretsStay DEF ChangesSignOutStep
  <2>2. CASE ~(LoginFailed(q) \/ LoginVerified(q) \/ SecondFactor(q))
    <3>1. user' = user
      BY <1>2, <2>2 DEF LoginStep, Login, OpenSession, ReadExcess, RevokeExcess, rows
    <3>2. QED
      BY <1>1, <3>1
  <2>3. QED
    BY <2>1, <2>2
<1>3. ASSUME NEW q \in Requests, RefreshStep(q) \/ Stop(q) PROVE ChangesSignOutStep
  <2>1. user' = user
    BY <1>3 DEF RefreshStep, Refresh, Rotate, Reuse, Stop, rows
  <2>2. QED
    BY <1>1, <2>1
<1>4. ASSUME NEW q \in Requests, AccountStep(q) PROVE ChangesSignOutStep
  <2>1. CASE SetupMfaWrite(q) \/ DisableMfaCheck(q)
    BY <2>1, SecretsStay DEF ChangesSignOutStep
  <2>2. CASE \/ EnableMfaWrite(q) \/ DisableMfaWrite(q)
             \/ ChangePasswordWrite(q) \/ ResetPasswordWrite(q)
    <3>1. session' = RevokeAll
      BY <2>2 DEF EnableMfaWrite, DisableMfaWrite, ChangePasswordWrite, ResetPasswordWrite
    <3>2. QED
      BY <3>1, AllSignedOut
  <2>3. CASE \/ SetupMfa(q) \/ EnableMfa(q) \/ DisableMfa(q)
             \/ ChangePassword(q) \/ ResetPassword(q)
    <3>1. user' = user
      BY <2>3 DEF SetupMfa, EnableMfa, DisableMfa, ChangePassword, ResetPassword, rows
    <3>2. QED
      BY <1>1, <3>1
  <2>4. QED
    BY <1>4, <2>1, <2>2, <2>3 DEF AccountStep
<1>5. ASSUME NEW s \in Sessions, Logout(s) \/ RevokeOthers(s) \/ Expire(s)
      PROVE  ChangesSignOutStep
  BY <1>1, <1>5 DEF Logout, RevokeOthers, Expire
<1>6. ASSUME ForgotPassword \/ ResetExpires \/ Unlock PROVE ChangesSignOutStep
  BY <1>6, SecretsOutlast DEF ChangesSignOutStep
<1>7. CASE UNCHANGED vars
  BY <1>1, <1>7 DEF vars
<1>8. QED
  BY <1>2, <1>3, <1>4, <1>5, <1>6, <1>7 DEF Next

\* A new password, and a second factor that is set up or given up, end every session in the
\* same step.
THEOREM SignOuts == Spec => ChangesSignOut
<1>1. IInv /\ [Next]_vars => [ChangesSignOutStep]_vars
  BY SignOutStep
<1>2. QED
  BY <1>1, Invariance, PTL DEF Spec, ChangesSignOut

-----------------------------------------------------------------------------
(* The chains of tokens implement SessionChain.                              *)

\* Rows that a chain does not show.
LEMMA ChainStays ==
  ASSUME UNCHANGED <<session, pairs>>
  PROVE  UNCHANGED Chain!vars
BY DEF Chain!vars, ChainStatus, ChainToken

LEMMA ChainCloses ==
  ASSUME IInv, NEW closed, session' = Revoked(closed), pairs' = pairs
  PROVE  Chain!Next
<1> DEFINE ended == {s \in closed \cap Opened : ~session[s].revoked}
<1>1. \A s \in Sessions :
        /\ session'[s].token = session[s].token
        /\ session'[s].opened = session[s].opened
        /\ session'[s].revoked = (session[s].revoked \/ (s \in closed /\ session[s].opened))
  BY RevokedEffect DEF IInv
<1>2. ChainToken' = ChainToken
  BY <1>1 DEF ChainToken
<1>3. ended \in SUBSET Sessions /\ \A s \in ended : ChainStatus[s] = "open"
  BY DEF Opened, ChainStatus
<1>4. ChainStatus' = [s \in Sessions |-> IF s \in ended THEN "closed" ELSE ChainStatus[s]]
  <2>1. \A s \in Sessions :
          (IF ~session'[s].opened THEN "none"
           ELSE IF session'[s].revoked THEN "closed" ELSE "open")
            = IF s \in ended THEN "closed" ELSE ChainStatus[s]
    BY <1>1 DEF Opened, ChainStatus
  <2> HIDE DEF ended
  <2>2. QED
    BY <2>1 DEF ChainStatus
<1>5. Chain!Close(ended)
  BY <1>2, <1>3, <1>4 DEF Chain!Close
<1>6. QED
  BY <1>3, <1>5 DEF Chain!Next

LEMMA ChainOpens ==
  ASSUME IInv, NEW q \in Requests, NEW s \in Sessions, OpenSession(q, s)
  PROVE  Chain!Next
<1> DEFINE row == [opened |-> TRUE, revoked |-> FALSE, expired |-> FALSE, token |-> 1,
                   mfa |-> job[q].user.mfa]
<1>1. TypeOK /\ ChainsHold
  BY DEF IInv
<1>2. ~session[s].opened /\ session' = [session EXCEPT ![s] = row] /\ pairs' = [pairs EXCEPT ![s] = 1]
  BY DEF OpenSession
<1>3. session[s].token = 0
  BY <1>1, <1>2 DEF ChainsHold, TypeOK, SessionType
<1>4. session'[s] = row /\ \A t \in Sessions \ {s} : session'[t] = session[t]
  BY <1>1, <1>2 DEF TypeOK
<1>5. row.opened /\ ~row.revoked /\ row.token = 1
  OBVIOUS
<1> HIDE DEF row
<1>6. ChainStatus[s] = "none" /\ ChainStatus' = [ChainStatus EXCEPT ![s] = "open"]
  <2>1. session'[s].opened /\ ~session'[s].revoked
    BY <1>4, <1>5
  <2>2. \A t \in Sessions :
          (IF ~session'[t].opened THEN "none"
           ELSE IF session'[t].revoked THEN "closed" ELSE "open")
            = IF t = s THEN "open" ELSE ChainStatus[t]
    BY <1>4, <2>1 DEF ChainStatus
  <2>3. ChainStatus' = [t \in Sessions |-> IF t = s THEN "open" ELSE ChainStatus[t]]
    BY <2>2 DEF ChainStatus
  <2>4. ChainStatus[s] = "none" /\ ChainStatus = [t \in Sessions |-> ChainStatus[t]]
    BY <1>2 DEF ChainStatus
  <2>5. QED
    BY <2>3, <2>4
<1>7. ChainToken[s] = 0 /\ ChainToken' = [ChainToken EXCEPT ![s] = ChainToken[s] + 1]
  <2>1. session'[s].token = 1
    BY <1>4, <1>5
  <2>2. ChainToken' = [t \in Sessions |-> IF t = s THEN 1 ELSE ChainToken[t]]
    BY <1>4, <2>1 DEF ChainToken
  <2>3. ChainToken[s] = 0 /\ ChainToken = [t \in Sessions |-> ChainToken[t]]
    BY <1>3 DEF ChainToken
  <2>4. QED
    BY <2>2, <2>3
<1>8. Chain!Open(s)
  BY <1>2, <1>6, <1>7 DEF Chain!Open, Chain!Handed
<1>9. QED
  BY <1>8 DEF Chain!Next

LEMMA ChainRotates ==
  ASSUME IInv, NEW q \in Requests, Rotate(q)
  PROVE  [Chain!Next]_(Chain!vars)
<1> DEFINE s == job[q].session
<1>1. CASE session[s].token = job[q].token /\ ~session[s].revoked
  <2>1. /\ s \in Opened /\ s \in Sessions
        /\ \A t \in Sessions :
             /\ session'[t].opened = session[t].opened
             /\ session'[t].revoked = session[t].revoked
             /\ session'[t].token = IF t = s THEN session[t].token + 1 ELSE session[t].token
        /\ pairs' = [pairs EXCEPT ![s] = session[s].token + 1]
    BY <1>1, RotatedEffect DEF Rotate, Opened
  <2>2. ~session[s].revoked
    BY <1>1
  <2> HIDE DEF s
  <2>3. ChainStatus[s] = "open" /\ ChainStatus' = ChainStatus
    BY <2>1, <2>2 DEF ChainStatus, Opened
  <2>4. ChainToken' = [ChainToken EXCEPT ![s] = ChainToken[s] + 1] /\ ChainToken[s] = session[s].token
    BY <2>1 DEF ChainToken
  <2>5. Chain!Rotate(s)
    BY <2>1, <2>3, <2>4 DEF Chain!Rotate, Chain!Handed
  <2>6. QED
    BY <2>1, <2>5 DEF Chain!Next
<1>2. CASE ~(session[s].token = job[q].token /\ ~session[s].revoked)
  BY <1>2, ChainStays DEF Rotate
<1>3. QED
  BY <1>1, <1>2

LEMMA ChainExpires ==
  ASSUME IInv, NEW s \in Sessions, Expire(s)
  PROVE  UNCHANGED Chain!vars
<1>1. session' = [session EXCEPT ![s].expired = TRUE] /\ pairs' = pairs
  BY DEF Expire
<1>2. PICK row \in SessionType : row = session[s]
  BY DEF IInv, TypeOK
<1>3. /\ session'[s] = [row EXCEPT !.expired = TRUE]
      /\ \A t \in Sessions \ {s} : session'[t] = session[t]
  BY <1>1, <1>2 DEF IInv, TypeOK
<1>4. \A t \in Sessions :
        /\ session'[t].opened = session[t].opened
        /\ session'[t].revoked = session[t].revoked
        /\ session'[t].token = session[t].token
  BY <1>2, <1>3 DEF SessionType
<1>5. QED
  BY <1>1, <1>4 DEF Chain!vars, ChainStatus, ChainToken

LEMMA NextRefines == IInv /\ [Next]_vars => [Chain!Next]_(Chain!vars)
<1> SUFFICES ASSUME IInv, [Next]_vars PROVE [Chain!Next]_(Chain!vars)
  OBVIOUS
<1>1. ASSUME UNCHANGED <<session, pairs>> PROVE [Chain!Next]_(Chain!vars)
  BY <1>1, ChainStays
<1>2. ASSUME NEW closed, session' = Revoked(closed), pairs' = pairs
      PROVE  [Chain!Next]_(Chain!vars)
  BY <1>2, ChainCloses
<1>3. ASSUME NEW q \in Requests, LoginStep(q) PROVE [Chain!Next]_(Chain!vars)
  <2>1. CASE RevokeExcess(q)
    BY <1>2, <2>1 DEF RevokeExcess
  <2>2. CASE \E s \in Sessions : OpenSession(q, s)
    BY <2>2, ChainOpens
  <2>3. CASE ~RevokeExcess(q) /\ ~\E s \in Sessions : OpenSession(q, s)
    BY <1>1, <1>3, <2>3
       DEF LoginStep, Login, LoginFailed, LoginVerified, SecondFactor, ReadExcess, rows
  <2>4. QED
    BY <2>1, <2>2, <2>3
<1>4. ASSUME NEW q \in Requests, RefreshStep(q) \/ Stop(q) PROVE [Chain!Next]_(Chain!vars)
  <2>1. CASE Rotate(q)
    BY <2>1, ChainRotates
  <2>2. CASE Reuse(q)
    BY <1>2, <2>2 DEF Reuse
  <2>3. CASE ~Rotate(q) /\ ~Reuse(q)
    BY <1>1, <1>4, <2>3 DEF RefreshStep, Refresh, Stop, rows
  <2>4. QED
    BY <2>1, <2>2, <2>3
<1>5. ASSUME NEW q \in Requests, AccountStep(q) PROVE [Chain!Next]_(Chain!vars)
  <2>1. CASE \/ EnableMfaWrite(q) \/ DisableMfaWrite(q)
             \/ ChangePasswordWrite(q) \/ ResetPasswordWrite(q)
    <3>1. session' = Revoked(Sessions) /\ pairs' = pairs
      BY <2>1 DEF EnableMfaWrite, DisableMfaWrite, ChangePasswordWrite, ResetPasswordWrite,
         RevokeAll
    <3>2. QED
      BY <1>2, <3>1
  <2>2. CASE \/ SetupMfa(q) \/ SetupMfaWrite(q) \/ EnableMfa(q) \/ DisableMfa(q)
             \/ DisableMfaCheck(q) \/ ChangePassword(q) \/ ResetPassword(q)
    BY <1>1, <2>2 DEF SetupMfa, SetupMfaWrite, EnableMfa, DisableMfa, DisableMfaCheck,
                      ChangePassword, ResetPassword, rows
  <2>3. QED
    BY <1>5, <2>1, <2>2 DEF AccountStep
<1>6. ASSUME NEW s \in Sessions, Logout(s) \/ RevokeOthers(s) \/ Expire(s)
      PROVE  [Chain!Next]_(Chain!vars)
  <2>1. CASE Logout(s)
    BY <1>2, <2>1 DEF Logout
  <2>2. CASE RevokeOthers(s)
    BY <1>2, <2>2 DEF RevokeOthers
  <2>3. CASE Expire(s)
    BY <2>3, ChainExpires
  <2>4. QED
    BY <1>6, <2>1, <2>2, <2>3
<1>7. ASSUME ForgotPassword \/ ResetExpires \/ Unlock PROVE [Chain!Next]_(Chain!vars)
  BY <1>1, <1>7 DEF ForgotPassword, ResetExpires, Unlock
<1>8. CASE UNCHANGED vars
  BY <1>1, <1>8 DEF vars
<1>9. QED
  BY <1>3, <1>4, <1>5, <1>6, <1>7, <1>8 DEF Next

\* Every session is a chain of token pairs as SessionChain promises, whichever requests race:
\* no pair is exchanged twice, and a session that was closed gives no other.
THEOREM ChainsAreImplemented == Spec => ChainSpec
<1>1. Init => Chain!Init
  <2> SUFFICES ASSUME Init PROVE Chain!Init
    OBVIOUS
  <2>1. \A s \in Sessions : ~session[s].opened /\ session[s].token = 0
    BY DEF Init, NoSession
  <2>2. pairs = [s \in Sessions |-> 0]
    BY DEF Init
  <2>3. QED
    BY <2>1, <2>2 DEF Chain!Init, ChainStatus, ChainToken
<1>2. QED
  BY <1>1, NextRefines, Invariance, PTL DEF Spec, ChainSpec, Chain!Spec
=============================================================================
