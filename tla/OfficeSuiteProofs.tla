------------------------- MODULE OfficeSuiteProofs --------------------------
(***************************************************************************)
(* The theorems of the suites MCPeople and, but for documents, MCPapers:   *)
(* what each part was shown to keep by the proofs of its component, for    *)
(* every value of the constants, the suite keeps as well.                  *)
(*                                                                         *)
(* For each part the proofs are instantiated with the rows of the part (a  *)
(* constant or variable of a component the part does not run is given any  *)
(* value). Same says that the component of the suite and that of the       *)
(* proofs are one, Keeps that the steps of the suite keep its invariant.   *)
(***************************************************************************)
EXTENDS MCPapers, MCPeople, Sequences, TLAPS

\* The parts "members", "tree", "workspace", "settings", "contacts", "series" and "orders".
FirstOffice == INSTANCE OfficeProofs WITH
  Sessions <- Nobody, Codes <- Nobody, MaxSessions <- 1, MaxFailed <- 1, MaxTokens <- 1,
  MaxChanges <- 0, Ops <- Nobody, user <- a, newer <- a, pairs <- a, settled <- a,
  Companies <- {x1, x2, x3}, SignIns <- {y1, y2}, member <- a, session <- b,
  Admins <- {q1}, Clients <- Nobody, Branches <- {z1, x1, x2, x3}, Main <- z1,
  branch <- a, papers <- b,
  Users <- {z1, z2}, SuperAdmins <- {z2}, Workspaces <- {x1, x2}, BranchCodes <- {main},
  Gstins <- Nobody, CompanyIds <- {y1, y2}, Legacy <- Nobody, MainCode <- main,
  FirmOps <- WorkspaceOps,
  workspace <- a, company <- b, staff <- c, sites <- d,
  Fields <- ThreeFields, Numbers <- {0, 9}, Lengths <- Nobody, Wordings <- Paper, stored <- a,
  Parties <- {z1}, Suppliers <- {z2}, Papers <- {x1, x2}, PartyGstins <- {"g1"},
  contact <- a, paper <- b, crossed <- c,
  Registers <- {"invoice", "document", "order", "receipt"}, Rows <- {x1, x2, x3},
  Years <- {z1, z2}, Typed <- {}, Redated <- {"receipt"}, Limit <- 5,
  numbered <- a, offered <- b,
  Orders <- {x1, x2}, BillIds <- {y1, y2}, Totals <- {1, 2}, MaxFiles <- 1,
  OrderOps <- {"create", "convert", "update", "remove"}, order <- a, bill <- b, files <- c

\* The parts "offices", "taxpayers" and "codes".
NextOffice == INSTANCE OfficeProofs WITH
  Sessions <- Nobody, Codes <- Nobody, MaxSessions <- 1, MaxFailed <- 1, MaxTokens <- 1,
  MaxChanges <- 0, Ops <- Nobody, user <- a, newer <- a, pairs <- a, settled <- a,
  Companies <- Nobody, SignIns <- Nobody, member <- a, session <- a,
  Admins <- Requests, Clients <- {z2}, Branches <- {z1, x1}, Main <- z1,
  branch <- a, papers <- b,
  Users <- {z1}, SuperAdmins <- Nobody, Workspaces <- {z2}, BranchCodes <- {main},
  Gstins <- {x1, x2}, CompanyIds <- {z1, z2}, Legacy <- {z2}, MainCode <- main,
  FirmOps <- GstinOps,
  workspace <- a, company <- b, staff <- c, sites <- d,
  Fields <- Nobody, Numbers <- Nobody, Lengths <- Nobody, Wordings <- Nobody, stored <- a,
  Parties <- Nobody, Suppliers <- Nobody, Papers <- Nobody, PartyGstins <- Nobody,
  contact <- a, paper <- a, crossed <- a,
  Registers <- {"code"}, Rows <- {x1, x2, x3}, Years <- {z1}, Typed <- {"code"},
  Redated <- {}, Limit <- 5,
  numbered <- a, offered <- b,
  OrderOps <- Nobody, Orders <- Nobody, BillIds <- Nobody, Totals <- Nobody, MaxFiles <- 0,
  order <- a, bill <- a, files <- a

\* The parts "sharing", "outlets" and "files".
OwnOffice == INSTANCE OfficeProofs WITH
  Requests <- {q1}, Sessions <- Nobody, Codes <- Nobody, MaxSessions <- 1, MaxFailed <- 1, MaxTokens <- 1,
  MaxChanges <- 0, Ops <- Nobody, user <- a, newer <- a, pairs <- a, settled <- a,
  Companies <- Nobody, SignIns <- Nobody, member <- a, session <- a,
  Admins <- Nobody, Clients <- Nobody, Branches <- Nobody, Main <- NoOne, branch <- a,
  papers <- a,
  Users <- {z1}, SuperAdmins <- Nobody, Workspaces <- {z1}, BranchCodes <- {main, side},
  Gstins <- Nobody, CompanyIds <- {y1, y2, x1, x2}, Legacy <- {x1, x2}, MainCode <- main,
  FirmOps <- SharingOps, workspace <- a, company <- b, staff <- c, sites <- d,
  Fields <- Nobody, Numbers <- Nobody, Lengths <- Nobody, Wordings <- Nobody, stored <- a,
  Parties <- Nobody, Suppliers <- Nobody, Papers <- Nobody, PartyGstins <- Nobody,
  contact <- a, paper <- a, crossed <- a,
  Registers <- Nobody, Rows <- Nobody, Years <- Nobody, Typed <- Nobody, Redated <- Nobody,
  Limit <- 0, numbered <- a, offered <- a,
  Orders <- {x1, x2}, BillIds <- {y1}, Totals <- {1}, MaxFiles <- 2,
  OrderOps <- {"create", "convert", "status", "remove", "files"}, order <- a, bill <- b, files <- c

-----------------------------------------------------------------------------
\* A step of the suite is one of its part, or leaves the rows of the part alone.
LEMMA PapersSteps ==
  ASSUME [PapersNext]_vars
  PROVE  /\ part' = part
         /\ part = "contacts" => [People!Next]_(People!vars)
         /\ part = "series" => [Series!Next]_(Series!vars)
         /\ part = "codes" => [PartyCodes!Next]_(PartyCodes!vars)
         /\ part = "orders" => [Buying!Next]_(Buying!vars)
         /\ part = "files" => [Attaching!Next]_(Attaching!vars)
BY DEF PapersNext, PartiesStep, DebtsStep, ContactsStep, SeriesStep, CodesStep, ChainStep,
       GoodsStep, OrdersStep, FilesStep, BillsStep, WordsStep, more, requests, vars,
       People!vars, Series!vars, PartyCodes!vars, Buying!vars, Attaching!vars

\* A step of the suite is one of its part, or leaves the rows of the part alone.
LEMMA PeopleSteps ==
  ASSUME [PeopleNext]_vars
  PROVE  /\ part' = part
         /\ part = "members" => [Members!Next]_(Members!vars)
         /\ part = "tree" => [Tree!Next]_(Tree!vars)
         /\ part = "offices" => [Offices!Next]_(Offices!vars)
         /\ part = "workspace" => [Workspace!Next]_(Workspace!vars)
         /\ part = "taxpayers" => [Taxpayers!Next]_(Taxpayers!vars)
         /\ part = "settings" => [Settings!Next]_(Settings!vars)
BY DEF PeopleNext, MembersStep, TreeStep, OfficesStep, WorkspaceStep, TaxpayersStep,
       SharingStep, OutletsStep, SettingsStep, OneTimeStep, LastPeriod, others, vars,
       Members!vars, Tree!vars, Offices!vars, Workspace!vars, Taxpayers!vars, Settings!vars

-----------------------------------------------------------------------------
(* Members: the instance Members of OfficeProofs.                          *)

\* The parts run no sign-in: what AuthSessions assumes holds of its constants here.
LEMMA NobodySignsIn ==
  /\ 1 \in Nat \ {0} /\ 0 \in Nat /\ NoOne \notin Nobody
  /\ FirstOffice!IsFiniteSet(Nobody) /\ NextOffice!IsFiniteSet(Nobody)
  /\ OwnOffice!IsFiniteSet(Nobody)
<1>1. << >> \in Seq(Nobody)
  OBVIOUS
<1>2. \A s \in Nobody : \E n \in 1 .. Len(<< >>) : << >>[n] = s
  BY DEF Nobody
<1>3. FirstOffice!IsFiniteSet(Nobody)
  BY Zenon, <1>1, <1>2 DEF FirstOffice!IsFiniteSet
<1>4. NextOffice!IsFiniteSet(Nobody)
  BY Zenon, <1>1, <1>2 DEF NextOffice!IsFiniteSet
<1>5. OwnOffice!IsFiniteSet(Nobody)
  BY Zenon, <1>1, <1>2 DEF OwnOffice!IsFiniteSet
<1>6. QED
  BY <1>3, <1>4, <1>5 DEF Nobody

LEMMA MembersSame ==
  /\ Members!TeamAssumption => FirstOffice!Members!TeamAssumption
  /\ Members!Init => FirstOffice!Members!Init
  /\ [Members!Next]_(Members!vars) => [FirstOffice!Members!Next]_(FirstOffice!Members!vars)
  /\ (Members!IInv <=> FirstOffice!Members!IInv) /\ (Members!IInv' <=> FirstOffice!Members!IInv')
  /\ FirstOffice!Members!RemovalSignsOutStep => Members!RemovalSignsOutStep
BY Zenon DEF
     Members!Init, Members!Next, Members!vars, Members!IInv, Members!TeamAssumption,
     Members!RemovalSignsOutStep, Members!NoJob, Members!Create, Members!TeamMember,
     Members!SetActive, Members!Remove, Members!RemoveCommit, Members!Login, Members!TypeOK,
     Members!Active, Members!CanWrite, Members!Goto, Members!End, Members!Opened,
     FirstOffice!Members!Init, FirstOffice!Members!Next, FirstOffice!Members!vars,
     FirstOffice!Members!IInv, FirstOffice!Members!TeamAssumption,
     FirstOffice!Members!RemovalSignsOutStep, FirstOffice!Members!NoJob,
     FirstOffice!Members!Create, FirstOffice!Members!TeamMember, FirstOffice!Members!SetActive,
     FirstOffice!Members!Remove, FirstOffice!Members!RemoveCommit, FirstOffice!Members!Login,
     FirstOffice!Members!TypeOK, FirstOffice!Members!Active, FirstOffice!Members!CanWrite,
     FirstOffice!Members!Goto, FirstOffice!Members!End, FirstOffice!Members!Opened

LEMMA MembersKeeps ==
  ASSUME part = "members"
  PROVE  /\ PeopleInit => Members!IInv
         /\ Members!IInv /\ [PeopleNext]_vars => Members!IInv'
<1>1. FirstOffice!Members!TeamAssumption
  BY MembersSame, MembersAssumption
<1>2. PeopleInit => Members!IInv
  BY <1>1, MembersSame, PartsAssumption, NobodySignsIn, FirstOffice!MembersInitInv DEF
     PeopleInit
<1>3. QED
  BY <1>1, <1>2, PeopleSteps, MembersSame, PartsAssumption, NobodySignsIn,
     FirstOffice!MembersStepInv

\* The suite's RemovalSignsOut: the removal from the last company signs a member out.
THEOREM RemovalsSignOut == PeopleSpec => RemovalSignsOut
<1> DEFINE Kept == part = "members" => Members!IInv
           Signs == part = "members" => Members!RemovalSignsOutStep
<1>1. PeopleInit => Kept
  BY MembersKeeps DEF PeopleInit
<1>2. Kept /\ [PeopleNext]_vars => Kept'
  BY MembersKeeps, PeopleSteps
<1>3. Kept /\ [PeopleNext]_vars => Signs
  <2>1. SUFFICES ASSUME Members!IInv, [Members!Next]_(Members!vars)
                 PROVE  Members!RemovalSignsOutStep
    BY PeopleSteps
  <2>2. FirstOffice!Members!IInv /\ [FirstOffice!Members!Next]_(FirstOffice!Members!vars)
    BY <2>1, MembersSame
  <2>3. FirstOffice!Members!RemovalSignsOutStep
    BY <2>2, NobodySignsIn, FirstOffice!LastRemovalSignsOut
  <2>4. QED
    BY <2>3, MembersSame
<1>4. QED
  BY <1>1, <1>2, <1>3, PTL DEF PeopleSpec, RemovalSignsOut

-----------------------------------------------------------------------------
(* Branches: the instance Tree of OfficeProofs.                            *)

LEMMA TreeSame ==
  /\ Tree!BranchTreeAssumption => FirstOffice!Tree!BranchTreeAssumption
  /\ Tree!Init => FirstOffice!Tree!Init
  /\ [Tree!Next]_(Tree!vars) => [FirstOffice!Tree!Next]_(FirstOffice!Tree!vars)
  /\ (Tree!IInv <=> FirstOffice!Tree!IInv) /\ (Tree!IInv' <=> FirstOffice!Tree!IInv')
  /\ (Tree!AloneInv <=> FirstOffice!Tree!AloneInv) /\ (Tree!AloneInv' <=> FirstOffice!Tree!AloneInv')
BY Zenon DEF
     Tree!Init, Tree!Next, Tree!vars, Tree!IInv, Tree!AloneInv, Tree!BranchTreeAssumption,
     Tree!NoBranch, Tree!Callers, Tree!NoJob, Tree!Create, Tree!FittingPatches, Tree!Update,
     Tree!Remove, Tree!CreateCommit, Tree!UpdateCommit, Tree!RemoveCommit, Tree!CanActivate,
     Tree!Record, Tree!TypeOK, Tree!UsedBranchesKept, Tree!NoCycle, Tree!SomeActive,
     Tree!Checked, Tree!Live, Tree!Goto, Tree!Patches, Tree!Fits, Tree!Active,
     Tree!NotLastActive, Tree!ValidParent, Tree!End, Tree!JobRow, Tree!Reaches,
     FirstOffice!Tree!Init, FirstOffice!Tree!Next, FirstOffice!Tree!vars, FirstOffice!Tree!IInv,
     FirstOffice!Tree!AloneInv, FirstOffice!Tree!BranchTreeAssumption, FirstOffice!Tree!NoBranch,
     FirstOffice!Tree!Callers, FirstOffice!Tree!NoJob, FirstOffice!Tree!Create,
     FirstOffice!Tree!FittingPatches, FirstOffice!Tree!Update, FirstOffice!Tree!Remove,
     FirstOffice!Tree!CreateCommit, FirstOffice!Tree!UpdateCommit, FirstOffice!Tree!RemoveCommit,
     FirstOffice!Tree!CanActivate, FirstOffice!Tree!Record, FirstOffice!Tree!TypeOK,
     FirstOffice!Tree!UsedBranchesKept, FirstOffice!Tree!NoCycle, FirstOffice!Tree!SomeActive,
     FirstOffice!Tree!Checked, FirstOffice!Tree!Live, FirstOffice!Tree!Goto,
     FirstOffice!Tree!Patches, FirstOffice!Tree!Fits, FirstOffice!Tree!Active,
     FirstOffice!Tree!NotLastActive, FirstOffice!Tree!ValidParent, FirstOffice!Tree!End,
     FirstOffice!Tree!JobRow, FirstOffice!Tree!Reaches

LEMMA TreeKeeps ==
  ASSUME part = "tree"
  PROVE  /\ PeopleInit => Tree!IInv /\ Tree!AloneInv
         /\ Tree!IInv /\ Tree!AloneInv /\ [PeopleNext]_vars => Tree!IInv' /\ Tree!AloneInv'
<1>1. FirstOffice!Tree!BranchTreeAssumption
  BY TreeSame, BranchesAssumption
<1>2. PeopleInit => Tree!IInv /\ Tree!AloneInv
  BY <1>1, TreeSame, PartsAssumption, NobodySignsIn, FirstOffice!TreeInitInv,
     FirstOffice!AloneInit DEF PeopleInit
<1>3. QED
  BY <1>1, <1>2, PeopleSteps, TreeSame, PartsAssumption, NobodySignsIn, FirstOffice!TreeStepInv,
     FirstOffice!TreeAloneStep

LEMMA OfficesSame ==
  /\ Offices!BranchTreeAssumption => NextOffice!Tree!BranchTreeAssumption
  /\ Offices!Init => NextOffice!Tree!Init
  /\ [Offices!Next]_(Offices!vars) => [NextOffice!Tree!Next]_(NextOffice!Tree!vars)
  /\ (Offices!IInv <=> NextOffice!Tree!IInv) /\ (Offices!IInv' <=> NextOffice!Tree!IInv')
BY Zenon DEF
     Offices!Init, Offices!Next, Offices!vars, Offices!IInv, Offices!BranchTreeAssumption,
     Offices!NoBranch, Offices!Callers, Offices!NoJob, Offices!Create, Offices!FittingPatches,
     Offices!Update, Offices!Remove, Offices!CreateCommit, Offices!UpdateCommit,
     Offices!RemoveCommit, Offices!CanActivate, Offices!Record, Offices!TypeOK,
     Offices!UsedBranchesKept, Offices!Live, Offices!Goto, Offices!Patches, Offices!Fits,
     Offices!Active, Offices!NotLastActive, Offices!ValidParent, Offices!End, Offices!JobRow,
     Offices!Reaches, NextOffice!Tree!Init, NextOffice!Tree!Next, NextOffice!Tree!vars,
     NextOffice!Tree!IInv, NextOffice!Tree!BranchTreeAssumption, NextOffice!Tree!NoBranch,
     NextOffice!Tree!Callers, NextOffice!Tree!NoJob, NextOffice!Tree!Create,
     NextOffice!Tree!FittingPatches, NextOffice!Tree!Update, NextOffice!Tree!Remove,
     NextOffice!Tree!CreateCommit, NextOffice!Tree!UpdateCommit, NextOffice!Tree!RemoveCommit,
     NextOffice!Tree!CanActivate, NextOffice!Tree!Record, NextOffice!Tree!TypeOK,
     NextOffice!Tree!UsedBranchesKept, NextOffice!Tree!Live, NextOffice!Tree!Goto,
     NextOffice!Tree!Patches, NextOffice!Tree!Fits, NextOffice!Tree!Active,
     NextOffice!Tree!NotLastActive, NextOffice!Tree!ValidParent, NextOffice!Tree!End,
     NextOffice!Tree!JobRow, NextOffice!Tree!Reaches

LEMMA OfficesKeeps ==
  ASSUME part = "offices"
  PROVE  /\ PeopleInit => Offices!IInv
         /\ Offices!IInv /\ [PeopleNext]_vars => Offices!IInv'
<1>1. NextOffice!Tree!BranchTreeAssumption
  BY OfficesSame, BranchesAssumption
<1>2. PeopleInit => Offices!IInv
  BY <1>1, OfficesSame, PartsAssumption, NobodySignsIn, NextOffice!TreeInitInv DEF PeopleInit
<1>3. QED
  BY <1>1, <1>2, PeopleSteps, OfficesSame, PartsAssumption, NobodySignsIn,
     NextOffice!TreeStepInv

BranchesKept ==
  /\ part = "tree" => Tree!IInv /\ Tree!AloneInv
  /\ part = "offices" => Offices!IInv

LEMMA BranchesKeptAlways ==
  /\ PeopleInit => BranchesKept
  /\ BranchesKept /\ [PeopleNext]_vars => BranchesKept'
BY PeopleSteps, TreeKeeps, OfficesKeeps DEF BranchesKept

\* The suite's BranchesHoldTogether: parents form no cycle and one branch is active while one
\* administrator works at a time; a branch with records stays.
THEOREM BranchesStayTogether == PeopleSpec => []BranchesHoldTogether
<1>1. PeopleInit => BranchesKept
  BY BranchesKeptAlways
<1>2. BranchesKept /\ [PeopleNext]_vars => BranchesKept'
  BY BranchesKeptAlways
<1>3. BranchesKept => BranchesHoldTogether
  BY DEF BranchesKept, BranchesHoldTogether
<1>4. QED
  BY <1>1, <1>2, <1>3, PTL DEF PeopleSpec

-----------------------------------------------------------------------------
(* Companies: the instance Firms of OfficeProofs.                          *)

LEMMA WorkspaceSame ==
  /\ Workspace!CompaniesAssumption => FirstOffice!Firms!CompaniesAssumption
  /\ Workspace!Init => FirstOffice!Firms!Init
  /\ [Workspace!Next]_(Workspace!vars) => [FirstOffice!Firms!Next]_(FirstOffice!Firms!vars)
  /\ (Workspace!IInv <=> FirstOffice!Firms!IInv) /\ (Workspace!IInv' <=> FirstOffice!Firms!IInv')
BY Zenon DEF
     Workspace!Init, Workspace!Next, Workspace!vars, Workspace!IInv,
     Workspace!CompaniesAssumption, Workspace!NoWorkspace, Workspace!NoCompany, Workspace!NoJob,
     Workspace!WorkspaceStep, Workspace!CompanyStep, Workspace!SetBranch, Workspace!RenameBranch,
     Workspace!TypeOK, Workspace!Going, Workspace!WorkspacesExist, Workspace!GstinsDiffer,
     Workspace!CreateWorkspace, Workspace!UpdateWorkspace, Workspace!RemoveWorkspace,
     Workspace!RemoveWorkspaceCommit, Workspace!Create, Workspace!Update, Workspace!Archive,
     Workspace!CreateCommit, Workspace!UpdateCommit, Workspace!ArchiveCommit, Workspace!Known,
     Workspace!CompanyRow, Workspace!JobRow, Workspace!Available, Workspace!Owned,
     Workspace!Start, Workspace!End, Workspace!Accessible, FirstOffice!Firms!Init,
     FirstOffice!Firms!Next, FirstOffice!Firms!vars, FirstOffice!Firms!IInv,
     FirstOffice!Firms!CompaniesAssumption, FirstOffice!Firms!NoWorkspace,
     FirstOffice!Firms!NoCompany, FirstOffice!Firms!NoJob, FirstOffice!Firms!WorkspaceStep,
     FirstOffice!Firms!CompanyStep, FirstOffice!Firms!SetBranch, FirstOffice!Firms!RenameBranch,
     FirstOffice!Firms!TypeOK, FirstOffice!Firms!Going, FirstOffice!Firms!WorkspacesExist,
     FirstOffice!Firms!GstinsDiffer, FirstOffice!Firms!CreateWorkspace,
     FirstOffice!Firms!UpdateWorkspace, FirstOffice!Firms!RemoveWorkspace,
     FirstOffice!Firms!RemoveWorkspaceCommit, FirstOffice!Firms!Create, FirstOffice!Firms!Update,
     FirstOffice!Firms!Archive, FirstOffice!Firms!CreateCommit, FirstOffice!Firms!UpdateCommit,
     FirstOffice!Firms!ArchiveCommit, FirstOffice!Firms!Known, FirstOffice!Firms!CompanyRow,
     FirstOffice!Firms!JobRow, FirstOffice!Firms!Available, FirstOffice!Firms!Owned,
     FirstOffice!Firms!Start, FirstOffice!Firms!End, FirstOffice!Firms!Accessible

LEMMA WorkspaceKeeps ==
  ASSUME part = "workspace"
  PROVE  /\ PeopleInit => Workspace!IInv
         /\ Workspace!IInv /\ [PeopleNext]_vars => Workspace!IInv'
<1>1. FirstOffice!Firms!CompaniesAssumption
  BY WorkspaceSame, WorkspacesAssumption
<1>2. PeopleInit => Workspace!IInv
  BY <1>1, WorkspaceSame, PartsAssumption, NobodySignsIn, FirstOffice!FirmsInitInv DEF
     PeopleInit
<1>3. QED
  BY <1>1, <1>2, PeopleSteps, WorkspaceSame, PartsAssumption, NobodySignsIn,
     FirstOffice!FirmsStepInv

LEMMA TaxpayersSame ==
  /\ Taxpayers!CompaniesAssumption => NextOffice!Firms!CompaniesAssumption
  /\ Taxpayers!Init => NextOffice!Firms!Init
  /\ [Taxpayers!Next]_(Taxpayers!vars) => [NextOffice!Firms!Next]_(NextOffice!Firms!vars)
  /\ (Taxpayers!IInv <=> NextOffice!Firms!IInv) /\ (Taxpayers!IInv' <=> NextOffice!Firms!IInv')
BY Zenon DEF
     Taxpayers!Init, Taxpayers!Next, Taxpayers!vars, Taxpayers!IInv,
     Taxpayers!CompaniesAssumption, Taxpayers!NoWorkspace, Taxpayers!NoCompany, Taxpayers!NoJob,
     Taxpayers!WorkspaceStep, Taxpayers!CompanyStep, Taxpayers!SetBranch, Taxpayers!RenameBranch,
     Taxpayers!TypeOK, Taxpayers!Going, Taxpayers!WorkspacesExist, Taxpayers!GstinsDiffer,
     Taxpayers!CreateWorkspace, Taxpayers!UpdateWorkspace, Taxpayers!RemoveWorkspace,
     Taxpayers!RemoveWorkspaceCommit, Taxpayers!Create, Taxpayers!Update, Taxpayers!Archive,
     Taxpayers!CreateCommit, Taxpayers!UpdateCommit, Taxpayers!ArchiveCommit, Taxpayers!Known,
     Taxpayers!CompanyRow, Taxpayers!JobRow, Taxpayers!Available, Taxpayers!Owned,
     Taxpayers!Start, Taxpayers!End, Taxpayers!Accessible, NextOffice!Firms!Init,
     NextOffice!Firms!Next, NextOffice!Firms!vars, NextOffice!Firms!IInv,
     NextOffice!Firms!CompaniesAssumption, NextOffice!Firms!NoWorkspace,
     NextOffice!Firms!NoCompany, NextOffice!Firms!NoJob, NextOffice!Firms!WorkspaceStep,
     NextOffice!Firms!CompanyStep, NextOffice!Firms!SetBranch, NextOffice!Firms!RenameBranch,
     NextOffice!Firms!TypeOK, NextOffice!Firms!Going, NextOffice!Firms!WorkspacesExist,
     NextOffice!Firms!GstinsDiffer, NextOffice!Firms!CreateWorkspace,
     NextOffice!Firms!UpdateWorkspace, NextOffice!Firms!RemoveWorkspace,
     NextOffice!Firms!RemoveWorkspaceCommit, NextOffice!Firms!Create, NextOffice!Firms!Update,
     NextOffice!Firms!Archive, NextOffice!Firms!CreateCommit, NextOffice!Firms!UpdateCommit,
     NextOffice!Firms!ArchiveCommit, NextOffice!Firms!Known, NextOffice!Firms!CompanyRow,
     NextOffice!Firms!JobRow, NextOffice!Firms!Available, NextOffice!Firms!Owned,
     NextOffice!Firms!Start, NextOffice!Firms!End, NextOffice!Firms!Accessible

LEMMA TaxpayersKeeps ==
  ASSUME part = "taxpayers"
  PROVE  /\ PeopleInit => Taxpayers!IInv
         /\ Taxpayers!IInv /\ [PeopleNext]_vars => Taxpayers!IInv'
<1>1. NextOffice!Firms!CompaniesAssumption
  BY TaxpayersSame, WorkspacesAssumption
<1>2. PeopleInit => Taxpayers!IInv
  BY <1>1, TaxpayersSame, PartsAssumption, NobodySignsIn, NextOffice!FirmsInitInv DEF PeopleInit
<1>3. QED
  BY <1>1, <1>2, PeopleSteps, TaxpayersSame, PartsAssumption, NobodySignsIn,
     NextOffice!FirmsStepInv

CompaniesKept ==
  /\ part = "workspace" => Workspace!IInv
  /\ part = "taxpayers" => Taxpayers!IInv

LEMMA CompaniesKeptAlways ==
  /\ PeopleInit => CompaniesKept
  /\ CompaniesKept /\ [PeopleNext]_vars => CompaniesKept'
BY PeopleSteps, WorkspaceKeeps, TaxpayersKeeps DEF CompaniesKept

LEMMA OutletsSame == OwnOffice!Firms!MastersIsolated => Outlets!MastersIsolated
BY Zenon DEF
     Outlets!MastersIsolated, Outlets!Known, Outlets!LogicalBranches, Outlets!BranchBusinesses,
     OwnOffice!Firms!MastersIsolated, OwnOffice!Firms!Known, OwnOffice!Firms!LogicalBranches,
     OwnOffice!Firms!BranchBusinesses

\* One of the codes of "outlets".
LEMMA SharingSame == OwnOffice!Firms!MastersIsolated => Sharing!MastersIsolated
<1>1. \A c_, x_ : Sharing!BranchBusinesses(c_, x_) = OwnOffice!Firms!BranchBusinesses(c_, x_)
  BY Zenon DEF
     Sharing!BranchBusinesses, Sharing!Known, OwnOffice!Firms!BranchBusinesses,
     OwnOffice!Firms!Known
<1>2. Sharing!Known = OwnOffice!Firms!Known
  BY Zenon DEF
     Sharing!Known, OwnOffice!Firms!Known
<1>3. ASSUME NEW c_, NEW x_ \in {main}, NEW d_, NEW y_ \in {main}
      PROVE  <<d_, y_>> \in Sharing!LogicalBranches(c_, x_)
               <=> <<d_, y_>> \in OwnOffice!Firms!LogicalBranches(c_, x_)
  BY <1>1 DEF Sharing!LogicalBranches, OwnOffice!Firms!LogicalBranches
<1>4. QED
  BY <1>2, <1>3 DEF Sharing!MastersIsolated, OwnOffice!Firms!MastersIsolated

\* The suite's MastersIsolated: customers and items are shared mutually and within a workspace
\* branch only, no two companies have one GSTIN, and their workspace branches exist.
THEOREM MastersStayIsolated == PeopleSpec => []MastersIsolated
<1>1. PeopleInit => CompaniesKept
  BY CompaniesKeptAlways
<1>2. CompaniesKept /\ [PeopleNext]_vars => CompaniesKept'
  BY CompaniesKeptAlways
<1>3. Sharing!MastersIsolated /\ Outlets!MastersIsolated
  BY SharingSame, OutletsSame, NobodySignsIn, OwnOffice!SharingIsMutual
<1>4. CompaniesKept => MastersIsolated
  BY <1>3 DEF CompaniesKept, MastersIsolated
<1>5. QED
  BY <1>1, <1>2, <1>4, PTL DEF PeopleSpec

-----------------------------------------------------------------------------
(* Preferences: the instance Settings of OfficeProofs.                     *)

LEMMA SettingsSame ==
  /\ Settings!PreferencesAssumption => FirstOffice!Settings!PreferencesAssumption
  /\ Settings!Init => FirstOffice!Settings!Init
  /\ [Settings!Next]_(Settings!vars) => [FirstOffice!Settings!Next]_(FirstOffice!Settings!vars)
  /\ Settings!IInv <=> FirstOffice!Settings!IInv
  /\ Settings!IInv' <=> FirstOffice!Settings!IInv'
  /\ FirstOffice!Settings!SavesKeepTheRestStep => Settings!SavesKeepTheRestStep
  /\ FirstOffice!Settings!ReadsAreValid => Settings!ReadsAreValid
<1>1. Settings!Switches = FirstOffice!Settings!Switches /\ Settings!Off = FirstOffice!Settings!Off
  BY Zenon DEF Settings!Switches, FirstOffice!Settings!Switches, Settings!Off,
     FirstOffice!Settings!Off
<1>2. Settings!Numeric = FirstOffice!Settings!Numeric
  BY Zenon DEF Settings!Numeric, FirstOffice!Settings!Numeric, Settings!Integer,
     FirstOffice!Settings!Integer
<1>3. Settings!Choices = FirstOffice!Settings!Choices
  BY Zenon DEF Settings!Choices, FirstOffice!Settings!Choices, Settings!OneOf,
     FirstOffice!Settings!OneOf
<1>4. Settings!Texts = FirstOffice!Settings!Texts
  <2>1. Settings!IMAGE_MAX = FirstOffice!Settings!IMAGE_MAX
    BY SMT DEF Settings!IMAGE_MAX, FirstOffice!Settings!IMAGE_MAX
  <2>2. Settings!MESSAGE_MAX = FirstOffice!Settings!MESSAGE_MAX
    BY SMT DEF Settings!MESSAGE_MAX, FirstOffice!Settings!MESSAGE_MAX
  <2>3. ASSUME NEW n_, NEW m_ PROVE Settings!Text(n_, m_) = FirstOffice!Settings!Text(n_, m_)
    BY Zenon DEF Settings!Text, FirstOffice!Settings!Text
  <2>4. QED
    BY <2>1, <2>2, <2>3 DEF Settings!Texts, FirstOffice!Settings!Texts
<1>5. ASSUME NEW f_ PROVE Settings!PreferenceSpec(f_) = FirstOffice!Settings!PreferenceSpec(f_)
  BY <1>1, <1>2, <1>3, <1>4 DEF Settings!PreferenceSpec, FirstOffice!Settings!PreferenceSpec,
     Settings!Has, FirstOffice!Settings!Has, Settings!Bool, FirstOffice!Settings!Bool
<1>6. ASSUME NEW s_, NEW v_ PROVE Settings!Valid(s_, v_) <=> FirstOffice!Settings!Valid(s_, v_)
  BY DEF Settings!Valid, FirstOffice!Settings!Valid
<1>7. ASSUME NEW s_ PROVE Settings!Default(s_) = FirstOffice!Settings!Default(s_)
  BY DEF Settings!Default, FirstOffice!Settings!Default, Settings!Value,
     FirstOffice!Settings!Value
<1>8. ASSUME NEW s_, NEW v_ PROVE Settings!ReadField(s_, v_) = FirstOffice!Settings!ReadField(s_, v_)
  BY <1>6, <1>7 DEF Settings!ReadField, FirstOffice!Settings!ReadField
<1>9. Settings!AllFields = FirstOffice!Settings!AllFields
  BY Zenon, <1>1, <1>2, <1>4, <1>3 DEF Settings!AllFields, FirstOffice!Settings!AllFields
<1>10. Settings!Values = FirstOffice!Settings!Values
  BY Zenon DEF Settings!Values, FirstOffice!Settings!Values, Settings!Absent,
     FirstOffice!Settings!Absent,
     Settings!Value, FirstOffice!Settings!Value
<1>11. Settings!Resolved = FirstOffice!Settings!Resolved
  BY <1>5, <1>8 DEF Settings!Resolved, FirstOffice!Settings!Resolved
<1>12. Settings!Resolved' = FirstOffice!Settings!Resolved'
  BY <1>5, <1>8 DEF Settings!Resolved, FirstOffice!Settings!Resolved
<1>13. ASSUME NEW p_ PROVE Settings!Accepted(p_) <=> FirstOffice!Settings!Accepted(p_)
  BY <1>5, <1>8 DEF Settings!Accepted, FirstOffice!Settings!Accepted
<1>14. Settings!PreferencesAssumption => FirstOffice!Settings!PreferencesAssumption
  <2>1. Settings!DefaultsAreValid => FirstOffice!Settings!DefaultsAreValid
    BY <1>5, <1>6, <1>7, <1>9 DEF Settings!DefaultsAreValid,
       FirstOffice!Settings!DefaultsAreValid
  <2>2. QED
    BY <2>1, <1>9 DEF Settings!PreferencesAssumption, FirstOffice!Settings!PreferencesAssumption
<1>15. Settings!Init => FirstOffice!Settings!Init
  BY <1>10 DEF Settings!Init, FirstOffice!Settings!Init, Settings!NoSave,
     FirstOffice!Settings!NoSave
<1>16. [Settings!Next]_(Settings!vars) => [FirstOffice!Settings!Next]_(FirstOffice!Settings!vars)
  <2>1. ASSUME NEW q_ \in Requests, Settings!Read(q_) PROVE FirstOffice!Settings!Read(q_)
    <3> DEFINE next(F_, p_) == [f_ \in ThreeFields |-> IF f_ \in F_ THEN p_[f_] ELSE Settings!Resolved[f_]]
               sent(F_, p_) == [job EXCEPT ![q_] = [patch |-> p_, overtaken |-> FALSE, next |-> next(F_, p_)]]
    <3>1. PICK F_ \in (SUBSET ThreeFields) \ {{}} :
            Settings!Cardinality(F_) <= 2
            /\ \E p_ \in [F_ -> Settings!Values] : Settings!Accepted(p_) /\ job' = sent(F_, p_)
      BY <2>1 DEF Settings!Read
    <3>2. PICK p_ \in [F_ -> Settings!Values] : Settings!Accepted(p_) /\ job' = sent(F_, p_)
      BY <3>1
    <3>3. next(F_, p_) = [f_ \in ThreeFields |-> IF f_ \in F_ THEN p_[f_] ELSE FirstOffice!Settings!Resolved[f_]]
      BY <1>11
    <3> HIDE DEF next
    <3>4. Settings!Cardinality(F_) = FirstOffice!Settings!Cardinality(F_)
      BY Zenon DEF Settings!Cardinality, FirstOffice!Settings!Cardinality
    <3>5. FirstOffice!Settings!Accepted(p_) /\ p_ \in [F_ -> FirstOffice!Settings!Values]
      BY <3>2, <1>10, <1>13
    <3>6. pc[q_] = "idle" /\ pc' = [pc EXCEPT ![q_] = "write"] /\ UNCHANGED a
      BY <2>1 DEF Settings!Read
    <3>7. job' = [job EXCEPT ![q_] = [patch |-> p_, overtaken |-> FALSE,
             next |-> [f_ \in ThreeFields |-> IF f_ \in F_ THEN p_[f_] ELSE FirstOffice!Settings!Resolved[f_]]]]
      BY <3>2, <3>3
    <3>8. QED
      BY Zenon, <3>1, <3>4, <3>5, <3>6, <3>7 DEF FirstOffice!Settings!Read
  <2>2. ASSUME NEW q_ \in Requests, Settings!Write(q_) PROVE FirstOffice!Settings!Write(q_)
    BY Zenon, <2>2 DEF Settings!Write, FirstOffice!Settings!Write, Settings!Written,
       FirstOffice!Settings!Written, Settings!NoSave, FirstOffice!Settings!NoSave
  <2>3. QED
    BY Zenon, <2>1, <2>2 DEF Settings!Next, FirstOffice!Settings!Next, Settings!vars,
       FirstOffice!Settings!vars
<1>17. Settings!IInv <=> FirstOffice!Settings!IInv
  <2>1. ASSUME NEW q_ PROVE Settings!Saving(q_) <=> FirstOffice!Settings!Saving(q_)
    BY <1>11, <1>13 DEF Settings!Saving, FirstOffice!Settings!Saving
  <2>2. QED
    BY Zenon, <2>1 DEF Settings!IInv, FirstOffice!Settings!IInv, Settings!TypeOK,
       FirstOffice!Settings!TypeOK
<1>18. Settings!IInv' <=> FirstOffice!Settings!IInv'
  <2>1. ASSUME NEW q_ \in Requests PROVE Settings!Saving(q_)' <=> FirstOffice!Settings!Saving(q_)'
    BY <1>12, <1>5, <1>8 DEF Settings!Saving, FirstOffice!Settings!Saving,
       Settings!Accepted, FirstOffice!Settings!Accepted
  <2>2. QED
    BY Zenon, <2>1 DEF Settings!IInv, FirstOffice!Settings!IInv, Settings!TypeOK,
       FirstOffice!Settings!TypeOK
<1>19. FirstOffice!Settings!SavesKeepTheRestStep => Settings!SavesKeepTheRestStep
  BY <1>11, <1>12 DEF Settings!SavesKeepTheRestStep, FirstOffice!Settings!SavesKeepTheRestStep
<1>20. FirstOffice!Settings!ReadsAreValid => Settings!ReadsAreValid
  BY <1>5, <1>6, <1>11 DEF Settings!ReadsAreValid, FirstOffice!Settings!ReadsAreValid
<1>21. QED
  BY <1>14, <1>15, <1>16, <1>17, <1>18, <1>19, <1>20

LEMMA SettingsKeeps ==
  ASSUME part = "settings"
  PROVE  /\ PeopleInit => Settings!IInv
         /\ Settings!IInv /\ [PeopleNext]_vars => Settings!IInv'
<1>1. FirstOffice!Settings!PreferencesAssumption
  BY SettingsSame, SettingsAssumption
<1>2. PeopleInit => Settings!IInv
  BY <1>1, SettingsSame, PartsAssumption, NobodySignsIn, FirstOffice!SettingsInitInv DEF
     PeopleInit
<1>3. QED
  BY <1>1, <1>2, PeopleSteps, SettingsSame, PartsAssumption, NobodySignsIn,
     FirstOffice!SettingsStepInv

\* The suite's SavesKeepTheRest: a save keeps what it did not send unless it is overtaken, and
\* only valid values are read.
THEOREM SavesAreKept == PeopleSpec => SavesKeepTheRest
<1> DEFINE Kept == part = "settings" => Settings!IInv
           Saves == part = "settings" => Settings!SavesKeepTheRestStep
           Reads == part = "settings" => Settings!ReadsAreValid
<1>1. PeopleInit => Kept
  BY SettingsKeeps DEF PeopleInit
<1>2. Kept /\ [PeopleNext]_vars => Kept'
  BY SettingsKeeps, PeopleSteps
<1>3. FirstOffice!Settings!PreferencesAssumption
  BY SettingsSame, SettingsAssumption
<1>4. Kept /\ [PeopleNext]_vars => Saves
  <2>1. SUFFICES ASSUME Settings!IInv, [Settings!Next]_(Settings!vars)
                 PROVE  Settings!SavesKeepTheRestStep
    BY PeopleSteps
  <2>2. FirstOffice!Settings!IInv /\ [FirstOffice!Settings!Next]_(FirstOffice!Settings!vars)
    BY <2>1, SettingsSame
  <2>3. FirstOffice!Settings!SavesKeepTheRestStep
    BY <1>3, <2>2, NobodySignsIn, FirstOffice!WriteSaves
  <2>4. QED
    BY <2>3, SettingsSame
<1>5. Reads
  BY <1>3, SettingsSame, NobodySignsIn, FirstOffice!AllReadsAreValid
<1>6. QED
  BY <1>1, <1>2, <1>4, <1>5, PTL DEF PeopleSpec, SavesKeepTheRest

-----------------------------------------------------------------------------
(* Customers and suppliers: the instance People of OfficeProofs.           *)

LEMMA PeopleSame ==
  /\ People!ContactsAssumption => FirstOffice!People!ContactsAssumption
  /\ People!Init => FirstOffice!People!Init
  /\ [People!Next]_(People!vars) => [FirstOffice!People!Next]_(FirstOffice!People!vars)
  /\ (People!IInv <=> FirstOffice!People!IInv) /\ (People!IInv' <=> FirstOffice!People!IInv')
BY Zenon DEF
     People!Init, People!Next, People!vars, People!IInv, People!ContactsAssumption,
     People!Contact, People!NoPaper, People!Idle, People!GstTypes, People!Update, People!Remove,
     People!Kinds, People!Write, People!WriteParty, People!WriteSupplier, People!CountLinked,
     People!MarkDeleted, People!CommitPaper, People!RemoveCost, People!TypeOK,
     People!PapersCount, People!Going, People!CountedPapersCrossed,
     People!OnlyCrossingPapersAreLeft, People!FindOne, People!Counted, People!UsesGstin,
     People!Done, People!Crosses, People!Row, People!JobRow, FirstOffice!People!Init,
     FirstOffice!People!Next, FirstOffice!People!vars, FirstOffice!People!IInv,
     FirstOffice!People!ContactsAssumption, FirstOffice!People!Contact,
     FirstOffice!People!NoPaper, FirstOffice!People!Idle, FirstOffice!People!GstTypes,
     FirstOffice!People!Update, FirstOffice!People!Remove, FirstOffice!People!Kinds,
     FirstOffice!People!Write, FirstOffice!People!WriteParty, FirstOffice!People!WriteSupplier,
     FirstOffice!People!CountLinked, FirstOffice!People!MarkDeleted,
     FirstOffice!People!CommitPaper, FirstOffice!People!RemoveCost, FirstOffice!People!TypeOK,
     FirstOffice!People!PapersCount, FirstOffice!People!Going,
     FirstOffice!People!CountedPapersCrossed, FirstOffice!People!OnlyCrossingPapersAreLeft,
     FirstOffice!People!FindOne, FirstOffice!People!Counted, FirstOffice!People!UsesGstin,
     FirstOffice!People!Done, FirstOffice!People!Crosses, FirstOffice!People!Row,
     FirstOffice!People!JobRow

LEMMA PeopleKeeps ==
  ASSUME part = "contacts"
  PROVE  /\ PapersInit => People!IInv
         /\ People!IInv /\ [PapersNext]_vars => People!IInv'
<1>1. FirstOffice!People!ContactsAssumption
  BY PeopleSame, ContactsAssumption
<1>2. PapersInit => People!IInv
  BY <1>1, PeopleSame, PartsAssumption, NobodySignsIn, FirstOffice!PeopleInitInv DEF PapersInit
<1>3. QED
  BY <1>1, <1>2, PapersSteps, PeopleSame, PartsAssumption, NobodySignsIn,
     FirstOffice!PeopleStepInv

ContactsKept ==
  /\ part = "contacts" => People!IInv

LEMMA ContactsKeptAlways ==
  /\ PapersInit => ContactsKept
  /\ ContactsKept /\ [PapersNext]_vars => ContactsKept'
BY PapersSteps, PeopleKeeps DEF ContactsKept

\* The suite's OnlyCrossingPapersAreLeft: the papers about a removed contact come from requests
\* that crossed its removal.
THEOREM OnlyCrossingPapers == PapersSpec => []OnlyCrossingPapersAreLeft
<1>1. PapersInit => ContactsKept
  BY ContactsKeptAlways
<1>2. ContactsKept /\ [PapersNext]_vars => ContactsKept'
  BY ContactsKeptAlways
<1>3. ContactsKept => OnlyCrossingPapersAreLeft
  BY DEF ContactsKept, OnlyCrossingPapersAreLeft
<1>4. QED
  BY <1>1, <1>2, <1>3, PTL DEF PapersSpec

-----------------------------------------------------------------------------
(* Numbers: the instance Series of OfficeProofs.                           *)

LEMMA SeriesSame ==
  /\ Series!NumberingAssumption => FirstOffice!Series!NumberingAssumption
  /\ Series!Init => FirstOffice!Series!Init
  /\ [Series!Next]_(Series!vars) => [FirstOffice!Series!Next]_(FirstOffice!Series!vars)
  /\ (Series!IInv <=> FirstOffice!Series!IInv) /\ (Series!IInv' <=> FirstOffice!Series!IInv')
  /\ FirstOffice!Series!NextNumberIsFree => Series!NextNumberIsFree
BY Zenon DEF
     Series!Init, Series!Next, Series!vars, Series!IInv, Series!NumberingAssumption,
     Series!NextNumberIsFree, Series!NoRow, Series!Automatic, Series!Year, Series!ByHand,
     Series!Renumber, Series!Redate, Series!Remove, Series!Insert, Series!Offer, Series!TryAgain,
     Series!TypeOK, Series!NumbersAreGiven, Series!CountsReachNumbers, Series!NextSequence,
     Series!Used, Series!Inserted, Series!Fits, Series!Peers, Series!Numbered, Series!In,
     Series!Highest, Series!Sequences, Series!AfterLatest, Series!Cardinality,
     Series!IsFiniteSet, FirstOffice!Series!Init, FirstOffice!Series!Next,
     FirstOffice!Series!vars, FirstOffice!Series!IInv, FirstOffice!Series!NumberingAssumption,
     FirstOffice!Series!NextNumberIsFree, FirstOffice!Series!NoRow, FirstOffice!Series!Automatic,
     FirstOffice!Series!Year, FirstOffice!Series!ByHand, FirstOffice!Series!Renumber,
     FirstOffice!Series!Redate, FirstOffice!Series!Remove, FirstOffice!Series!Insert,
     FirstOffice!Series!Offer, FirstOffice!Series!TryAgain, FirstOffice!Series!TypeOK,
     FirstOffice!Series!NumbersAreGiven, FirstOffice!Series!CountsReachNumbers,
     FirstOffice!Series!NextSequence, FirstOffice!Series!Used, FirstOffice!Series!Inserted,
     FirstOffice!Series!Fits, FirstOffice!Series!Peers, FirstOffice!Series!Numbered,
     FirstOffice!Series!In, FirstOffice!Series!Highest, FirstOffice!Series!Sequences,
     FirstOffice!Series!AfterLatest, FirstOffice!Series!Cardinality,
     FirstOffice!Series!IsFiniteSet

LEMMA SeriesKeeps ==
  ASSUME part = "series"
  PROVE  /\ PapersInit => Series!IInv
         /\ Series!IInv /\ [PapersNext]_vars => Series!IInv'
<1>1. FirstOffice!Series!NumberingAssumption
  BY SeriesSame, RegistersAssumption
<1>2. PapersInit => Series!IInv
  BY <1>1, SeriesSame, PartsAssumption, NobodySignsIn, FirstOffice!SeriesInitInv DEF PapersInit
<1>3. QED
  BY <1>1, <1>2, PapersSteps, SeriesSame, PartsAssumption, NobodySignsIn,
     FirstOffice!SeriesStepInv

LEMMA PartyCodesSame ==
  /\ PartyCodes!NumberingAssumption => NextOffice!Series!NumberingAssumption
  /\ PartyCodes!Init => NextOffice!Series!Init
  /\ [PartyCodes!Next]_(PartyCodes!vars) => [NextOffice!Series!Next]_(NextOffice!Series!vars)
  /\ (PartyCodes!IInv <=> NextOffice!Series!IInv) /\ (PartyCodes!IInv' <=> NextOffice!Series!IInv')
  /\ NextOffice!Series!NextNumberIsFree => PartyCodes!NextNumberIsFree
BY Zenon DEF
     PartyCodes!Init, PartyCodes!Next, PartyCodes!vars, PartyCodes!IInv,
     PartyCodes!NumberingAssumption, PartyCodes!NextNumberIsFree, PartyCodes!NoRow,
     PartyCodes!Automatic, PartyCodes!Year, PartyCodes!ByHand, PartyCodes!Renumber,
     PartyCodes!Redate, PartyCodes!Remove, PartyCodes!Insert, PartyCodes!Offer,
     PartyCodes!TryAgain, PartyCodes!TypeOK, PartyCodes!NumbersAreGiven,
     PartyCodes!CountsReachNumbers, PartyCodes!NextSequence, PartyCodes!Used,
     PartyCodes!Inserted, PartyCodes!Fits, PartyCodes!Peers, PartyCodes!Numbered, PartyCodes!In,
     PartyCodes!Highest, PartyCodes!Sequences, PartyCodes!AfterLatest, PartyCodes!Cardinality,
     PartyCodes!IsFiniteSet, NextOffice!Series!Init, NextOffice!Series!Next,
     NextOffice!Series!vars, NextOffice!Series!IInv, NextOffice!Series!NumberingAssumption,
     NextOffice!Series!NextNumberIsFree, NextOffice!Series!NoRow, NextOffice!Series!Automatic,
     NextOffice!Series!Year, NextOffice!Series!ByHand, NextOffice!Series!Renumber,
     NextOffice!Series!Redate, NextOffice!Series!Remove, NextOffice!Series!Insert,
     NextOffice!Series!Offer, NextOffice!Series!TryAgain, NextOffice!Series!TypeOK,
     NextOffice!Series!NumbersAreGiven, NextOffice!Series!CountsReachNumbers,
     NextOffice!Series!NextSequence, NextOffice!Series!Used, NextOffice!Series!Inserted,
     NextOffice!Series!Fits, NextOffice!Series!Peers, NextOffice!Series!Numbered,
     NextOffice!Series!In, NextOffice!Series!Highest, NextOffice!Series!Sequences,
     NextOffice!Series!AfterLatest, NextOffice!Series!Cardinality, NextOffice!Series!IsFiniteSet

LEMMA PartyCodesKeeps ==
  ASSUME part = "codes"
  PROVE  /\ PapersInit => PartyCodes!IInv
         /\ PartyCodes!IInv /\ [PapersNext]_vars => PartyCodes!IInv'
<1>1. NextOffice!Series!NumberingAssumption
  BY PartyCodesSame, RegistersAssumption
<1>2. PapersInit => PartyCodes!IInv
  BY <1>1, PartyCodesSame, PartsAssumption, NobodySignsIn, NextOffice!SeriesInitInv DEF
     PapersInit
<1>3. QED
  BY <1>1, <1>2, PapersSteps, PartyCodesSame, PartsAssumption, NobodySignsIn,
     NextOffice!SeriesStepInv

NumbersKept ==
  /\ part = "series" => Series!IInv
  /\ part = "codes" => PartyCodes!IInv

LEMMA NumbersKeptAlways ==
  /\ PapersInit => NumbersKept
  /\ NumbersKept /\ [PapersNext]_vars => NumbersKept'
BY PapersSteps, SeriesKeeps, PartyCodesKeeps DEF NumbersKept

\* The suite's NextNumberIsFree: the number a register offers or gives next is not in use.
THEOREM NumbersStayFree == PapersSpec => []NextNumberIsFree
<1>1. PapersInit => NumbersKept
  BY NumbersKeptAlways
<1>2. NumbersKept /\ [PapersNext]_vars => NumbersKept'
  BY NumbersKeptAlways
<1>3. Series!IInv => Series!NextNumberIsFree
  <2>1. FirstOffice!Series!NumberingAssumption
    BY SeriesSame, RegistersAssumption
  <2>2. FirstOffice!Series!IInv => FirstOffice!Series!NextNumberIsFree
    BY <2>1, NobodySignsIn, FirstOffice!NextIsFree DEF Nobody,
       FirstOffice!Series!NextNumberIsFree
  <2>3. QED
    BY <2>2, SeriesSame
<1>4. PartyCodes!IInv => PartyCodes!NextNumberIsFree
  <2>1. NextOffice!Series!NumberingAssumption
    BY PartyCodesSame, RegistersAssumption
  <2>2. NextOffice!Series!IInv => NextOffice!Series!NextNumberIsFree
    BY <2>1, NobodySignsIn, NextOffice!NextIsFree DEF NextOffice!Series!NextNumberIsFree
  <2>3. QED
    BY <2>2, PartyCodesSame
<1>5. NumbersKept => NextNumberIsFree
  BY <1>3, <1>4 DEF NumbersKept, NextNumberIsFree
<1>6. QED
  BY <1>1, <1>2, <1>5, PTL DEF PapersSpec

-----------------------------------------------------------------------------
(* Purchase orders: the instance Buying of OfficeProofs.                   *)

LEMMA BuyingSame ==
  /\ Buying!PurchaseOrdersAssumption => FirstOffice!Buying!PurchaseOrdersAssumption
  /\ Buying!Init => FirstOffice!Buying!Init
  /\ [Buying!Next]_(Buying!vars) => [FirstOffice!Buying!Next]_(FirstOffice!Buying!vars)
  /\ (Buying!IInv <=> FirstOffice!Buying!IInv) /\ (Buying!IInv' <=> FirstOffice!Buying!IInv')
BY Zenon DEF
     Buying!Init, Buying!Next, Buying!vars, Buying!IInv, Buying!PurchaseOrdersAssumption,
     Buying!NoOrder, Buying!NoJob, Buying!Commit, Buying!Rollback, Buying!Statuses,
     Buying!Create, Buying!ConvertToBill, Buying!UpdateStatus, Buying!Update, Buying!Remove,
     Buying!AddAttachments, Buying!RemoveAttachment, Buying!TypeOK, Buying!RowsAreWhole,
     Buying!Planned, Buying!BilledOrderIsKept, Buying!Nothing, Buying!End, Buying!Exists,
     Buying!Patched, Buying!Check, Buying!One, Buying!OpenOrder, Buying!Deleted,
     Buying!LockedPlan, Buying!StatusPlan, Buying!FilesPlan, Buying!Released, Buying!CanLock,
     Buying!CreatePlan, Buying!UpdatePlan, Buying!RemovePlan, Buying!ConvertPlan, Buying!Plan,
     Buying!Unbilled, FirstOffice!Buying!Init, FirstOffice!Buying!Next, FirstOffice!Buying!vars,
     FirstOffice!Buying!IInv, FirstOffice!Buying!PurchaseOrdersAssumption,
     FirstOffice!Buying!NoOrder, FirstOffice!Buying!NoJob, FirstOffice!Buying!Commit,
     FirstOffice!Buying!Rollback, FirstOffice!Buying!Statuses, FirstOffice!Buying!Create,
     FirstOffice!Buying!ConvertToBill, FirstOffice!Buying!UpdateStatus,
     FirstOffice!Buying!Update, FirstOffice!Buying!Remove, FirstOffice!Buying!AddAttachments,
     FirstOffice!Buying!RemoveAttachment, FirstOffice!Buying!TypeOK,
     FirstOffice!Buying!RowsAreWhole, FirstOffice!Buying!Planned,
     FirstOffice!Buying!BilledOrderIsKept, FirstOffice!Buying!Nothing, FirstOffice!Buying!End,
     FirstOffice!Buying!Exists, FirstOffice!Buying!Patched, FirstOffice!Buying!Check,
     FirstOffice!Buying!One, FirstOffice!Buying!OpenOrder, FirstOffice!Buying!Deleted,
     FirstOffice!Buying!LockedPlan, FirstOffice!Buying!StatusPlan, FirstOffice!Buying!FilesPlan,
     FirstOffice!Buying!Released, FirstOffice!Buying!CanLock, FirstOffice!Buying!CreatePlan,
     FirstOffice!Buying!UpdatePlan, FirstOffice!Buying!RemovePlan,
     FirstOffice!Buying!ConvertPlan, FirstOffice!Buying!Plan, FirstOffice!Buying!Unbilled

LEMMA BuyingKeeps ==
  ASSUME part = "orders"
  PROVE  /\ PapersInit => Buying!IInv
         /\ Buying!IInv /\ [PapersNext]_vars => Buying!IInv'
<1>1. FirstOffice!Buying!PurchaseOrdersAssumption
  BY BuyingSame, PurchasesAssumption
<1>2. PapersInit => Buying!IInv
  BY <1>1, BuyingSame, PartsAssumption, NobodySignsIn, FirstOffice!BuyingInitInv DEF PapersInit
<1>3. QED
  BY <1>1, <1>2, PapersSteps, BuyingSame, PartsAssumption, NobodySignsIn,
     FirstOffice!BuyingStepInv

LEMMA AttachingSame ==
  /\ Attaching!PurchaseOrdersAssumption => OwnOffice!Buying!PurchaseOrdersAssumption
  /\ Attaching!Init => OwnOffice!Buying!Init
  /\ [Attaching!Next]_(Attaching!vars) => [OwnOffice!Buying!Next]_(OwnOffice!Buying!vars)
  /\ (Attaching!IInv <=> OwnOffice!Buying!IInv) /\ (Attaching!IInv' <=> OwnOffice!Buying!IInv')
  /\ (Attaching!AloneInv <=> OwnOffice!Buying!AloneInv) /\ (Attaching!AloneInv' <=> OwnOffice!Buying!AloneInv')
  /\ OwnOffice!Buying!ClosedStayClosedStep => Attaching!ClosedStayClosedStep
BY Zenon DEF
     Attaching!Init, Attaching!Next, Attaching!vars, Attaching!IInv, Attaching!AloneInv,
     Attaching!PurchaseOrdersAssumption, Attaching!ClosedStayClosedStep, Attaching!NoOrder,
     Attaching!NoJob, Attaching!Commit, Attaching!Rollback, Attaching!Statuses, Attaching!Create,
     Attaching!ConvertToBill, Attaching!UpdateStatus, Attaching!Update, Attaching!Remove,
     Attaching!AddAttachments, Attaching!RemoveAttachment, Attaching!TypeOK,
     Attaching!RowsAreWhole, Attaching!Planned, Attaching!BilledOrderIsKept,
     Attaching!ConvertedStayReceived, Attaching!FilesWithinLimit, Attaching!PlansAreCurrent,
     Attaching!Nothing, Attaching!End, Attaching!Exists, Attaching!Patched, Attaching!Check,
     Attaching!One, Attaching!OpenOrder, Attaching!Deleted, Attaching!LockedPlan,
     Attaching!StatusPlan, Attaching!FilesPlan, Attaching!Released, Attaching!CanLock,
     Attaching!CreatePlan, Attaching!UpdatePlan, Attaching!RemovePlan, Attaching!ConvertPlan,
     Attaching!Plan, Attaching!Unbilled, OwnOffice!Buying!Init, OwnOffice!Buying!Next,
     OwnOffice!Buying!vars, OwnOffice!Buying!IInv, OwnOffice!Buying!AloneInv,
     OwnOffice!Buying!PurchaseOrdersAssumption, OwnOffice!Buying!ClosedStayClosedStep,
     OwnOffice!Buying!NoOrder, OwnOffice!Buying!NoJob, OwnOffice!Buying!Commit,
     OwnOffice!Buying!Rollback, OwnOffice!Buying!Statuses, OwnOffice!Buying!Create,
     OwnOffice!Buying!ConvertToBill, OwnOffice!Buying!UpdateStatus, OwnOffice!Buying!Update,
     OwnOffice!Buying!Remove, OwnOffice!Buying!AddAttachments, OwnOffice!Buying!RemoveAttachment,
     OwnOffice!Buying!TypeOK, OwnOffice!Buying!RowsAreWhole, OwnOffice!Buying!Planned,
     OwnOffice!Buying!BilledOrderIsKept, OwnOffice!Buying!ConvertedStayReceived,
     OwnOffice!Buying!FilesWithinLimit, OwnOffice!Buying!PlansAreCurrent,
     OwnOffice!Buying!Nothing, OwnOffice!Buying!End, OwnOffice!Buying!Exists,
     OwnOffice!Buying!Patched, OwnOffice!Buying!Check, OwnOffice!Buying!One,
     OwnOffice!Buying!OpenOrder, OwnOffice!Buying!Deleted, OwnOffice!Buying!LockedPlan,
     OwnOffice!Buying!StatusPlan, OwnOffice!Buying!FilesPlan, OwnOffice!Buying!Released,
     OwnOffice!Buying!CanLock, OwnOffice!Buying!CreatePlan, OwnOffice!Buying!UpdatePlan,
     OwnOffice!Buying!RemovePlan, OwnOffice!Buying!ConvertPlan, OwnOffice!Buying!Plan,
     OwnOffice!Buying!Unbilled

LEMMA AttachingKeeps ==
  ASSUME part = "files"
  PROVE  /\ PapersInit => Attaching!IInv /\ Attaching!AloneInv
         /\ Attaching!IInv /\ Attaching!AloneInv /\ [PapersNext]_vars => Attaching!IInv' /\ Attaching!AloneInv'
<1>1. OwnOffice!Buying!PurchaseOrdersAssumption
  BY AttachingSame, PurchasesAssumption
<1>2. PapersInit => Attaching!IInv /\ Attaching!AloneInv
  BY <1>1, AttachingSame, PartsAssumption, NobodySignsIn, OwnOffice!BuyingInitInv,
     OwnOffice!BuyingAloneInit DEF PapersInit
<1>3. QED
  BY <1>1, <1>2, PapersSteps, AttachingSame, PartsAssumption, NobodySignsIn,
     OwnOffice!BuyingStepInv, OwnOffice!BuyingAloneStep

OrdersKept ==
  /\ part = "orders" => Buying!IInv
  /\ part = "files" => Attaching!IInv /\ Attaching!AloneInv

LEMMA OrdersKeptAlways ==
  /\ PapersInit => OrdersKept
  /\ OrdersKept /\ [PapersNext]_vars => OrdersKept'
BY PapersSteps, BuyingKeeps, AttachingKeeps DEF OrdersKept

\* The suite's OrdersAreKept: an order whose bill stands is kept; while nobody else changes it,
\* it is not opened again once it is closed, and has no more files than allowed.
THEOREM OrdersStayKept == PapersSpec => OrdersAreKept
<1> DEFINE Closed == part = "files" => Attaching!ClosedStayClosedStep
<1>1. PapersInit => OrdersKept
  BY OrdersKeptAlways
<1>2. OrdersKept /\ [PapersNext]_vars => OrdersKept'
  BY OrdersKeptAlways
<1>3. OrdersKept /\ [PapersNext]_vars => Closed
  <2>1. SUFFICES ASSUME Attaching!IInv, Attaching!AloneInv, [Attaching!Next]_(Attaching!vars)
                 PROVE  Attaching!ClosedStayClosedStep
    BY PapersSteps DEF OrdersKept
  <2>2. OwnOffice!Buying!IInv /\ OwnOffice!Buying!AloneInv /\ [OwnOffice!Buying!Next]_(OwnOffice!Buying!vars)
    BY <2>1, AttachingSame
  <2>3. OwnOffice!Buying!PurchaseOrdersAssumption
    BY AttachingSame, PurchasesAssumption
  <2>4. OwnOffice!Buying!ClosedStayClosedStep
    BY <2>2, <2>3, PartsAssumption, NobodySignsIn, OwnOffice!BuyingAloneStep
  <2>5. QED
    BY <2>4, AttachingSame
<1>4. OrdersKept => /\ part = "orders" => Buying!IInv
                    /\ part = "files" => Attaching!IInv /\ Attaching!AloneInv
  BY DEF OrdersKept
<1>5. QED
  BY <1>1, <1>2, <1>3, <1>4, PTL DEF PapersSpec, OrdersAreKept

=============================================================================
