------------------------------ MODULE MCPeople ------------------------------
(* Members, branches, companies, preferences and one-time codes: instances  *)
(* of components that share no rows, as parts of one suite (Parts).         *)
EXTENDS Parts, Integers, TLC
CONSTANTS main, side

others == <<lock, e, f>>
WorkspaceOps == {"workspace", "create", "archive"}
GstinOps == {"workspace", "create", "update", "archive"}
SharingOps == {"workspace", "create", "archive", "branches"}
ThreeFields ==
  {<<"general", "quantityDecimals">>, <<"general", "tinNumber">>, <<"printRegular", "paperSize">>}
Paper == {"a4", "a5", "a3"}

\* One administrator removes members of three companies.
Members == INSTANCE Team WITH member <- a, session <- b,
  Admins <- {q1}, Companies <- {x1, x2, x3}, Sessions <- {y1, y2}
\* One administrator moves and removes branches.
Tree == INSTANCE BranchTree WITH branch <- a, papers <- b,
  Admins <- {q1}, Clients <- Nobody, Branches <- {z1, x1, x2, x3}, Main <- z1
\* Two administrators remove a branch that a client records in.
Offices == INSTANCE BranchTree WITH branch <- a, papers <- b,
  Admins <- Requests, Clients <- {z2}, Branches <- {z1, x1}, Main <- z1
\* Workspace branches are removed while companies are created in them.
Workspace == INSTANCE Companies WITH
  workspace <- a, company <- b, member <- c, branch <- d,
  Users <- {z1, z2}, SuperAdmins <- {z2}, Workspaces <- {x1, x2}, Codes <- {main},
  Gstins <- Nobody, CompanyIds <- {y1, y2}, Legacy <- Nobody, MainCode <- main,
  Ops <- WorkspaceOps
\* Two companies, one of before workspaces, choose among two GSTINs.
Taxpayers == INSTANCE Companies WITH
  workspace <- a, company <- b, member <- c, branch <- d,
  Users <- {z1}, SuperAdmins <- Nobody, Workspaces <- {z2}, Codes <- {main},
  Gstins <- {x1, x2}, CompanyIds <- {z1, z2}, Legacy <- {z2}, MainCode <- main, Ops <- GstinOps
\* Companies of two workspace branches and two of before share customers and items.
Sharing == INSTANCE Companies WITH Requests <- {q1},
  workspace <- a, company <- b, member <- c, branch <- d,
  Users <- {z1}, SuperAdmins <- Nobody, Workspaces <- {z1, z2}, Codes <- {main},
  Gstins <- Nobody, CompanyIds <- {y1, y2, x1, x2}, Legacy <- {x1, x2}, MainCode <- main,
  Ops <- SharingOps
\* The same within one workspace branch, between branches of two codes.
Outlets == INSTANCE Companies WITH Requests <- {q1},
  workspace <- a, company <- b, member <- c, branch <- d,
  Users <- {z1}, SuperAdmins <- Nobody, Workspaces <- {z1}, Codes <- {main, side},
  Gstins <- Nobody, CompanyIds <- {y1, y2, x1, x2}, Legacy <- {x1, x2}, MainCode <- main,
  Ops <- SharingOps
\* Two saves of three fields over a column that may hold anything.
Settings == INSTANCE Preferences WITH stored <- a,
  Fields <- ThreeFields, Numbers <- {0, 9}, Lengths <- Nobody, Words <- Paper
\* Secrets of up to five bytes, one whole turn of the eight characters; periods of three
\* seconds and clocks off by as much.
OneTime == INSTANCE Totp WITH secret <- a, now <- b, clock <- c,
  Bytes <- {0, 1, 90, 255}, Length <- 5, Period <- 3, Window <- 1, Skew <- 3, Horizon <- 9

ASSUME MembersAssumption == Members!TeamAssumption
ASSUME BranchesAssumption == Tree!BranchTreeAssumption /\ Offices!BranchTreeAssumption
ASSUME WorkspacesAssumption ==
  /\ Workspace!CompaniesAssumption /\ Taxpayers!CompaniesAssumption
  /\ Sharing!CompaniesAssumption /\ Outlets!CompaniesAssumption
ASSUME SettingsAssumption == Settings!PreferencesAssumption

NoMasters == c = Off /\ d = Off

PeopleInit ==
  /\ lock = Off /\ e = Off /\ f = Off
  /\ \/ part = "members" /\ Members!Init /\ NoMasters
     \/ part = "tree" /\ Tree!Init /\ NoMasters
     \/ part = "offices" /\ Offices!Init /\ NoMasters
     \/ part = "workspace" /\ Workspace!Init
     \/ part = "taxpayers" /\ Taxpayers!Init
     \/ part = "sharing" /\ Sharing!Init
     \/ part = "outlets" /\ Outlets!Init
     \/ part = "settings" /\ Settings!Init /\ b = Off /\ NoMasters
     \/ part = "codes" /\ OneTime!Init /\ pc = Off /\ job = Off /\ d = Off

MembersStep == part = "members" /\ Members!Next /\ UNCHANGED <<part, c, d, others>>
TreeStep == part = "tree" /\ Tree!Next /\ UNCHANGED <<part, c, d, others>>
OfficesStep == part = "offices" /\ Offices!Next /\ UNCHANGED <<part, c, d, others>>
WorkspaceStep == part = "workspace" /\ Workspace!Next /\ UNCHANGED <<part, others>>
TaxpayersStep == part = "taxpayers" /\ Taxpayers!Next /\ UNCHANGED <<part, others>>
SharingStep == part = "sharing" /\ Sharing!Next /\ UNCHANGED <<part, others>>
OutletsStep == part = "outlets" /\ Outlets!Next /\ UNCHANGED <<part, others>>
SettingsStep == part = "settings" /\ Settings!Next /\ UNCHANGED <<part, b, c, d, others>>
OneTimeStep == part = "codes" /\ OneTime!Next /\ UNCHANGED <<part, pc, job, d, others>>

\* Nobody looks at the clock after its last period.
LastPeriod == part = "codes" /\ b = 9 /\ UNCHANGED vars

PeopleNext ==
  \/ MembersStep \/ TreeStep \/ OfficesStep
  \/ WorkspaceStep \/ TaxpayersStep \/ SharingStep \/ OutletsStep
  \/ SettingsStep \/ OneTimeStep \/ LastPeriod

PeopleSpec == PeopleInit /\ [][PeopleNext]_vars

-----------------------------------------------------------------------------
\* The removal from the last company signs a member out (Team).
RemovalSignsOut ==
  /\ [](part = "members" => Members!IInv)
  /\ [][part = "members" => Members!RemovalSignsOutStep]_vars

\* While one administrator works at a time, parents form no cycle and one branch is active;
\* a branch with records stays however many administrators there are (BranchTree).
BranchesHoldTogether ==
  /\ part = "tree" => Tree!IInv /\ Tree!AloneInv
  /\ part = "offices" => Offices!IInv

\* Companies share customers and items mutually and within their workspace branch, no two
\* have one GSTIN, and their workspace branches exist (Companies).
MastersIsolated ==
  /\ part = "sharing" => Sharing!MastersIsolated
  /\ part = "outlets" => Outlets!MastersIsolated
  /\ part = "taxpayers" => Taxpayers!IInv
  /\ part = "workspace" => Workspace!IInv

\* A save keeps what it did not send, and whatever the column holds only valid values are
\* read from it (Preferences).
SavesKeepTheRest ==
  /\ [][part = "settings" => Settings!SavesKeepTheRestStep]_vars
  /\ [](part = "settings" => Settings!ReadsAreValid)

\* Secrets read back as the bytes drawn, and a code is accepted as long as it is shown (Totp).
CodesAreAccepted == part = "codes" => OneTime!SecretReadsBack /\ OneTime!CodeAcceptedWhileShown

PeopleSymmetry ==
  Permutations(Requests) \cup Permutations({x1, x2, x3}) \cup Permutations({y1, y2})
=============================================================================
