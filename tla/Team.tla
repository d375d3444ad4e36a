-------------------------------- MODULE Team --------------------------------
(***************************************************************************)
(* One team member's places in several companies, and the session that is  *)
(* signed out with the last of them (users.service.ts).                    *)
(*                                                                         *)
(* Administrators of different companies change the member at the same     *)
(* time.  Only remove() is a transaction; it takes no lock but the row it  *)
(* deletes, and counts the other rows as they are committed.               *)
(* Abstracted: the member's role (staff or accountant), names, audit.      *)
(***************************************************************************)
EXTENDS Naturals, FiniteSets

CONSTANTS
  Admins,     \* requests of administrators
  Companies,
  Sessions,   \* ids of the sessions that may be opened
  NoOne

\* Assumed of the constants.
TeamAssumption == NoOne \notin Companies

VARIABLES
  member,     \* member[c]: "none", "active" or "inactive" (unique index)
  session,    \* session[s]: "none", "open" or "revoked"
  pc, job     \* the stage of each request; the company it works on and what it read

vars == <<member, session, pc, job>>

NoJob == [company |-> NoOne, elsewhere |-> FALSE, open |-> {}]
Opened == {s \in Sessions : session[s] = "open"}
Active == {c \in Companies : member[c] = "active"}

Goto(q, stage, j) == pc' = [pc EXCEPT ![q] = stage] /\ job' = [job EXCEPT ![q] = j]
End(q) == Goto(q, "idle", NoJob)

\* The row of c waits for the commit of a removal.
CanWrite(c) == \A r \in Admins : pc[r] = "removing" => job[r].company # c

\* create() of an email that is known: the place is made, or made active again.
Create(c) ==
  /\ CanWrite(c)
  /\ member' = [member EXCEPT ![c] = "active"]
  /\ UNCHANGED <<session, pc, job>>

\* deactivate() and activate(), and the read of teamMember() before remove().
TeamMember(q, stage, c) ==
  /\ pc[q] = "idle" /\ member[c] # "none"
  /\ Goto(q, stage, [NoJob EXCEPT !.company = c])
  /\ UNCHANGED <<member, session>>

\* The update of a row that was deleted meanwhile is refused.
SetActive(q, stage, value) ==
  LET c == job[q].company IN
  /\ pc[q] = stage /\ CanWrite(c) /\ End(q) /\ UNCHANGED session
  /\ member' = IF member[c] = "none" THEN member ELSE [member EXCEPT ![c] = value]

\* A faulty Remove: the count comes before the row is deleted.
FaultyRemove(q) ==
  LET c == job[q].company IN
  /\ pc[q] = "remove" /\ CanWrite(c)
  /\ IF member[c] = "none" THEN End(q)
     ELSE Goto(q, "removing", [company |-> c, elsewhere |-> Active # {}, open |-> Opened])
  /\ UNCHANGED <<member, session>>

\* remove() deletes the row, not yet committed, and counts the active ones left.
Remove(q) ==
  LET c == job[q].company IN
  /\ pc[q] = "remove" /\ CanWrite(c)
  /\ IF member[c] = "none" THEN End(q)
     ELSE Goto(q, "removing", [company |-> c, elsewhere |-> Active \ {c} # {}, open |-> Opened])
  /\ UNCHANGED <<member, session>>

\* The commit: with no company left the sessions found open are revoked.
RemoveCommit(q) ==
  /\ pc[q] = "removing" /\ End(q)
  /\ member' = [member EXCEPT ![job[q].company] = "none"]
  /\ session' = [s \in Sessions |->
       IF ~job[q].elsewhere /\ s \in job[q].open THEN "revoked" ELSE session[s]]

\* auth.service.ts login() of the member, which asks for no company.
Login(s) ==
  /\ session[s] = "none" /\ session' = [session EXCEPT ![s] = "open"]
  /\ UNCHANGED <<member, pc, job>>

Init ==
  /\ member = [c \in Companies |-> "none"]
  /\ session = [s \in Sessions |-> "none"]
  /\ pc = [q \in Admins |-> "idle"]
  /\ job = [q \in Admins |-> NoJob]

Next ==
  \/ \E c \in Companies : Create(c)
  \/ \E q \in Admins :
       \/ \E c \in Companies, stage \in {"activate", "deactivate", "remove"} :
            TeamMember(q, stage, c)
       \/ SetActive(q, "activate", "active") \/ SetActive(q, "deactivate", "inactive")
       \/ Remove(q) \/ RemoveCommit(q)
  \/ \E s \in Sessions : Login(s)

Spec == Init /\ [][Next]_vars

-----------------------------------------------------------------------------
(* Properties                                                               *)

TypeOK ==
  /\ member \in [Companies -> {"none", "active", "inactive"}]
  /\ session \in [Sessions -> {"none", "open", "revoked"}]
  /\ pc \in [Admins -> {"idle", "activate", "deactivate", "remove", "removing"}]
  /\ job \in [Admins -> [company : Companies \cup {NoOne}, elsewhere : BOOLEAN, open : SUBSET Sessions]]

\* A member who was in another company when one administrator removed them still is when
\* that removal commits.
IInv ==
  /\ TypeOK
  /\ \A q \in Admins : pc[q] = "removing" /\ job[q].elsewhere => Active \ {job[q].company} # {}

\* "if they are in no other company, their open sessions are signed out": the
\* removal that leaves the member in no company revokes every session that was
\* open when it began.
RemovalSignsOutStep ==
  \A q \in Admins :
    pc[q] = "removing" /\ pc'[q] = "idle" /\ (\A c \in Companies : member'[c] = "none")
    => \A s \in job[q].open : session'[s] = "revoked"
RemovalSignsOut == [][RemovalSignsOutStep]_vars
=============================================================================
