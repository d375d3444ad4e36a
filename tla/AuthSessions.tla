---------------------------- MODULE AuthSessions ----------------------------
(***************************************************************************)
(* One user's login, sessions, password and second factor                  *)
(* (auth.service.ts).                                                      *)
(*                                                                         *)
(* No handler takes a lock: each reads the user or the session, computes   *)
(* (hashing takes a while), and writes; the writes of several requests     *)
(* interleave between these stages.  A write that lists its columns        *)
(* changes no other; the password, MFA and reset handlers write the user   *)
(* and revoke the sessions in one transaction.                             *)
(* Abstracted: what tokens, hashes and codes contain (a refresh token is   *)
(* its number in the session's chain, a password the number of its         *)
(* change), mail and audit, which write nothing read here.                 *)
(***************************************************************************)
EXTENDS Integers, FiniteSets

CONSTANTS
  Requests,     \* requests being served at the same time
  NoOne,
  Sessions,     \* ids of the sessions that may be opened
  Codes,        \* recovery codes given at enrolment
  MaxSessions,  \* MAX_ACTIVE_SESSIONS
  MaxFailed,    \* MAX_FAILED_LOGINS
  MaxTokens,    \* bound: pairs handed out in one session
  MaxChanges,   \* bound: password changes
  Ops           \* the handlers the clients call

ASSUME AuthAssumption ==
  /\ MaxSessions \in Nat \ {0} /\ MaxFailed \in Nat \ {0}
  /\ MaxTokens \in Nat \ {0} /\ MaxChanges \in Nat
  /\ IsFiniteSet(Sessions) /\ NoOne \notin Sessions

VARIABLES
  user,      \* the User row
  session,   \* session[s]: the AuthSession row
  newer,     \* newer[s]: the sessions used after s, by lastUsedAt
  pairs,     \* pairs[s]: history, pairs of tokens handed out
  settled,   \* history, the sessions that a login which made room has seen
  pc, job    \* the stage of each request and what it has read

vars == <<user, session, newer, pairs, settled, pc, job>>
rows == <<user, session, newer, pairs, settled>>

NewUser == [active |-> TRUE, failed |-> 0, locked |-> FALSE, password |-> 0, legacy |-> TRUE,
            changed |-> 0, secret |-> FALSE, mfa |-> FALSE, codes |-> {}, reset |-> "none"]
NoSession == [opened |-> FALSE, revoked |-> FALSE, expired |-> FALSE, token |-> 0, mfa |-> FALSE]
NothingRead == [failed |-> 0, password |-> 0, legacy |-> FALSE, mfa |-> FALSE, codes |-> {}]
NoJob == [user |-> NothingRead, session |-> NoOne, token |-> 0, excess |-> {}, seen |-> {}]

UserType ==
  [active : BOOLEAN, failed : 0 .. MaxFailed + 1, locked : BOOLEAN, password : 0 .. MaxChanges,
   legacy : BOOLEAN, changed : 0 .. MaxChanges, secret : BOOLEAN, mfa : BOOLEAN,
   codes : SUBSET Codes, reset : {"none", "sent", "expired"}]
SessionType ==
  [opened : BOOLEAN, revoked : BOOLEAN, expired : BOOLEAN, token : 0 .. MaxTokens, mfa : BOOLEAN]
ReadType ==
  [failed : 0 .. MaxFailed + 1, password : 0 .. MaxChanges, legacy : BOOLEAN, mfa : BOOLEAN,
   codes : SUBSET Codes]
JobType ==
  [user : ReadType, session : Sessions \cup {NoOne}, token : 0 .. MaxTokens,
   excess : SUBSET Sessions, seen : SUBSET Sessions]
Stages ==
  {"idle", "failed", "verified", "factor", "open", "opened", "trim", "rotate", "reuse",
   "setup", "enable", "factors", "disable", "change", "reset"}

Valid(s) == session[s].opened /\ ~session[s].revoked /\ ~session[s].expired
Opened == {s \in Sessions : session[s].opened}
Live == {s \in Sessions : Valid(s)}
Revoked(closed) ==
  [s \in Sessions |-> IF s \in closed /\ session[s].opened
                      THEN [session[s] EXCEPT !.revoked = TRUE] ELSE session[s]]

Goto(q, stage, j) == pc' = [pc EXCEPT ![q] = stage] /\ job' = [job EXCEPT ![q] = j]
End(q) == Goto(q, "idle", NoJob)
Start(q, op, stage, j) == op \in Ops /\ pc[q] = "idle" /\ Goto(q, stage, j)
\* The columns a handler uses after its next await.
ReadUser ==
  [NoJob EXCEPT !.user = [failed |-> user.failed, password |-> user.password,
                          legacy |-> user.legacy, mfa |-> user.mfa, codes |-> user.codes]]

-----------------------------------------------------------------------------
(* login()                                                                  *)

\* The user is read; the password typed is the one read, or not.
Login(q, right) ==
  /\ user.active /\ ~user.locked
  /\ IF right THEN Start(q, "login", "verified", ReadUser)
     ELSE Start(q, "login", "failed", [NoJob EXCEPT !.user.failed = user.failed])
  /\ UNCHANGED rows

\* One more than was read, and a lock at the limit (bounded just above it).
LoginFailed(q) ==
  LET failed == job[q].user.failed + 1 IN
  /\ pc[q] = "failed" /\ failed <= MaxFailed + 1
  /\ user' = [user EXCEPT !.failed = failed, !.locked = failed >= MaxFailed]
  /\ End(q) /\ UNCHANGED <<session, newer, pairs, settled>>

\* The counter is cleared; a hash of an older format is written anew.
LoginVerified(q) ==
  LET seen == job[q].user IN
  /\ pc[q] = "verified"
  /\ user' = [user EXCEPT !.failed = 0, !.locked = FALSE,
                          !.password = IF seen.legacy THEN seen.password ELSE @,
                          !.legacy = IF seen.legacy THEN FALSE ELSE @]
  /\ Goto(q, IF seen.mfa THEN "factor" ELSE "open",
          [NoJob EXCEPT !.user.mfa = seen.mfa, !.user.codes = seen.codes])
  /\ UNCHANGED <<session, newer, pairs, settled>>

\* verifySecondFactor(): a recovery code is taken off the list that was read.
UseCode(q, c) == c \in job[q].user.codes /\ user' = [user EXCEPT !.codes = job[q].user.codes \ {c}]

SecondFactor(q) ==
  /\ pc[q] = "factor"
  /\ \/ UNCHANGED user /\ (End(q) \/ Goto(q, "open", [job[q] EXCEPT !.user.codes = {}]))
     \/ \E c \in Codes : UseCode(q, c) /\ Goto(q, "open", [job[q] EXCEPT !.user.codes = {}])
  /\ UNCHANGED <<session, newer, pairs, settled>>

\* s becomes the session that was used last.
Touch(s) == newer' = [t \in Sessions |-> IF t = s THEN {} ELSE newer[t] \cup {s}]

\* createSession() inserts the row, ...
OpenSession(q, s) ==
  /\ pc[q] = "open" /\ ~session[s].opened
  /\ session' = [session EXCEPT ![s] =
       [opened |-> TRUE, revoked |-> FALSE, expired |-> FALSE, token |-> 1,
        mfa |-> job[q].user.mfa]]
  /\ Touch(s) /\ pairs' = [pairs EXCEPT ![s] = 1]
  /\ Goto(q, "opened", NoJob) /\ UNCHANGED <<user, settled>>

\* The live sessions but for the MaxSessions that were used last.
Excess == {s \in Live : Cardinality(newer[s] \cap Live) >= MaxSessions}

\* A faulty ReadExcess: an off-by-one in the page to skip.
FaultyReadExcess(q) ==
  /\ pc[q] = "opened"
  /\ Goto(q, "trim",
          [NoJob EXCEPT !.excess = {s \in Live : Cardinality(newer[s] \cap Live) > MaxSessions},
                        !.seen = Opened])
  /\ UNCHANGED rows

\* ... reads the live sessions beyond the most recently used ones, ...
ReadExcess(q) ==
  /\ pc[q] = "opened"
  /\ Goto(q, "trim", [NoJob EXCEPT !.excess = Excess, !.seen = Opened])
  /\ UNCHANGED rows

\* ... and revokes those.
RevokeExcess(q) ==
  /\ pc[q] = "trim" /\ session' = Revoked(job[q].excess)
  /\ settled' = settled \cup job[q].seen
  /\ End(q) /\ UNCHANGED <<user, newer, pairs>>

-----------------------------------------------------------------------------
(* Sessions                                                                 *)

\* refresh() reads the session; its token is the one presented, or an older one.
Refresh(q, s, token) ==
  /\ Valid(s) /\ user.active
  /\ Start(q, "refresh", IF token = session[s].token THEN "rotate" ELSE "reuse",
           [NoJob EXCEPT !.session = s, !.token = token])
  /\ UNCHANGED rows

\* A token that was exchanged before ends the session.
Reuse(q) ==
  /\ pc[q] = "reuse" /\ session' = Revoked({job[q].session})
  /\ End(q) /\ UNCHANGED <<user, newer, pairs, settled>>

Rotated(s, token) ==
  /\ session' = [session EXCEPT ![s].token = token + 1]
  /\ pairs' = [pairs EXCEPT ![s] = @ + 1]
  /\ Touch(s) /\ UNCHANGED settled

\* A faulty Rotate: the write does not ask for the token that was read.
FaultyRotate(q) ==
  LET s == job[q].session IN
  /\ pc[q] = "rotate" /\ End(q) /\ UNCHANGED user
  /\ IF ~session[s].revoked THEN Rotated(s, job[q].token)
     ELSE UNCHANGED <<session, newer, pairs, settled>>

\* The conditional write: of two requests with one token the second is refused.
Rotate(q) ==
  LET s == job[q].session IN
  /\ pc[q] = "rotate" /\ End(q) /\ UNCHANGED user
  /\ IF session[s].token = job[q].token /\ ~session[s].revoked THEN Rotated(s, job[q].token)
     ELSE UNCHANGED <<session, newer, pairs, settled>>

\* logout() and revokeSession().
Logout(s) ==
  /\ "logout" \in Ops /\ session[s].opened /\ ~session[s].revoked
  /\ session' = Revoked({s}) /\ UNCHANGED <<user, newer, pairs, settled, pc, job>>

\* revokeOtherSessions(), called from a live session.
RevokeOthers(s) ==
  /\ "logout" \in Ops /\ Valid(s) /\ user.active
  /\ session' = Revoked(Sessions \ {s}) /\ UNCHANGED <<user, newer, pairs, settled, pc, job>>

-----------------------------------------------------------------------------
(* Password and second factor; JwtStrategy has let the caller in            *)

SignedIn == Live # {} /\ user.active

\* A faulty RevokeAll: only a session that was live ends, the caller's.
FaultyRevokeAll == IF Live = {} THEN session ELSE Revoked({CHOOSE s \in Live : TRUE})

RevokeAll == Revoked(Sessions)

SetupMfa(q) ==
  /\ SignedIn /\ ~user.mfa /\ Start(q, "mfa", "setup", NoJob)
  /\ UNCHANGED rows
SetupMfaWrite(q) ==
  /\ pc[q] = "setup" /\ user' = [user EXCEPT !.secret = TRUE, !.codes = {}]
  /\ End(q) /\ UNCHANGED <<session, newer, pairs, settled>>

EnableMfa(q) ==
  /\ SignedIn /\ user.secret /\ ~user.mfa /\ Start(q, "mfa", "enable", NoJob)
  /\ UNCHANGED rows
EnableMfaWrite(q) ==
  /\ pc[q] = "enable" /\ user' = [user EXCEPT !.mfa = TRUE, !.codes = Codes]
  /\ session' = RevokeAll /\ End(q) /\ UNCHANGED <<newer, pairs, settled>>

\* A recovery code is used up even when the password is wrong.
DisableMfa(q) ==
  /\ SignedIn /\ user.mfa /\ user.secret /\ Start(q, "mfa", "factors", ReadUser)
  /\ UNCHANGED rows
DisableMfaCheck(q) ==
  /\ pc[q] = "factors" /\ (UNCHANGED user \/ \E c \in Codes : UseCode(q, c))
  /\ End(q) \/ Goto(q, "disable", NoJob)
  /\ UNCHANGED <<session, newer, pairs, settled>>
DisableMfaWrite(q) ==
  /\ pc[q] = "disable" /\ user' = [user EXCEPT !.mfa = FALSE, !.secret = FALSE, !.codes = {}]
  /\ session' = RevokeAll /\ End(q) /\ UNCHANGED <<newer, pairs, settled>>

NewPassword(u) == [u EXCEPT !.password = user.changed + 1, !.changed = @ + 1, !.legacy = FALSE]

ChangePassword(q) ==
  /\ SignedIn /\ Start(q, "password", "change", NoJob)
  /\ UNCHANGED rows
ChangePasswordWrite(q) ==
  /\ pc[q] = "change" /\ user.changed < MaxChanges /\ user' = NewPassword(user)
  /\ session' = RevokeAll /\ End(q) /\ UNCHANGED <<newer, pairs, settled>>

ForgotPassword ==
  /\ "reset" \in Ops /\ user.active /\ user' = [user EXCEPT !.reset = "sent"]
  /\ UNCHANGED <<session, newer, pairs, settled, pc, job>>
ResetExpires ==
  /\ "reset" \in Ops /\ user.reset = "sent" /\ user' = [user EXCEPT !.reset = "expired"]
  /\ UNCHANGED <<session, newer, pairs, settled, pc, job>>
ResetPassword(q) ==
  /\ user.active /\ user.reset = "sent" /\ Start(q, "reset", "reset", NoJob)
  /\ UNCHANGED rows
ResetPasswordWrite(q) ==
  /\ pc[q] = "reset" /\ user.changed < MaxChanges
  /\ user' = NewPassword([user EXCEPT !.reset = "none", !.failed = 0, !.locked = FALSE])
  /\ session' = RevokeAll /\ End(q) /\ UNCHANGED <<newer, pairs, settled>>

-----------------------------------------------------------------------------
(* Time and failures                                                        *)

Expire(s) ==
  /\ "expire" \in Ops /\ Valid(s) /\ session' = [session EXCEPT ![s].expired = TRUE]
  /\ UNCHANGED <<user, newer, pairs, settled, pc, job>>
Unlock ==
  /\ user.locked /\ user' = [user EXCEPT !.locked = FALSE]
  /\ UNCHANGED <<session, newer, pairs, settled, pc, job>>

\* The server stops, or the database refuses the next statement.
Stop(q) == pc[q] # "idle" /\ End(q) /\ UNCHANGED rows

-----------------------------------------------------------------------------
Init ==
  /\ user = NewUser
  /\ session = [s \in Sessions |-> NoSession]
  /\ newer = [s \in Sessions |-> {}]
  /\ pairs = [s \in Sessions |-> 0]
  /\ settled = {}
  /\ pc = [q \in Requests |-> "idle"]
  /\ job = [q \in Requests |-> NoJob]

LoginStep(q) ==
  \/ \E right \in BOOLEAN : Login(q, right)
  \/ LoginFailed(q) \/ LoginVerified(q) \/ SecondFactor(q)
  \/ \E s \in Sessions : OpenSession(q, s)
  \/ ReadExcess(q) \/ RevokeExcess(q)

RefreshStep(q) ==
  \/ \E s \in Sessions, token \in 1 .. MaxTokens - 1 :
       token <= session[s].token /\ Refresh(q, s, token)
  \/ Rotate(q) \/ Reuse(q)

AccountStep(q) ==
  \/ SetupMfa(q) \/ SetupMfaWrite(q) \/ EnableMfa(q) \/ EnableMfaWrite(q)
  \/ DisableMfa(q) \/ DisableMfaCheck(q) \/ DisableMfaWrite(q)
  \/ ChangePassword(q) \/ ChangePasswordWrite(q)
  \/ ResetPassword(q) \/ ResetPasswordWrite(q)

Next ==
  \/ \E q \in Requests : LoginStep(q) \/ RefreshStep(q) \/ AccountStep(q) \/ Stop(q)
  \/ \E s \in Sessions : Logout(s) \/ RevokeOthers(s) \/ Expire(s)
  \/ ForgotPassword \/ ResetExpires \/ Unlock

Spec == Init /\ [][Next]_vars

-----------------------------------------------------------------------------
(* Properties                                                               *)

\* Every row, every request and what it has read has its type.
TypeOK ==
  /\ user \in UserType
  /\ session \in [Sessions -> SessionType]
  /\ newer \in [Sessions -> SUBSET Sessions]
  /\ pairs \in [Sessions -> 0 .. MaxTokens]
  /\ settled \in SUBSET Sessions
  /\ pc \in [Requests -> Stages]
  /\ job \in [Requests -> JobType]

\* Every chain of token pairs behaves as SessionChain promises, whichever
\* requests race: no token is exchanged twice, no closed session gives another.
ChainStatus ==
  [s \in Sessions |-> IF ~session[s].opened THEN "none"
                      ELSE IF session[s].revoked THEN "closed" ELSE "open"]
ChainToken == [s \in Sessions |-> session[s].token]
Chain == INSTANCE SessionChain WITH status <- ChainStatus, token <- ChainToken
ChainSpec == Chain!Spec

\* However many devices sign in at once, and wherever a server stops: of the sessions
\* that were there when a login looked which has made room since, no more are
\* live than the limit.
SessionsWithinLimit == Cardinality(Live \cap settled) <= MaxSessions

\* The account is locked only after the allowed failures, and the counter that
\* a lock was taken for is still there when the lock is.
LockFollowsFailures ==
  user.locked => user.failed >= MaxFailed

\* Both promises about a user's logins.
LoginsAreBounded == SessionsWithinLimit /\ LockFollowsFailures

\* A new password, or a change of the second factor, leaves nobody signed in:
\* the sessions end in the same step.
ChangesSignOutStep ==
  user'.changed # user.changed \/ user'.mfa # user.mfa
    => \A s \in Sessions : session'[s].opened => session'[s].revoked
ChangesSignOut == [][ChangesSignOutStep]_vars

-----------------------------------------------------------------------------
(* The inductive invariant of AuthSessions: what a request that awaits a   *)
(* row or a hash still knows of the sessions others change meanwhile.      *)

\* A session has the pairs its token counts; one that was not opened has nothing.
ChainsHold ==
  \A s \in Sessions :
    /\ pairs[s] = session[s].token
    /\ session[s].opened <=> session[s].token > 0
    /\ session[s].revoked \/ session[s].expired => session[s].opened

\* The opened sessions are in one order of use.
UseIsAnOrder ==
  /\ \A s \in Opened : s \notin newer[s]
  /\ \A s, t \in Opened : s # t => (s \in newer[t] <=> t \notin newer[s])
  /\ \A s, t \in Opened : t \in newer[s] => newer[t] \subseteq newer[s]

\* A refresh holds an opened session, and a token that has a successor.
RefreshJob(q) ==
  pc[q] \in {"rotate", "reuse"} =>
    job[q].session \in Opened /\ job[q].token < MaxTokens

\* A login that is to make room has seen the sessions of its time; what it did not
\* pick of them is within the limit.
TrimJob(q) ==
  pc[q] = "trim" =>
    /\ job[q].seen \subseteq Opened
    /\ Cardinality((Live \cap job[q].seen) \ job[q].excess) <= MaxSessions
    /\ job[q].seen \subseteq settled \/ settled \subseteq job[q].seen

\* Of two logins that are to make room one has looked no later than the other.
LooksAreOrdered ==
  \A q, r \in Requests :
    pc[q] = "trim" /\ pc[r] = "trim"
      => job[q].seen \subseteq job[r].seen \/ job[r].seen \subseteq job[q].seen

IInv ==
  /\ TypeOK /\ ChainsHold /\ UseIsAnOrder
  /\ settled \subseteq Opened
  /\ \A q \in Requests : RefreshJob(q) /\ TrimJob(q)
  /\ LooksAreOrdered
  /\ SessionsWithinLimit /\ LockFollowsFailures
=============================================================================
