----------------------------- MODULE MCSessions -----------------------------
(* An instance of AuthSessions for TLC.                                      *)
EXTENDS AuthSessions, TLC

AllOps == {"login", "refresh", "logout", "expire", "mfa", "password", "reset"}
DeviceStages == {"idle", "verified", "open", "opened", "trim", "rotate", "reuse"}
FactorStages == {"idle", "verified", "factor", "open", "opened", "setup", "enable", "factors", "disable"}
Untouched == [NewUser EXCEPT !.legacy = user.legacy]
OneToken == \A s \in Sessions : session[s].token <= 1 /\ ~session[s].expired

\* The bound of the run: a behaviour works with three sessions, one of which may expire, of
\* a user that stays as it is; or with two sessions and one pair of tokens each of a user
\* that changes; or with three such sessions while only the second factor changes, so that
\* two may be live when it is given up, whatever one closed before.
DevicesOrAccount ==
  \/ /\ user = Untouched /\ \A q \in Requests : pc[q] \in DeviceStages
     /\ Cardinality({s \in Sessions : session[s].expired}) <= 1
  \/ /\ OneToken /\ Cardinality(Opened) <= 2
     /\ \A q \in Requests : pc[q] \notin {"rotate", "reuse"}
  \/ /\ OneToken /\ user.failed = 0 /\ user.changed = 0 /\ user.reset = "none"
     /\ \A q \in Requests : pc[q] \in FactorStages

Symmetry == Permutations(Requests) \cup Permutations(Sessions)
=============================================================================
