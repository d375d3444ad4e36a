---------------------------- MODULE SessionChain ----------------------------
(***************************************************************************)
(* What a signed-in session promises its client.  A session is opened      *)
(* once, with a pair of tokens; each pair is exchanged for the next one,   *)
(* never twice; a closed session is never opened again and gives no more   *)
(* tokens.                                                                 *)
(***************************************************************************)
EXTENDS Naturals

CONSTANT Sessions

VARIABLES
  status,   \* status[s]: "none", "open" or "closed"
  token,    \* token[s]: the number of the refresh token that the server accepts
  pairs     \* pairs[s]: how many pairs the server has handed out

vars == <<status, token, pairs>>

Init ==
  /\ status = [s \in Sessions |-> "none"]
  /\ token = [s \in Sessions |-> 0]
  /\ pairs = [s \in Sessions |-> 0]

Handed(s) ==
  /\ token' = [token EXCEPT ![s] = @ + 1]
  /\ pairs' = [pairs EXCEPT ![s] = token[s] + 1]

Open(s) == status[s] = "none" /\ status' = [status EXCEPT ![s] = "open"] /\ Handed(s)

Rotate(s) == status[s] = "open" /\ Handed(s) /\ UNCHANGED status

\* One step may close several sessions: all of them, all others, the oldest.
Close(closed) ==
  /\ \A s \in closed : status[s] = "open"
  /\ status' = [s \in Sessions |-> IF s \in closed THEN "closed" ELSE status[s]]
  /\ UNCHANGED <<token, pairs>>

Next ==
  \/ \E s \in Sessions : Open(s) \/ Rotate(s)
  \/ \E closed \in SUBSET Sessions : Close(closed)

Spec == Init /\ [][Next]_vars
=============================================================================
