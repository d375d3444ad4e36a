----------------------------- MODULE PdfBrowser -----------------------------
(***************************************************************************)
(* The browser that prints papers (getBrowser(), render() and              *)
(* onModuleDestroy() of pdf/pdf.service.ts, pdf/browser-executable.ts).    *)
(*                                                                         *)
(* All requests share one headless browser through a cached promise: the   *)
(* first to need it launches it, the others wait for the same launch.  A   *)
(* launch that fails and a browser that disconnects empty the cache, so    *)
(* that the next request launches again.  The server runs one callback at  *)
(* a time; the browser is a process of its own and may end at any moment,  *)
(* which the server notices later.                                         *)
(***************************************************************************)
EXTENDS Naturals, FiniteSets, Sequences

CONSTANTS
  Requests,     \* papers to print at the same time
  Browsers,     \* names for the browser processes there are at one time
  Paths,        \* places where an executable may be
  Configured,   \* PUPPETEER_EXECUTABLE_PATH, or NoOne
  Bundled,      \* where Puppeteer downloads its browser to
  Candidates,   \* the platform's usual places, in the order they are tried
  MaxCrashes,   \* browsers that do not start or end by themselves, at most
  Stops,        \* whether the server may be stopped
  NoOne

\* Assumed of the constants.
CandidatesAssumption == \A i \in 1..Len(Candidates) : Candidates[i] \in Paths

VARIABLES
  promise,      \* browserPromise: the browser it is for, or NoOne
  browser,      \* browser[b]: "none", "launching", "live", "dead" (not noticed yet) or "gone"
  late,         \* browsers launched after the server began to stop
  present,      \* paths where an executable exists
  pc,           \* pc[q]: "idle", "waiting" for its browser, "page", "done" or "failed"
  job,          \* job[q]: the browser of request q
  stop,         \* the server: "running", "waiting" for the cached browser, "closing", "stopped"
  crashes

vars == <<promise, browser, late, present, pc, job, stop, crashes>>

Running == {b \in Browsers : browser[b] \in {"launching", "live"}}
Users(b) == {q \in Requests : job[q] = b /\ pc[q] \in {"waiting", "page"}}

TypeOK ==
  /\ promise \in Browsers \cup {NoOne}
  /\ promise # NoOne => browser[promise] \in {"launching", "live", "dead"}
  /\ pc \in [Requests -> {"idle", "waiting", "page", "done", "failed"}]
  /\ \A q \in Requests : pc[q] \in {"waiting", "page"} => job[q] \in Browsers
  /\ stop \in {"running", "waiting", "closing", "stopped"} /\ late \subseteq Browsers

Init ==
  /\ promise = NoOne
  /\ browser = [b \in Browsers |-> "none"]
  /\ late = {}
  /\ present \in SUBSET Paths
  /\ pc = [q \in Requests |-> "idle"]
  /\ job = [q \in Requests |-> NoOne]
  /\ stop = "running"
  /\ crashes = 0

-----------------------------------------------------------------------------
(* Launching and sharing the browser.                                      *)

\* resolvePdfBrowserExecutable(): the explicit path and nothing else when there is one;
\* then Puppeteer's own; then the first of the usual places.  Empty when there is none.
Executable ==
  LET found == {i \in 1..Len(Candidates) : Candidates[i] \in present}
  IN IF Configured # NoOne THEN {Configured} \cap present
     ELSE IF Bundled \in present THEN {Bundled}
     ELSE {Candidates[i] : i \in {k \in found : \A l \in found : k <= l}}

\* An administrator installs a browser where it will be looked for.
Install ==
  /\ Executable = {}
  /\ \E path \in Paths : present' = present \cup {path}
  /\ UNCHANGED <<promise, browser, late, pc, job, stop, crashes>>

\* getBrowser(): the browser that is cached, or a new one, which is cached before it runs.
GetBrowser(q) ==
  \E b \in Browsers :
    /\ IF promise # NoOne THEN b = promise ELSE browser[b] \in {"none", "gone"} /\ Users(b) = {}
    /\ promise' = b
    /\ browser' = [browser EXCEPT ![b] = IF promise = b THEN @ ELSE "launching"]
    /\ job' = [job EXCEPT ![q] = b]
    /\ late' = IF promise = b THEN late ELSE IF stop = "running" THEN late \ {b} ELSE late \cup {b}

\* render() of a paper; one that failed is asked for again.
Render(q) ==
  /\ pc[q] \in {"idle", "failed"}
  /\ GetBrowser(q)
  /\ pc' = [pc EXCEPT ![q] = "waiting"]
  /\ UNCHANGED <<present, stop, crashes>>

\* The launch succeeds.
Launched(b) ==
  /\ browser[b] = "launching" /\ Executable # {}
  /\ browser' = [browser EXCEPT ![b] = "live"]
  /\ UNCHANGED <<promise, late, present, pc, job, stop, crashes>>

\* Mutant: the rejected promise stays in the cache.
FaultyLaunchFails(b) ==
  /\ browser[b] = "launching" /\ Executable = {}
  /\ browser' = [browser EXCEPT ![b] = "gone"]
  /\ pc' = [q \in Requests |-> IF q \in Users(b) THEN "failed" ELSE pc[q]]
  /\ UNCHANGED <<promise, late, present, job, stop, crashes>>
\* There is no browser to launch, or it does not start: everyone who waits gets the error,
\* the cache is emptied.
LaunchFails(b) ==
  /\ browser[b] = "launching" /\ (Executable = {} \/ crashes < MaxCrashes)
  /\ crashes' = IF Executable = {} THEN crashes ELSE crashes + 1
  /\ browser' = [browser EXCEPT ![b] = "none"]
  /\ promise' = NoOne
  /\ pc' = [q \in Requests |-> IF q \in Users(b) THEN "failed" ELSE pc[q]]
  /\ UNCHANGED <<late, present, job, stop>>

\* The browser process ends by itself.
Crash(b) ==
  /\ browser[b] = "live" /\ crashes < MaxCrashes
  /\ browser' = [browser EXCEPT ![b] = "dead"]
  /\ crashes' = crashes + 1
  /\ UNCHANGED <<promise, late, present, pc, job, stop>>

\* Its 'disconnected' event arrives, and empties the cache whatever it holds.
Disconnected(b) ==
  /\ browser[b] = "dead"
  /\ browser' = [browser EXCEPT ![b] = "gone"]
  /\ promise' = NoOne
  /\ UNCHANGED <<late, present, pc, job, stop, crashes>>

\* newPage() of the browser waited for, which throws when the browser has ended.
OpenPage(q) ==
  /\ pc[q] = "waiting" /\ browser[job[q]] # "launching"
  /\ pc' = [pc EXCEPT ![q] = IF browser[job[q]] = "live" THEN "page" ELSE "failed"]
  /\ UNCHANGED <<promise, browser, late, present, job, stop, crashes>>

\* The paper is printed, or the browser has ended meanwhile; the page is closed either way.
ClosePage(q) ==
  /\ pc[q] = "page"
  /\ pc' = [pc EXCEPT ![q] = IF browser[job[q]] = "live" THEN "done" ELSE "failed"]
  /\ UNCHANGED <<promise, browser, late, present, job, stop, crashes>>

-----------------------------------------------------------------------------
(* onModuleDestroy(), while requests are still served.                     *)

\* It waits for the promise that is cached.
Stop ==
  /\ Stops /\ stop = "running"
  /\ stop' = IF promise = NoOne THEN "closing" ELSE "waiting"
  /\ UNCHANGED <<promise, browser, late, present, pc, job, crashes>>

\* The browser it waited for runs and is closed; one that ended or never ran is left alone.
Close ==
  /\ stop = "waiting"
  /\ \A b \in Running \ late : browser[b] = "live"
  /\ browser' = [b \in Browsers |-> IF b \in Running \ late THEN "dead" ELSE browser[b]]
  /\ stop' = "closing"
  /\ UNCHANGED <<promise, late, present, pc, job, crashes>>

\* The close is over, and the cache is emptied whatever it holds by now.
Forget ==
  /\ stop = "closing"
  /\ promise' = NoOne
  /\ stop' = "stopped"
  /\ UNCHANGED <<browser, late, present, pc, job, crashes>>

Next ==
  \/ \E q \in Requests : Render(q) \/ OpenPage(q) \/ ClosePage(q)
  \/ \E b \in Browsers : Launched(b) \/ LaunchFails(b) \/ Crash(b) \/ Disconnected(b)
  \/ Install \/ Stop \/ Close \/ Forget

Spec == Init /\ [][Next]_vars

\* Launches and pages come to an end, events arrive, whoever got an error asks again, and
\* somebody installs a browser where there is none.
Fairness ==
  /\ \A q \in Requests : WF_vars(Render(q)) /\ WF_vars(OpenPage(q) \/ ClosePage(q))
  /\ \A b \in Browsers : WF_vars(Launched(b) \/ LaunchFails(b) \/ Disconnected(b))
  /\ WF_vars(Install)
FairSpec == Spec /\ Fairness

-----------------------------------------------------------------------------
(* Properties.                                                             *)

\* However many requests come while a browser is launched, dies or is missing, one runs at
\* a time, and it is the one that is cached.
OneBrowser == stop = "running" => Running \subseteq {promise}

\* No failure is cached for good: after a launch that failed and browsers that died, every
\* paper that is asked for again is printed.
EveryPaperIsPrinted == \A q \in Requests : pc[q] = "waiting" ~> pc[q] = "done"

\* A server that has stopped leaves no browser running that it had launched before it
\* began to stop; only one that a request has launched since then may be left over.
OnlyLateBrowsersAreLeft == stop = "stopped" => Running \subseteq late
=============================================================================
