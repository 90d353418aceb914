----------------------------- MODULE TestRunner ------------------------------
(***************************************************************************)
(* cmd/distributed-test: deploy the test infrastructure, run the four      *)
(* suites in goroutines of their own, count their results and exit.  The   *)
(* timeout or a signal may cancel the context at any point; the commands   *)
(* of every suite end with it.                                             *)
(***************************************************************************)
EXTENDS Naturals, Sequences, FiniteSets

CONSTANTS
    JS, Android  \* how many projects --js-projects and --android-projects name

Suites == {"go", "js", "android", "challenges"}
(* runJSTests and runAndroidTests go through a list; the others are one test. *)
Tests == [s \in Suites |-> CASE s = "js" -> JS [] s = "android" -> Android [] OTHER -> 1]

VARIABLES
    pc,        \* run: deploy, running, counted, exited
    deployOnly, \* --deploy-only
    skip,      \* suites switched off by a --skip flag
    cancelled, \* ctx is done
    next,      \* the test a suite is at
    step,      \* what it does: idle, install, command, adding, done
    own,       \* the results a suite's function has gathered: test and status
    results,   \* r.results, the order left out
    summary,   \* the summary's Passed, Failed and Skipped
    code,      \* the exit code: none, success, failures, error
    broke      \* history: tests a command of which failed

vars == <<pc, deployOnly, skip, cancelled, next, step, own, results, summary, code, broke>>

Statuses == {"passed", "failed", "skipped"}

Init ==
    /\ pc = "deploy"
    /\ deployOnly \in BOOLEAN
    /\ skip \in SUBSET Suites
    /\ cancelled = FALSE
    /\ next = [s \in Suites |-> 1]
    /\ step = [s \in Suites |-> "idle"]
    /\ own = [s \in Suites |-> << >>]
    /\ results = {}
    /\ summary = [s \in Statuses |-> 0]
    /\ code = "none"
    /\ broke = {}

-----------------------------------------------------------------------------
(* DeployInfrastructure fails or not; only --deploy-only ends with it, and *)
(* RunAll goes on either way.                                              *)
DeployInfrastructure ==
    /\ pc = "deploy"
    /\ \/ /\ deployOnly
          /\ pc' = "exited"
          /\ code' \in {"success", "error"}
       \/ /\ ~deployOnly
          /\ pc' = "running"
          /\ UNCHANGED code
    /\ UNCHANGED <<deployOnly, skip, cancelled, next, step, own, results, summary, broke>>

Goes(s, place) == step' = [step EXCEPT ![s] = place]
Runs(s) == pc = "running" /\ s \notin skip

(* A suite's test is over with a status; the next one follows.             *)
Gather(s, status) ==
    /\ own' = [own EXCEPT ![s] = Append(@, <<next[s], status>>)]
    /\ next' = [next EXCEPT ![s] = @ + 1]
    /\ Goes(s, IF next[s] < Tests[s] THEN "idle" ELSE "adding")

(* What a test needs is not there (the api directory, package.json,        *)
(* gradlew, the challenge runner); or its command is started, for a JS     *)
(* project after npm install when it has no node_modules.                  *)
Begin(s) ==
    /\ Runs(s) /\ step[s] = "idle"
    /\ \/ next[s] > Tests[s] /\ Goes(s, "adding") /\ UNCHANGED <<own, next>>
       \/ next[s] <= Tests[s] /\ Gather(s, "skipped")
       \/ /\ next[s] <= Tests[s]
          /\ \E place \in {"command"} \cup (IF s = "js" THEN {"install"} ELSE {}) : Goes(s, place)
          /\ UNCHANGED <<own, next>>
    /\ UNCHANGED <<pc, deployOnly, skip, cancelled, results, summary, code, broke>>

Breaks(s) == broke' = broke \cup {<<s, next[s]>>}

Install(s) ==
    /\ step[s] = "install"
    /\ \/ ~cancelled /\ Goes(s, "command") /\ UNCHANGED <<own, next, broke>>
       \/ Gather(s, "failed") /\ Breaks(s)
    /\ UNCHANGED <<pc, deployOnly, skip, cancelled, results, summary, code>>

(* The test command ends.  A package without a test script makes npm fail  *)
(* with "no test specified": nothing was there to run.                     *)
Command(s) ==
    /\ step[s] = "command"
    /\ \/ ~cancelled /\ Gather(s, "passed") /\ UNCHANGED broke
       \/ ~cancelled /\ s = "js" /\ Gather(s, "skipped") /\ UNCHANGED broke
       \/ Gather(s, "failed") /\ Breaks(s)
    /\ UNCHANGED <<pc, deployOnly, skip, cancelled, results, summary, code>>

(* addResult for each of the suite's results, under r.mu.                  *)
Entry(s) == <<s, Head(own[s])[1], Head(own[s])[2]>>
AppendResult(s) == results' = results \cup {Entry(s)}

AddResult(s) ==
    /\ step[s] = "adding"
    /\ IF own[s] = << >>
       THEN Goes(s, "done") /\ UNCHANGED <<own, results>>
       ELSE AppendResult(s) /\ own' = [own EXCEPT ![s] = Tail(@)] /\ UNCHANGED step
    /\ UNCHANGED <<pc, deployOnly, skip, cancelled, next, summary, code, broke>>

-----------------------------------------------------------------------------
(* After wg.Wait.                                                          *)
Wait == pc = "running" /\ \A s \in Suites \ skip : step[s] = "done"
Count ==
    /\ Wait
    /\ pc' = "counted"
    /\ summary' = [t \in Statuses |-> Cardinality({x \in results : x[3] = t})]
    /\ UNCHANGED <<deployOnly, skip, cancelled, next, step, own, results, code, broke>>

Exit ==
    /\ pc = "counted"
    /\ pc' = "exited"
    /\ code' = IF summary["failed"] > 0 THEN "failures" ELSE "success"
    /\ UNCHANGED <<deployOnly, skip, cancelled, next, step, own, results, summary, broke>>

Cancel ==
    /\ pc # "exited" /\ ~cancelled
    /\ cancelled' = TRUE
    /\ UNCHANGED <<pc, deployOnly, skip, next, step, own, results, summary, code, broke>>

Next ==
    \/ DeployInfrastructure \/ Count \/ Exit \/ Cancel
    \/ \E s \in Suites : Begin(s) \/ Install(s) \/ Command(s) \/ AddResult(s)

Spec == Init /\ [][Next]_vars

-----------------------------------------------------------------------------
(* The run is green only when no command of any suite failed or was cut    *)
(* short, an interrupted or timed-out run included (main.go:203-220).      *)
GreenMeansPassed == code = "success" => broke = {}

(* Every test of every suite that was not switched off has its result in   *)
(* the report, and the totals are those of the report (main.go:365-426).   *)
EveryTestCounted ==
    pc = "counted" =>
        /\ \A s \in Suites \ skip :
              Cardinality({x \in results : x[1] = s}) = Tests[s]
        /\ summary["passed"] + summary["failed"] + summary["skipped"] = Cardinality(results)
==============================================================================
