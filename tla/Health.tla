--------------------------------- MODULE Health ---------------------------------
(***************************************************************************)
(* pkg/health: CheckAll's concurrent checks through the registry of check  *)
(* functions, CheckWithRetry with its backoff, and the infrastructure      *)
(* checker's own retry loop.                                               *)
(*                                                                         *)
(* CheckAll's targets answer as they do throughout; what a retried probe   *)
(* meets is chosen at every attempt.  Delays are counted in units of W     *)
(* bits; the code's are 64-bit nanoseconds.                                *)
(***************************************************************************)
EXTENDS Integers, Sequences

CONSTANTS
    Targets,     \* positions of CheckAll's targets
    TypeOf,      \* target.Type of each
    Retries,     \* the MaxRetries a policy may have
    Delays,      \* the Delay a policy may have
    Factors,     \* the BackoffFactor a policy may have
    MaxDelay,    \* maxRetryDelay
    Unset        \* no result

VARIABLES
    serving,     \* how each target answers
    checkers,    \* c.checkers: the types with a function
    results,     \* CheckAll's slice
    checking,    \* goroutines that have not called wg.Done
    allDone,     \* CheckAll has returned
    policy,      \* of CheckWithRetry, or the retries of the infra checker
    mode,        \* CheckAll, CheckWithRetry or the infra checker
    attempt,     \* the loop's counter
    delay,       \* before the next attempt
    last,        \* the last result
    ctxDone,     \* ctx is cancelled
    stage        \* where the loop is

healthVars == <<serving, checkers, results, checking, allDone, policy, mode, attempt, delay, last, ctxDone, stage>>
all == <<serving, results, checking, allDone>>
retry == <<policy, mode, attempt, delay, last, ctxDone, stage>>

W == 8                       \* width of the modelled durations (int64 in the code)
Types == {"tcp", "http", "grpc", "custom"}
(* An answer on the wire: refused, or connected with an HTTP status class. *)
Replies == {"refused", "2xx", "3xx", "4xx", "5xx"}
Result(i, healthy) == [target |-> i, healthy |-> healthy]

(* NewDefaultChecker's three functions.  One of the three calls is made.   *)
Init ==
    /\ checkers = {"tcp", "http", "grpc"}
    /\ mode \in {"all", "policy", "infra"}
    /\ IF mode = "all"
       THEN /\ serving \in [Targets -> Replies]
            /\ policy = [retries |-> 0, base |-> 0, factor |-> 1]
       ELSE /\ serving = [i \in Targets |-> "2xx"]
            /\ policy \in [retries : Retries, base : Delays, factor : Factors]
    /\ checking = IF mode = "all" THEN Targets ELSE {}
    /\ allDone = FALSE /\ results = [i \in Targets |-> Unset]
    /\ stage = IF mode = "all" THEN "returned" ELSE "check"
    /\ attempt = 0 /\ delay = policy.base /\ last = Unset /\ ctxDone = FALSE

-----------------------------------------------------------------------------
(* CheckTCP and CheckGRPC: the dial.                                       *)
CheckTCP(reply) == reply # "refused"
CheckGRPC(reply) == reply # "refused"

(* CheckHTTP: a status from 200 to 399; redirects are not followed.        *)
CheckHTTP(reply) == reply \in {"2xx", "3xx"}

(* A custom function's own verdict.                                        *)
CustomCheckFunc(reply) == reply # "refused"

Healthy(type, reply) ==
    CASE type = "tcp" -> CheckTCP(reply)
      [] type = "grpc" -> CheckGRPC(reply)
      [] type = "http" -> CheckHTTP(reply)
      [] OTHER -> CustomCheckFunc(reply)

(* The infra checker's probe: 2xx only, and no check of an unknown type.   *)
CheckOnce(type, reply) ==
    CASE type = "tcp" -> reply # "refused"
      [] type = "http" -> reply = "2xx"
      [] OTHER -> FALSE

(* DefaultChecker.Check: no function, no health.                           *)
Check(i, reply) == TypeOf[i] \in checkers /\ Healthy(TypeOf[i], reply)

(* CheckAll's goroutine for target i writes its own slot.                  *)
CheckAll(i) ==
    /\ i \in checking
    /\ results' = [results EXCEPT ![i] = Result(i, Check(i, serving[i]))]
    /\ checking' = checking \ {i}
    /\ UNCHANGED <<serving, checkers, allDone, retry>>

(* wg.Wait.                                                                *)
Collected ==
    /\ mode = "all" /\ checking = {} /\ ~allDone
    /\ allDone' = TRUE
    /\ UNCHANGED <<serving, checkers, results, checking, retry>>

(* Register, while checks are under way.                                   *)
Register(t) ==
    /\ mode = "all" /\ t \notin checkers
    /\ checkers' = checkers \cup {t}
    /\ UNCHANGED <<all, retry>>

-----------------------------------------------------------------------------

(* nextRetryDelay, clamped to maxRetryDelay.                               *)
NextRetryDelay(d, f) ==
    IF f <= 0 THEN d ELSE IF d * f > MaxDelay THEN MaxDelay ELSE d * f

(* CheckWithRetry clamps a negative count; the infra checker does not.     *)
MaxRetries(p) == IF mode = "policy" /\ p.retries < 0 THEN 0 ELSE p.retries

Cancel ==
    /\ ~ctxDone /\ stage # "returned"
    /\ ctxDone' = TRUE
    /\ UNCHANGED <<checkers, all, policy, mode, attempt, delay, last, stage>>

(* The loop's guard fails: the last result is returned.                    *)
Exhausted ==
    /\ stage = "check" /\ attempt > MaxRetries(policy)
    /\ stage' = "returned"
    /\ UNCHANGED <<checkers, all, policy, mode, attempt, delay, last, ctxDone>>

(* The infra checker looks at ctx before every attempt.                    *)
InfraBails ==
    /\ stage = "check" /\ attempt <= MaxRetries(policy) /\ mode = "infra" /\ ctxDone
    /\ last' = "unhealthy"
    /\ stage' = "returned"
    /\ UNCHANGED <<checkers, all, policy, mode, attempt, delay, ctxDone>>

(* One attempt; a probe under a dead context finds nothing healthy.        *)
Attempt ==
    /\ stage = "check" /\ attempt <= MaxRetries(policy) /\ ~(mode = "infra" /\ ctxDone)
    /\ \E type \in Types, reply \in IF ctxDone THEN {"refused"} ELSE Replies :
         last' = IF (mode = "policy" /\ type \in checkers /\ Healthy(type, reply))
                    \/ (mode = "infra" /\ CheckOnce(type, reply))
                 THEN "healthy" ELSE "unhealthy"
    /\ stage' = IF last' = "healthy" THEN "returned"
                ELSE IF attempt < MaxRetries(policy) THEN "sleep" ELSE "check"
    /\ attempt' = IF stage' = "check" THEN attempt + 1 ELSE attempt
    /\ UNCHANGED <<checkers, all, policy, mode, delay, ctxDone>>

(* The wait between two attempts ends with the delay or with ctx; when     *)
(* both are ready select takes either.                                     *)
Sleep ==
    /\ stage = "sleep"
    /\ \/ ctxDone /\ stage' = "returned" /\ UNCHANGED <<attempt, delay>>
       \/ /\ attempt' = attempt + 1 /\ stage' = "check"
          /\ delay' = IF mode = "policy" THEN NextRetryDelay(delay, policy.factor) ELSE delay
    /\ UNCHANGED <<checkers, all, policy, mode, last, ctxDone>>

Loop == Exhausted \/ InfraBails \/ Attempt \/ Sleep
Next ==
    \/ \E i \in Targets : CheckAll(i)
    \/ Collected
    \/ \E t \in Types : Register(t)
    \/ Cancel \/ Loop

(* Probes are bounded by their timeouts and the timer fires.               *)
Fairness == WF_healthVars(Loop)
Spec == Init /\ [][Next]_healthVars /\ Fairness

-----------------------------------------------------------------------------
(* CheckAll returns every target's own result in the order of its input,   *)
(* whatever order the goroutines finish in and whatever is registered      *)
(* meanwhile: no target is healthy that has no function, refuses the       *)
(* connection, or answers HTTP with an error status.                       *)
ResultsInOrder ==
    allDone => \A i \in Targets :
      /\ results[i] # Unset /\ results[i].target = i
      /\ results[i].healthy =>
           /\ TypeOf[i] \in checkers /\ serving[i] # "refused"
           /\ TypeOf[i] = "http" => serving[i] \notin {"4xx", "5xx"}

(* CheckWithRetry always returns a result, also for a policy with a        *)
(* negative count, and a healthy one as soon as there is one.              *)
ResultAlways == mode = "policy" /\ stage = "returned" => last # Unset

(* The backoff never runs backwards and never leaves its range, whatever   *)
(* the policy: no overflow turns the wait into a busy loop.                *)
BackoffInRange ==
    /\ delay >= 0
    /\ delay <= MaxDelay \/ delay = policy.base
===============================================================================
