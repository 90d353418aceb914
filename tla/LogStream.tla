------------------------------ MODULE LogStream ------------------------------
(***************************************************************************)
(* Reading a container's logs (pkg/runtime): the --tail argument each      *)
(* runtime gives its CLI, and the reader ExecuteStream hands back.  The    *)
(* child writes to two bounded pipes, a goroutine drains stderr, and users *)
(* call Read and Close from several goroutines; whichever of them comes to *)
(* finish first reaps the child.                                           *)
(***************************************************************************)
EXTENDS Naturals, FiniteSetsExt

CONSTANTS
    Users,     \* goroutines that share one reader
    MaxOut, MaxErr, \* bounds: chunks a child writes to stdout and to stderr
    PipeSize,  \* chunks a pipe holds before the writer blocks
    stderrCaptureLimit

VARIABLES
    child,    \* none, rejects (its arguments), running, ok, failed, unstarted
    todo,     \* chunks the child has still to write: out and err
    pipe,     \* chunks in the pipes
    stdout,   \* our end of stdout: open or closed
    drain,    \* the goroutine that copies stderr: none, copying, done
    stderr,   \* chunks kept in the boundedBuffer
    once,     \* finish's sync.Once: fresh, running, done
    waitErr,  \* nil, bare (an exit status), explained (with stderr's text)
    at,       \* where a user is: idle, read, finish, join, wait
    got,      \* what a user's last call returned: none, data, clean, err
    waits,    \* history: calls of cmd.Wait
    wrote     \* history: the child has written to stderr

vars == <<child, todo, pipe, stdout, drain, stderr, once, waitErr, at, got, waits, wrote>>

Runtimes == {"docker", "podman", "nerdctl", "cri-o", "lxd", "kubernetes"}
(* What WithTail says; "all" is the default.                               *)
Tails == {"", "all", "number"}

Init ==
    /\ child = "none"
    /\ todo = [out |-> 0, err |-> 0]
    /\ pipe = [out |-> 0, err |-> 0]
    /\ stdout = "open"
    /\ drain = "none"
    /\ stderr = 0
    /\ once = "fresh"
    /\ waitErr = "nil"
    /\ at = [u \in Users |-> "idle"]
    /\ got = [u \in Users |-> "none"]
    /\ waits = 0
    /\ wrote = FALSE

-----------------------------------------------------------------------------
(* The value of --tail each Logs passes on; "" when it leaves the flag out. *)
Numeric(tail) == IF tail = "number" THEN tail ELSE ""

DockerLogs(tail) == tail
NerdctlLogs(tail) == tail
PodmanLogs(tail) == Numeric(tail)
CRIOLogs(tail) == Numeric(tail)
LXDLogs(tail) == Numeric(tail)
KubernetesLogs(tail) == IF tail = "all" THEN "" ELSE tail

Logs(name, tail) ==
    CASE name = "docker" -> DockerLogs(tail)
      [] name = "nerdctl" -> NerdctlLogs(tail)
      [] name = "podman" -> PodmanLogs(tail)
      [] name = "cri-o" -> CRIOLogs(tail)
      [] name = "lxd" -> LXDLogs(tail)
      [] name = "kubernetes" -> KubernetesLogs(tail)

(* The CLIs: only docker's and nerdctl's --tail takes a word.              *)
Accepts(name, flag) == flag = "all" => name \in {"docker", "nerdctl"}

(* A command that rejects its arguments says so and writes no output.  A   *)
(* Start that fails closes the pipes, which ends the copy.                 *)
ExecuteStream ==
    /\ child = "none"
    /\ \/ /\ child' = "unstarted" /\ drain' = "done"
          /\ UNCHANGED todo
       \/ /\ drain' = "copying"
          /\ \E name \in Runtimes, tail \in Tails :
                IF Accepts(name, Logs(name, tail))
                THEN child' = "running" /\ todo' \in [out : 0..MaxOut, err : 0..MaxErr]
                ELSE child' = "rejects" /\ todo' = [out |-> 0, err |-> 1]
    /\ UNCHANGED <<pipe, stdout, stderr, once, waitErr, at, got, waits, wrote>>

Alive == child \in {"running", "rejects"}
Exited == child \in {"ok", "failed"}

-----------------------------------------------------------------------------
(* The child.  A write to a closed stdout kills it.                        *)
WriteOut ==
    /\ Alive /\ todo.out > 0
    /\ \/ /\ stdout = "open" /\ pipe.out < PipeSize
          /\ todo' = [todo EXCEPT !.out = @ - 1]
          /\ pipe' = [pipe EXCEPT !.out = @ + 1]
          /\ UNCHANGED child
       \/ /\ stdout = "closed"
          /\ child' = "failed"
          /\ UNCHANGED <<todo, pipe>>
    /\ UNCHANGED <<stdout, drain, stderr, once, waitErr, at, got, waits, wrote>>

WriteErr ==
    /\ Alive /\ todo.err > 0 /\ pipe.err < PipeSize
    /\ todo' = [todo EXCEPT !.err = @ - 1]
    /\ pipe' = [pipe EXCEPT !.err = @ + 1]
    /\ wrote' = TRUE
    /\ UNCHANGED <<child, stdout, drain, stderr, once, waitErr, at, got, waits>>

ChildExits ==
    /\ Alive /\ todo.out = 0 /\ todo.err = 0
    /\ child' \in IF child = "rejects" THEN {"failed"} ELSE {"ok", "failed"}
    /\ UNCHANGED <<todo, pipe, stdout, drain, stderr, once, waitErr, at, got, waits, wrote>>

(* The context ends, and CommandContext kills the child.                   *)
Cancel ==
    /\ Alive
    /\ child' = "failed"
    /\ UNCHANGED <<todo, pipe, stdout, drain, stderr, once, waitErr, at, got, waits, wrote>>

-----------------------------------------------------------------------------
(* boundedBuffer.Write keeps what fits, and always reports a full write.   *)
BoundedWrite ==
    /\ stderr' = Min({stderr + 1, stderrCaptureLimit})
    /\ UNCHANGED drain

(* The io.Copy goroutine: a chunk, or the end of the file.                 *)
Drain ==
    /\ drain = "copying"
    /\ \/ /\ pipe.err > 0
          /\ pipe' = [pipe EXCEPT !.err = @ - 1]
          /\ BoundedWrite
       \/ /\ pipe.err = 0 /\ Exited
          /\ drain' = "done"
          /\ UNCHANGED <<pipe, stderr>>
    /\ UNCHANGED <<child, todo, stdout, once, waitErr, at, got, waits, wrote>>

-----------------------------------------------------------------------------
Goes(u, place) == at' = [at EXCEPT ![u] = place]
Returns(u, result) == Goes(u, "idle") /\ got' = [got EXCEPT ![u] = result]

HasReader == child \notin {"none", "unstarted"}

Read(u) ==
    /\ HasReader /\ at[u] = "idle"
    /\ Goes(u, "read")
    /\ UNCHANGED <<child, todo, pipe, stdout, drain, stderr, once, waitErr, got, waits, wrote>>

ReadEnds(u) ==
    /\ at[u] = "read"
    /\ \/ stdout = "closed" /\ Returns(u, "err") /\ UNCHANGED pipe
       \/ /\ stdout = "open" /\ pipe.out > 0
          /\ Returns(u, "data")
          /\ pipe' = [pipe EXCEPT !.out = @ - 1]
       \/ stdout = "open" /\ pipe.out = 0 /\ Exited /\ Goes(u, "finish") /\ UNCHANGED <<pipe, got>>
    /\ UNCHANGED <<child, todo, stdout, drain, stderr, once, waitErr, waits, wrote>>

Close(u) ==
    /\ HasReader /\ at[u] = "idle"
    /\ stdout' = "closed"
    /\ Goes(u, "finish")
    /\ UNCHANGED <<child, todo, pipe, drain, stderr, once, waitErr, got, waits, wrote>>

-----------------------------------------------------------------------------
(* finish: the first to come runs the body, the others wait for it.        *)
FinishEach(u) ==
    /\ at[u] = "finish" /\ once # "done"
    /\ once' = "running"
    /\ Goes(u, "join")
    /\ UNCHANGED <<child, todo, pipe, stdout, drain, stderr, waitErr, got, waits, wrote>>
Finish(u) ==
    /\ at[u] = "finish" /\ once = "fresh"
    /\ once' = "running"
    /\ Goes(u, "join")
    /\ UNCHANGED <<child, todo, pipe, stdout, drain, stderr, waitErr, got, waits, wrote>>

Join(u) ==
    /\ at[u] = "join" /\ drain = "done"
    /\ Goes(u, "wait")
    /\ UNCHANGED <<child, todo, pipe, stdout, drain, stderr, once, waitErr, got, waits, wrote>>

(* cmd.Wait also closes our ends of the pipes.                             *)
Wait(u) ==
    /\ at[u] = "wait" /\ Exited
    /\ waits' = waits + 1
    /\ stdout' = "closed" /\ drain' = "done"
    /\ waitErr' = CASE child = "ok" -> "nil"
                    [] child # "ok" /\ stderr > 0 -> "explained"
                    [] OTHER -> "bare"
    /\ once' = "done"
    /\ Goes(u, "finish")
    /\ UNCHANGED <<child, todo, pipe, stderr, got, wrote>>

FinishReturns(u) ==
    /\ at[u] = "finish" /\ once = "done"
    /\ Returns(u, IF waitErr = "nil" THEN "clean" ELSE "err")
    /\ UNCHANGED <<child, todo, pipe, stdout, drain, stderr, once, waitErr, waits, wrote>>

-----------------------------------------------------------------------------
ChildStep == WriteOut \/ WriteErr \/ ChildExits
Step(u) == ReadEnds(u) \/ Finish(u) \/ Join(u) \/ Wait(u) \/ FinishReturns(u)

Next ==
    \/ ExecuteStream \/ ChildStep \/ Cancel \/ Drain
    \/ \E u \in Users : Read(u) \/ Close(u) \/ Step(u)

(* The child runs and ends by itself (it does not follow a quiet log), and *)
(* the goroutines are scheduled.                                           *)
Fairness ==
    /\ WF_vars(ChildStep)
    /\ WF_vars(Drain)
    /\ \A u \in Users : WF_vars(Step(u))

Spec == Init /\ [][Next]_vars /\ Fairness

-----------------------------------------------------------------------------
(* A command that failed is never read as a log that ended: a nil Close or *)
(* a bare io.EOF is only ever returned for a child that exited with zero,  *)
(* whatever Reads and Closes raced (docker.go:195).                        *)
FailureNotSilent == \A u \in Users : got[u] = "clean" => child = "ok"

(* When the command failed and had said why on stderr, the verdict carries *)
(* its text: nothing is still in the pipe when finish looks (230-244).     *)
ReasonKept == once = "done" /\ wrote /\ child = "failed" => waitErr = "explained"

(* Wait is called exactly once however Read and Close interleave           *)
(* (docker.go:202).                                                        *)
ReapedOnce == waits = (IF once = "done" THEN 1 ELSE 0)

(* No runtime runs its CLI with a --tail it rejects, for the default tail  *)
(* or one a caller sets (docker.go:736, podman.go:317, crio.go:288,        *)
(* lxd.go:325, kubernetes.go:407, nerdctl.go:163).                         *)
NeverRejected == child # "rejects"
==============================================================================
