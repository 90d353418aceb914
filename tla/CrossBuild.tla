----------------------------- MODULE CrossBuild -----------------------------
(***************************************************************************)
(* pkg/crossbuild: the Selector and the Build of its four backends.        *)
(*                                                                         *)
(* Every Build has one shape: validate, look for the engine and the image, *)
(* snapshot the declared output, run the command, verify that this run     *)
(* produced the output, copy it to HostOutputDir.  The builds here share   *)
(* the source tree and the destination, one after the other or at the same *)
(* time.  A command writes what it likes; when a build times out, the      *)
(* process group of the command is killed, which for a container is only   *)
(* the CLI: the container may live on and write to the mounted tree.       *)
(***************************************************************************)
EXTENDS Naturals, Sequences, SequencesExt

CONSTANTS
    N,            \* builds
    MaxWrites,    \* writes to the output by one command
    MaxBackends   \* registrations

Builds == 1..N
Targets == {"linux/amd64", "linux/arm64", "windows/amd64"}

VARIABLES
    host,      \* the selector's hostOS/hostArch
    backends,  \* in registration order
    serial,    \* the caller waits for a build before it starts the next
    at,        \* by build: where it is
    target, chosen,
    clock,     \* writes so far: the mtime of the output
    file,      \* the output: writer, mtime and whether it has content
    writes,    \* by build: its command's writes
    orphans,   \* builds of whose command something outlived them
    killed,    \* builds that timed out
    pre,       \* by build: the mtime of the snapshot, 0 for none
    since,     \* by build: the clock at the snapshot
    source,    \* by build: the output's mtime when the copy began
    dst,       \* the file in HostOutputDir: "absent", "partial", "torn", "whole"
    debris,    \* a removal of a broken copy failed
    got        \* by build: writer and mtime of what it delivered

vars == <<host, backends, serial, at, target, chosen, clock, file, writes, orphans, killed, pre,
          since, source, dst, debris, got>>
selector == <<host, backends>>
output == <<clock, file, writes>>
left == <<orphans, killed>>
snapshot == <<pre, since>>
delivery == <<source, dst, debris, got>>

Nothing == [by |-> 0, mtime |-> 0, content |-> "absent"]

Init ==
    /\ host \in {"linux/amd64", "darwin/arm64"}
    /\ backends = <<>>
    /\ serial \in BOOLEAN
    /\ at = [b \in Builds |-> "idle"]
    /\ target = [b \in Builds |-> "none"] /\ chosen = [b \in Builds |-> "none"]
    /\ clock = 1 /\ file = [by |-> 0, mtime |-> 1, content |-> "some"]  \* a leftover
    /\ writes = [b \in Builds |-> 0] /\ orphans = {} /\ killed = {}
    /\ pre = [b \in Builds |-> 0] /\ since = [b \in Builds |-> 0]
    /\ source = [b \in Builds |-> 0]
    /\ dst = "absent" /\ debris = FALSE
    /\ got = [b \in Builds |-> Nothing]

Go(b, from, to) == at[b] = from /\ at' = [at EXCEPT ![b] = to]
Busy(b) == at[b] \notin {"idle", "done", "failed"}

-----------------------------------------------------------------------------
(* The targets of a backend, and the hosts it needs.                       *)
backendSupportsTarget(k, t) ==
    t \in CASE k = "host-direct" -> {host}
            [] k = "linux-container" -> {IF host = "linux/amd64" THEN "linux/amd64" ELSE "linux/arm64"}
            [] k = "wine-container" -> {"windows/amd64"}
            [] k = "apple-container" -> {"linux/arm64"}

backendSupportsHost(k) ==
    CASE k = "wine-container" -> host = "linux/amd64"
      [] k = "apple-container" -> host = "darwin/arm64"
      [] OTHER -> TRUE

Serves(k, t) == backendSupportsTarget(k, t) /\ backendSupportsHost(k)

Register(k) ==
    /\ Len(backends) < MaxBackends /\ k \notin ToSet(backends)
    /\ backends' = Append(backends, k)
    /\ UNCHANGED <<host, serial, at, target, chosen, output, left, snapshot, delivery>>

(* The first registered backend that serves the target on this host.       *)
Choose(t) ==
    LET able == SelectSeq(backends, LAMBDA k : Serves(k, t))
    IN IF able = <<>> THEN "none" ELSE Head(able)

(* Selector.Build hands the request to the backend of its choice.          *)
Build(b, t) ==
    /\ serial => \A q \in Builds : ~Busy(q)
    /\ target' = [target EXCEPT ![b] = t]
    /\ chosen' = [chosen EXCEPT ![b] = Choose(t)]
    /\ Go(b, "idle", IF Choose(t) = "none" THEN "failed" ELSE "chosen")
    /\ UNCHANGED <<selector, serial, output, left, snapshot, delivery>>

(* A request without a source tree, command, output below the tree or      *)
(* writable destination is refused before anything else is looked at.      *)
validateRequest(b) ==
    /\ \/ Go(b, "chosen", IF chosen[b] = "host-direct" THEN "ready" ELSE "image")
       \/ Go(b, "chosen", "failed")
    /\ UNCHANGED <<selector, serial, target, chosen, output, left, snapshot, delivery>>

(* Apple's CLI is not installed.                                           *)
Available(b) ==
    /\ Go(b, "image", "failed")
    /\ UNCHANGED <<selector, serial, target, chosen, output, left, snapshot, delivery>>

(* The image is there; or it is not, or the engine cannot say.             *)
ImageExists(b) ==
    /\ \/ Go(b, "image", "ready")
       \/ Go(b, "image", "failed")
    /\ UNCHANGED <<selector, serial, target, chosen, output, left, snapshot, delivery>>

(* statIfExists, before the command runs.                                  *)
Snapshot(b) ==
    /\ Go(b, "ready", "run")
    /\ pre' = [pre EXCEPT ![b] = IF file.content = "absent" THEN 0 ELSE file.mtime]
    /\ since' = [since EXCEPT ![b] = clock]
    /\ UNCHANGED <<selector, serial, target, chosen, output, left, delivery>>

(* A command, its build still there or not, writes, empties or removes the *)
(* output.  An empty directory counts as empty.                            *)
Write(b) ==
    /\ at[b] = "run" \/ b \in orphans
    /\ writes[b] < MaxWrites
    /\ writes' = [writes EXCEPT ![b] = @ + 1]
    /\ clock' = clock + 1
    /\ \E c \in {"absent", "empty", "some"} : file' = [by |-> b, mtime |-> clock', content |-> c]
    /\ UNCHANGED <<selector, serial, at, target, chosen, left, snapshot, delivery>>

(* The runner returns: exit 0, or an error or another exit code.  Nothing  *)
(* is killed then: a descendant in the background may go on writing.       *)
RunEnds(b) ==
    /\ \/ Go(b, "run", "verify")
       \/ Go(b, "run", "failed")
    /\ orphans' \in {orphans, orphans \cup {b}}
    /\ UNCHANGED <<selector, serial, target, chosen, output, killed, snapshot, delivery>>

(* ctx ends: configureProcessGroup has the whole group killed.             *)
Timeout(b) ==
    /\ Go(b, "run", "failed")
    /\ orphans' \in {orphans} \cup IF chosen[b] = "host-direct" THEN {} ELSE {orphans \cup {b}}
    /\ killed' = killed \cup {b}
    /\ UNCHANGED <<selector, serial, target, chosen, output, snapshot, delivery>>

(* There, not empty, and not the file of the snapshot.                     *)
verifyFreshArtifact(b) == file.content = "some" /\ file.mtime # pre[b]

Verify(b) ==
    /\ Go(b, "verify", IF verifyFreshArtifact(b) THEN "fetch" ELSE "failed")
    /\ UNCHANGED <<selector, serial, target, chosen, output, left, snapshot, delivery>>

(* copyFile: resolve the output below SourceDir; open the destination with *)
(* O_TRUNC.  Whatever fails after the first step removes the destination.  *)
CopyBegins(b) ==
    /\ \/ /\ Go(b, "fetch", "copy")
          /\ file.content # "absent"
          /\ source' = [source EXCEPT ![b] = file.mtime]
          /\ dst' = "partial"
       \/ Go(b, "fetch", "failed") /\ UNCHANGED <<source, dst>>
       \/ Go(b, "fetch", "failed") /\ dst' = "absent" /\ UNCHANGED source
    /\ UNCHANGED <<selector, serial, target, chosen, output, left, snapshot, debris, got>>

(* The copy is complete.  Another build may be writing to the same         *)
(* destination, or have removed it; the source may have changed meanwhile. *)
CopyEnds(b) ==
    /\ Go(b, "copy", "done")
    /\ dst' = IF dst = "absent" THEN "absent"
              ELSE IF \E q \in Builds \ {b} : at[q] = "copy" THEN "partial"
              ELSE IF file.mtime # source[b] THEN "torn" ELSE "whole"
    /\ got' = [got EXCEPT ![b] = file]
    /\ UNCHANGED <<selector, serial, target, chosen, output, left, snapshot, source, debris>>

(* RemoveAll(dst), whose own error is swallowed.                           *)
CopyFails(b) ==
    /\ Go(b, "copy", "failed")
    /\ \/ dst' = "absent" /\ UNCHANGED debris
       \/ debris' = TRUE /\ UNCHANGED dst
    /\ UNCHANGED <<selector, serial, target, chosen, output, left, snapshot, source, got>>

(* The four Builds: a container backend also looks for its image.          *)
Work(b) ==
    \/ validateRequest(b) \/ Snapshot(b) \/ RunEnds(b) \/ Timeout(b) \/ Verify(b)
    \/ CopyBegins(b) \/ CopyEnds(b) \/ CopyFails(b)

HostDirectBackend(b) == chosen[b] = "host-direct" /\ Work(b)
LinuxContainerBackend(b) == chosen[b] = "linux-container" /\ (Work(b) \/ ImageExists(b))
WineContainerBackend(b) == chosen[b] = "wine-container" /\ (Work(b) \/ ImageExists(b))
AppleContainerBackend(b) ==
    chosen[b] = "apple-container" /\ (Work(b) \/ Available(b) \/ ImageExists(b))

Next ==
    \/ \E k \in {"host-direct", "linux-container", "wine-container", "apple-container"} : Register(k)
    \/ \E b \in Builds :
         \/ \E t \in Targets : Build(b, t)
         \/ HostDirectBackend(b) \/ LinuxContainerBackend(b) \/ WineContainerBackend(b)
         \/ AppleContainerBackend(b) \/ Write(b)

Spec == Init /\ [][Next]_vars

-----------------------------------------------------------------------------

(* "reporting a stale, leftover artifact from a prior build as this        *)
(* build's fresh output is a bluff": what a successful build delivers was  *)
(* written after its own snapshot, also when builds share the tree.        *)
NeverStale == \A b \in Builds : at[b] = "done" => got[b].mtime > since[b]

(* Host-direct builds that run one at a time deliver what their own        *)
(* command wrote: a command that timed out is dead with all its group and  *)
(* cannot write into the next build (one that ended by itself may have left*)
(* a writer behind, and then the claim does not hold).                     *)
DeliversOwn ==
    serial /\ orphans \subseteq killed /\ (\A q \in Builds : chosen[q] \in {"none", "host-direct"}) =>
        \A b \in Builds : at[b] = "done" => got[b].by = b /\ got[b].content = "some"

(* A failed copy "MUST NOT leave partial/truncated debris under            *)
(* HostOutputDir": with no copy in progress the destination is absent or   *)
(* was copied to the end, unless a removal itself failed.                  *)
NoDebris ==
    ~debris /\ (\A b \in Builds : at[b] # "copy") => dst # "partial"

(* "the FIRST registered wins": once a backend serves a target, every      *)
(* later build for that target goes to the same one, whatever is           *)
(* registered in between.                                                  *)
StableChoice ==
    \A b, q \in Builds :
        target[b] = target[q] => \/ chosen[b] = chosen[q]
                                 \/ "none" \in {chosen[b], chosen[q]}
=============================================================================
