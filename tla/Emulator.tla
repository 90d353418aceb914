------------------------------ MODULE Emulator ------------------------------
(***************************************************************************)
(* Host-direct Android emulators under the matrix runner and the canary    *)
(* (pkg/emulator/android.go, matrix.go, adb_hygiene.go, canary.go).        *)
(*                                                                         *)
(* A row of the matrix boots the emulator of one AVD, installs the app,    *)
(* runs the tests against "localhost:<port>" and tears the emulator down.  *)
(* Nothing ties the launched process to the port: Boot passes no -port and *)
(* finds the port by diffing `adb devices' before and after the launch.    *)
(* The adb server is shared by every row and by the developer's own        *)
(* emulator; it learns of emulators and of their deaths on its own time,   *)
(* and a row's hygiene step restarts it under everyone's feet.             *)
(*                                                                         *)
(* Slots are console ports in the order the emulator binary tries them.    *)
(* The commands pass context.Background(), so no caller cancels.           *)
(***************************************************************************)
EXTENDS Integers, FiniteSets, Sequences, SequencesExt

CONSTANTS
    N,       \* length of MatrixConfig.AVDs; row r is the r-th AVD
    MaxSlot, \* console ports the emulator binary may bind
    Workers  \* MatrixConfig.Concurrent of the concurrent mode

Rows == 1..N
Slots == 1..MaxSlot
None == 0
Dev == N + 1      \* the AVD of the developer's emulator
Failed == N + 2

Console(s) == 2 * s
ADB(s) == 2 * s + 1
Ports == {Console(s) : s \in Slots} \cup {ADB(s) : s \in Slots}

VARIABLES
    mode,    \* "serial" (gating), "concurrent" or "canary"
    cursor,  \* the next AVD to hand out
    stage,   \* where each row's runOne is
    runs,    \* the AVD whose emulator holds each console port
    dying,   \* slots whose emulator was told to exit by `emu kill'
    listed,  \* slots adb lists as emulator-<console>
    conn,    \* slots whose localhost:<adb> transport is in state "device"
    before,  \* each row's snapshot of the listed slots
    blind,   \* blind: running emulators the snapshot did not show
    port,    \* BootResult.ADBPort
    verdict, \* what the row will report: Failed, or the AVD it passed on
    results  \* rows in the order RunMatrix collects them

vars == <<mode, cursor, stage, runs, dying, listed, conn, before, blind, port,
          verdict, results>>
emulators == <<runs, dying>>
adb == <<listed, conn>>
row == <<before, port, verdict, results>>

Stages == {"queued", "clean", "hygiene", "snapshot", "start", "discover",
           "wait", "install", "test", "launch", "observe", "logcat", "kill",
           "poll", "done"}

LastRow == IF mode = "canary" THEN 1 ELSE N
Running == {s \in Slots : runs[s] # None}
SlotOf(r) == (port[r] - 1) \div 2
Connected(r) == SlotOf(r) \in conn

(***************************************************************************)
(* A developer's emulator is up, and an interrupted run may have left the  *)
(* first AVD's emulator behind (a bound: not in the concurrent mode).      *)
(***************************************************************************)
Init ==
    /\ mode \in {"serial", "concurrent", "canary"}
    /\ cursor = 1
    /\ stage = [r \in Rows |-> "queued"]
    /\ \E old \in IF mode = "concurrent" THEN {Dev} ELSE {1, Dev} :
         runs = [s \in Slots |-> CASE s = 1 -> old
                                  [] s = 2 /\ old = 1 -> Dev
                                  [] OTHER -> None]
    /\ dying = {}
    /\ listed = Running
    /\ conn = {}
    /\ before = [r \in Rows |-> {}]
    /\ blind = [r \in Rows |-> {}]
    /\ port = [r \in Rows |-> 0]
    /\ verdict = [r \in Rows |-> None]
    /\ results = <<>>

Go(r, from, to) == stage[r] = from /\ stage' = [stage EXCEPT ![r] = to]

(***************************************************************************)
(* A row that returns without Teardown, and one that returns through it.   *)
(***************************************************************************)
Return(r, from, v) ==
    /\ Go(r, from, "done")
    /\ verdict' = [verdict EXCEPT ![r] = v]
    /\ results' = Append(results, r)
    /\ port' = [port EXCEPT ![r] = 0]
    /\ before' = [before EXCEPT ![r] = {}]

GiveUp(r, from, v) ==
    /\ Go(r, from, "kill")
    /\ verdict' = [verdict EXCEPT ![r] = v]
    /\ UNCHANGED <<before, port, results>>

(***************************************************************************)
(* Cleanup(avd) and KillByPort(port): the reaper kills what its token      *)
(* matches, best effort.  Boot's emulators carry `-avd' and no `-port';    *)
(* the developer's carries both.  Cleanup is modelled in Reaper.           *)
(***************************************************************************)
Reap(owned) ==
    \E dead \in SUBSET owned :
        /\ runs' = [s \in Slots |-> IF s \in dead THEN None ELSE runs[s]]
        /\ dying' = dying \ dead

Cleanup(r) == Reap({s \in Slots : runs[s] = r})

KillByPort(p) == Reap({s \in Slots : runs[s] = Dev /\ Console(s) = p})

(***************************************************************************)
(* RunMatrix: the serial loop takes the next AVD when the previous row     *)
(* returned, the worker pool when a worker is idle.                        *)
(***************************************************************************)
Busy == {r \in Rows : stage[r] \notin {"queued", "done"}}

Take ==
    /\ cursor <= LastRow
    /\ Cardinality(Busy) < (IF mode = "concurrent" THEN Workers ELSE 1)
    /\ Go(cursor, "queued", "clean")
    /\ cursor' = cursor + 1
    /\ UNCHANGED <<mode, emulators, adb, blind, row>>

\* Pre-boot cleanup, clearAVDLock and, in the matrix, the system image
\* (modelled in SystemImage), whose failure ends the row.
Clean(r) ==
    /\ Cleanup(r)
    /\ \/ Go(r, "clean", "hygiene") /\ UNCHANGED row
       \/ mode # "canary" /\ Return(r, "clean", Failed)
    /\ UNCHANGED <<mode, cursor, adb, blind>>

(***************************************************************************)
(* Boot: ResetADBHygiene (kill-server drops every transport; when it fails *)
(* Boot carries on), the snapshot (an adb error yields an empty one),      *)
(* the detached launch, and discoverNewSerial.                             *)
(***************************************************************************)
ResetADBHygiene(r) ==
    /\ Go(r, "hygiene", "snapshot")
    /\ \/ listed' = {} /\ conn' = {}
       \/ UNCHANGED adb
    /\ UNCHANGED <<mode, cursor, emulators, blind, row>>

Snapshot(r) ==
    /\ Go(r, "snapshot", "start")
    /\ \E seen \in {listed, {}} :
         /\ before' = [before EXCEPT ![r] = seen]
         /\ blind' = [blind EXCEPT ![r] = Running \ seen]
    /\ UNCHANGED <<mode, cursor, emulators, adb, port, verdict, results>>

LowestFree(s) == s \notin Running /\ \A t \in Slots : t < s => t \in Running

Start(r) ==
    /\ \/ /\ Go(r, "start", "discover")
          /\ \/ \E s \in Slots : LowestFree(s) /\ runs' = [runs EXCEPT ![s] = r]
             \/ UNCHANGED runs      \* the process exits at once
          /\ UNCHANGED <<dying, row>>
       \/ Return(r, "start", Failed) /\ UNCHANGED emulators
    /\ UNCHANGED <<mode, cursor, adb, blind>>

Discover(r) ==
    /\ Go(r, "discover", "wait")
    /\ \E s \in listed \ before[r] : port' = [port EXCEPT ![r] = ADB(s)]
    /\ before' = [before EXCEPT ![r] = {}]
    /\ UNCHANGED <<mode, cursor, emulators, adb, blind, verdict, results>>

\* Reap by AVD name, capture a diagnostic, fail the row.
DiscoverTimeout(r) ==
    /\ Return(r, "discover", Failed)
    /\ Cleanup(r)
    /\ UNCHANGED <<mode, cursor, adb, blind>>

(***************************************************************************)
(* WaitForBoot connects on every poll and wants sys.boot_completed=1.  On  *)
(* timeout it reaps by console port and the row tears down.                *)
(***************************************************************************)
WaitForBoot(r) ==
    /\ Go(r, "wait", "install")
    /\ SlotOf(r) \in Running
    /\ conn' = conn \cup {SlotOf(r)}
    /\ UNCHANGED <<mode, cursor, emulators, listed, blind, row>>

WaitTimeout(r) ==
    /\ GiveUp(r, "wait", Failed)
    /\ KillByPort(port[r] - 1)
    /\ conn' \in {conn, conn \cup ({SlotOf(r)} \cap Running)}
    /\ UNCHANGED <<mode, cursor, listed, blind>>

(***************************************************************************)
(* Install of the app and the extra APKs, the network profile (an unknown  *)
(* name fails the row, a failing shaping command does not), then the tests *)
(* or, in the canary, am start.  Each adb call needs the transport.        *)
(***************************************************************************)
Install(r) ==
    /\ \/ Connected(r) /\ Go(r, "install", IF mode = "canary" THEN "launch"
                                           ELSE "test")
          /\ UNCHANGED row
       \/ GiveUp(r, "install", Failed)
    /\ UNCHANGED <<mode, cursor, emulators, adb, blind>>

RunInstrumentation(r) ==
    /\ \/ Connected(r) /\ SlotOf(r) \in Running /\ GiveUp(r, "test", runs[SlotOf(r)])
       \/ GiveUp(r, "test", Failed)
    /\ UNCHANGED <<mode, cursor, emulators, adb, blind>>

(***************************************************************************)
(* The canary: am start, poll dumpsys for the resumed activity until the   *)
(* activity timeout, then read logcat; its Teardown is deferred.           *)
(***************************************************************************)
Launch(r) ==
    /\ \/ Connected(r) /\ Go(r, "launch", "observe") /\ UNCHANGED row
       \/ GiveUp(r, "launch", Failed)
    /\ UNCHANGED <<mode, cursor, emulators, adb, blind>>

ObserveActivity(r) ==
    /\ Go(r, "observe", "logcat")
    /\ \/ /\ Connected(r) /\ SlotOf(r) \in Running           \* resumed
          /\ verdict' = [verdict EXCEPT ![r] = runs[SlotOf(r)]]
       \/ verdict' = [verdict EXCEPT ![r] = Failed]         \* activityTimeout
    /\ UNCHANGED <<mode, cursor, emulators, adb, blind, before, port, results>>

\* Passed = resumed && !fatalDetected; an unreadable logcat shows no crash.
Logcat(r) ==
    /\ \/ GiveUp(r, "logcat", verdict[r])
       \/ Connected(r) /\ GiveUp(r, "logcat", Failed)
    /\ UNCHANGED <<mode, cursor, emulators, adb, blind>>

(***************************************************************************)
(* Teardown: `emu kill' needs the transport; then poll until adb no longer *)
(* lists localhost:<port> as a device (an adb error counts as gone), or    *)
(* the grace ends and KillByPort is given the ADB port.  The callers       *)
(* discard its error.                                                      *)
(***************************************************************************)
EmuKill(r) ==
    /\ \/ /\ Connected(r)
          /\ Go(r, "kill", "poll")
          /\ dying' = dying \cup ({SlotOf(r)} \cap Running)
          /\ UNCHANGED row
       \/ ~Connected(r) /\ Return(r, "kill", verdict[r]) /\ UNCHANGED dying
    /\ UNCHANGED <<mode, cursor, runs, adb, blind>>

TeardownPoll(r) ==
    /\ Return(r, "poll", verdict[r])
    /\ \/ UNCHANGED emulators
       \/ Connected(r) /\ KillByPort(port[r])
    /\ UNCHANGED <<mode, cursor, adb, blind>>

Step(r) ==
    \/ Clean(r)
    \/ ResetADBHygiene(r) \/ Snapshot(r) \/ Start(r)
    \/ Discover(r) \/ DiscoverTimeout(r)
    \/ WaitForBoot(r) \/ WaitTimeout(r)
    \/ Install(r) \/ RunInstrumentation(r)
    \/ Launch(r) \/ ObserveActivity(r) \/ Logcat(r)
    \/ EmuKill(r) \/ TeardownPoll(r)

(***************************************************************************)
(* The adb server tracks emulators: it lists a running one, and drops the  *)
(* transports of one that exited.  `emu kill' answers before the emulator  *)
(* exits.                                                                  *)
(***************************************************************************)
Exits(s) ==
    /\ s \in dying
    /\ runs' = [runs EXCEPT ![s] = None]
    /\ dying' = dying \ {s}
    /\ UNCHANGED <<mode, cursor, stage, adb, blind, row>>

AdbLists(s) ==
    /\ s \in Running \ listed
    /\ listed' = listed \cup {s}
    /\ UNCHANGED <<mode, cursor, stage, emulators, conn, blind, row>>

AdbDrops(s) ==
    /\ s \in (listed \cup conn) \ Running
    /\ listed' = listed \ {s}
    /\ conn' = conn \ {s}
    /\ UNCHANGED <<mode, cursor, stage, emulators, blind, row>>

Finished == \A r \in 1..LastRow : stage[r] = "done"

Next ==
    \/ Take
    \/ \E r \in Rows : Step(r)
    \/ \E s \in Slots : Exits(s) \/ AdbLists(s) \/ AdbDrops(s)

Spec == Init /\ [][Next]_vars

-----------------------------------------------------------------------------

(***************************************************************************)
(* A serial row (the gating mode) or a canary passes only on the emulator  *)
(* of its own AVD, provided the snapshot before the launch saw every emulator     *)
(* that was running.  Discovery by difference is what the comment on Boot  *)
(* calls the fix for runs that tested the first emulator every time.       *)
(***************************************************************************)
TestsItsOwn ==
    \A r \in Rows :
        mode # "concurrent" /\ blind[r] = {} => verdict[r] \in {None, Failed, r}

(***************************************************************************)
(* The developer's emulator outlives the matrix: cleanup, the reap after a *)
(* discovery timeout, the port kill and `emu kill' never reach it unless   *)
(* some row's snapshot missed it.                                          *)
(***************************************************************************)
ForeignSpared ==
    \A s \in Slots :
         runs[s] = Dev /\ runs'[s] # Dev => \E r \in Rows : s \in blind[r]

(***************************************************************************)
(* "Every AVD MUST get a row": when the last runOne has returned RunMatrix *)
(* has collected one row per AVD, none of them twice, in AVD order when    *)
(* serial, each with a verdict.                                            *)
(***************************************************************************)
EveryAVDHasRow ==
    Finished =>
        /\ IsInjective(results)
        /\ ToSet(results) = 1..LastRow
        /\ mode # "concurrent" => results = [i \in 1..LastRow |-> i]
        /\ \A r \in 1..LastRow : verdict[r] # None
=============================================================================
