--------------------------------- MODULE VM ---------------------------------
(***************************************************************************)
(* The QEMU matrix (pkg/vm/matrix.go, qemu.go, teardown.go, clients.go).   *)
(* cmd/vm-matrix wires ONE QEMUVM into the runner, so the rows of a        *)
(* concurrent matrix share its two port counters, its single ssh client    *)
(* (one session, to whichever guest authenticated last, remembered in      *)
(* authedPort) and its single QMP client.  guestMu serialises each guest   *)
(* operation over the whole authenticate-then-execute sequence; authMu is  *)
(* only ever taken inside it and is not modelled.                          *)
(*                                                                         *)
(* Ports are counted from 1.  cmd/vm-matrix passes context.Background(),   *)
(* so no caller cancels.                                                   *)
(***************************************************************************)
EXTENDS Integers, FiniteSets

CONSTANTS
    N,       \* targets of the matrix
    Workers  \* VMMatrixConfig.Concurrent

Rows == 1..N
None == 0

VARIABLES
    cursor,  \* the next target to hand out
    stage,   \* where each row's runOne is
    pc,      \* progress inside a guest operation: "out", "held", "authed"
    sshPort, monPort,          \* BootResult's ports
    nextSSHPort, nextMonPort,  \* the atomic counters
    guestMu, \* the row holding guestMu
    authedPort,
    session, \* the ssh port realSSHClient.client is connected to
    monitor, \* the monitor port realQMPClient.conn is connected to
    qemu,    \* each row's process: "none", "up", "off"
    touched, \* history: ssh and monitor ports a row's operations reached
    passed   \* VMTestResult.Passed

vars == <<cursor, stage, pc, sshPort, monPort, nextSSHPort, nextMonPort, guestMu,
          authedPort, session, monitor, qemu, touched, passed>>
boot == <<sshPort, monPort, nextSSHPort, nextMonPort>>
shared == <<guestMu, authedPort, session, monitor>>

\* Guest operations in the order runOne makes them.
GuestOps == {"network", "diag", "upload", "run", "capture"}
After(op) == CASE op = "network" -> "diag" [] op = "diag" -> "upload"
               [] op = "upload" -> "run" [] op = "run" -> "capture"
               [] op = "capture" -> "screenshot"
Stages == {"queued", "ssh", "mon", "start", "wait"} \cup GuestOps
            \cup {"screenshot", "powerdown", "grace", "close", "done"}

Init ==
    /\ cursor = 1
    /\ stage = [r \in Rows |-> "queued"]
    /\ pc = [r \in Rows |-> "out"]
    /\ sshPort = [r \in Rows |-> None] /\ monPort = [r \in Rows |-> None]
    /\ nextSSHPort = 1 /\ nextMonPort = 1
    /\ guestMu = None
    /\ authedPort = None /\ session = None /\ monitor = None
    /\ qemu = [r \in Rows |-> "none"]
    /\ touched = [r \in Rows |-> {}]
    /\ passed = [r \in Rows |-> FALSE]

Go(r, from, to) == stage[r] = from /\ stage' = [stage EXCEPT ![r] = to]
At(r, where) == pc[r] = where
Upon(port, ports) == {q \in Rows : ports[q] = port /\ qemu[q] = "up"}

Take ==
    /\ cursor <= N
    /\ Cardinality({r \in Rows : stage[r] \notin {"queued", "done"}}) < Workers
    /\ Go(cursor, "queued", "ssh")
    /\ cursor' = cursor + 1
    /\ UNCHANGED <<pc, boot, shared, qemu, touched, passed>>

(***************************************************************************)
(* Boot: two atomic counters, read and bumped one after the other, then    *)
(* StartDetached, which watches the process for a short while.             *)
(***************************************************************************)

BootSSH(r) ==
    /\ Go(r, "ssh", "mon")
    /\ sshPort' = [sshPort EXCEPT ![r] = nextSSHPort]
    /\ nextSSHPort' = nextSSHPort + 1
    /\ UNCHANGED <<cursor, pc, monPort, nextMonPort, shared, qemu, touched, passed>>

BootMon(r) ==
    /\ Go(r, "mon", "start")
    /\ monPort' = [monPort EXCEPT ![r] = nextMonPort]
    /\ nextMonPort' = nextMonPort + 1
    /\ UNCHANGED <<cursor, pc, sshPort, nextSSHPort, shared, qemu, touched, passed>>

StartDetached(r) ==
    /\ \/ Go(r, "start", "wait") /\ qemu' = [qemu EXCEPT ![r] = "up"]
       \/ Go(r, "start", "done") /\ UNCHANGED qemu     \* BootError
    /\ UNCHANGED <<cursor, pc, boot, shared, touched, passed>>

\* The listener answers or bootTimeout ends; a profile error also tears down.
WaitForReady(r) ==
    /\ \/ qemu[r] = "up" /\ Go(r, "wait", "network")
       \/ Go(r, "wait", "powerdown")
    /\ UNCHANGED <<cursor, pc, boot, shared, qemu, touched, passed>>

(***************************************************************************)
(* A guest operation: lock, ensureAuthenticated, execute, unlock (by       *)
(* defer, on every path).  Authenticate replaces the client only after a   *)
(* successful handshake.                                                   *)
(***************************************************************************)
Lock(r) ==
    /\ stage[r] \in GuestOps /\ At(r, "out")
    /\ guestMu = None
    /\ guestMu' = r
    /\ pc' = [pc EXCEPT ![r] = "held"]
    /\ UNCHANGED <<cursor, stage, boot, authedPort, session, monitor, qemu, touched, passed>>

Authenticate(r) ==
    /\ authedPort # sshPort[r]
    /\ qemu[r] = "up"
    /\ authedPort' = sshPort[r] /\ session' = sshPort[r]


ensureAuthenticated(r) ==
    /\ stage[r] \in GuestOps /\ At(r, "held")
    /\ \/ Authenticate(r)
       \/ authedPort = sshPort[r] /\ UNCHANGED <<authedPort, session>>
    /\ pc' = [pc EXCEPT ![r] = "authed"]
    /\ UNCHANGED <<cursor, stage, boot, guestMu, monitor, qemu, touched, passed>>

\* What runOne does with an operation's error: a failed upload ends the row,
\* a failed run is a failed row, everything else is best effort.
Proceed(r, ok) ==
    /\ stage' = [stage EXCEPT ![r] =
                    IF stage[r] = "upload" /\ ~ok THEN "powerdown" ELSE After(stage[r])]
    /\ passed' = [passed EXCEPT ![r] = IF stage[r] = "run" THEN ok ELSE @]
    /\ pc' = [pc EXCEPT ![r] = "out"]
    /\ guestMu' = None
    /\ UNCHANGED <<cursor, boot, authedPort, session, monitor, qemu>>

Execute(r) ==
    /\ At(r, "authed")
    /\ \E ok \in BOOLEAN :
         /\ ok => Upon(session, sshPort) # {}
         /\ Proceed(r, ok)
    /\ touched' = [touched EXCEPT ![r] = @ \cup {<<"ssh", session>>}]

AuthenticateFails(r) ==
    /\ stage[r] \in GuestOps /\ At(r, "held")
    /\ authedPort # sshPort[r]
    /\ Proceed(r, FALSE)
    /\ UNCHANGED touched

(***************************************************************************)
(* CaptureScreenshot, for a failed row when asked for, and stage 1 of      *)
(* Teardown: dial the monitor, command, close, all under guestMu.          *)
(***************************************************************************)
Dial(r) ==
    /\ stage[r] \in {"screenshot", "powerdown"} /\ At(r, "out")
    /\ guestMu = None
    /\ guestMu' = r
    /\ Upon(monPort[r], monPort) # {}
    /\ monitor' = monPort[r]
    /\ pc' = [pc EXCEPT ![r] = "held"]
    /\ UNCHANGED <<cursor, stage, boot, authedPort, session, qemu, touched, passed>>

Command(r) ==
    /\ stage[r] \in {"screenshot", "powerdown"} /\ At(r, "held")
    /\ stage' = [stage EXCEPT ![r] = IF @ = "screenshot" THEN "powerdown" ELSE "grace"]
    /\ touched' = [touched EXCEPT ![r] = @ \cup {<<"mon", monitor>>}]
    /\ monitor' = None
    /\ guestMu' = None
    /\ pc' = [pc EXCEPT ![r] = "out"]
    /\ UNCHANGED <<cursor, boot, authedPort, session, qemu, passed>>

\* No screenshot wanted, or the monitor does not answer.
SkipMonitor(r) ==
    /\ At(r, "out") /\ guestMu = None
    /\ \/ Go(r, "screenshot", "powerdown")
       \/ Go(r, "powerdown", "grace")
    /\ UNCHANGED <<cursor, pc, boot, shared, qemu, touched, passed>>

(***************************************************************************)
(* Stage 3 after the grace: KillByQEMUMonitorPort (see Reaper) on whatever *)
(* carries the monitor port.  Nothing matched, or a survivor, is an error; *)
(* stampTeardownError fails the row.                                       *)
(***************************************************************************)

Kill(r) ==
    LET matched == Upon(monPort[r], monPort) IN
    /\ Go(r, "grace", "close")
    /\ \E killed \in SUBSET matched :
         /\ qemu' = [q \in Rows |-> IF q \in killed THEN "off" ELSE qemu[q]]
         /\ passed' = [passed EXCEPT ![r] = @ /\ matched # {} /\ killed = matched]
    /\ UNCHANGED <<cursor, pc, boot, shared, touched>>

\* The deferred close: only the owner of the session, or nobody's.
Close(r) ==
    /\ Go(r, "close", "done")
    /\ guestMu = None
    /\ \/ /\ authedPort \in {sshPort[r], None}
          /\ session' = None /\ authedPort' = None
       \/ /\ authedPort \notin {sshPort[r], None}
          /\ UNCHANGED <<session, authedPort>>
    /\ UNCHANGED <<cursor, pc, boot, guestMu, monitor, qemu, touched, passed>>

\* The guest shuts down on its own, or QEMU dies.
PowersOff(r) ==
    /\ qemu[r] = "up"
    /\ qemu' = [qemu EXCEPT ![r] = "off"]
    /\ UNCHANGED <<cursor, stage, pc, boot, shared, touched, passed>>

Step(r) ==
    \/ BootSSH(r) \/ BootMon(r) \/ StartDetached(r) \/ WaitForReady(r)
    \/ Lock(r) \/ ensureAuthenticated(r) \/ AuthenticateFails(r) \/ Execute(r)
    \/ Dial(r) \/ Command(r) \/ SkipMonitor(r)
    \/ Kill(r) \/ Close(r)

Next == Take \/ \E r \in Rows : Step(r) \/ PowersOff(r)

Spec == Init /\ [][Next]_vars

-----------------------------------------------------------------------------

(***************************************************************************)
(* "Concurrent Boot calls do NOT collide" (qemu.go): no two rows are given *)
(* the same ssh port or the same monitor port, however their two counter   *)
(* increments interleave.                                                  *)
(***************************************************************************)
PortsDistinct ==
    \A r, q \in Rows :
        r # q => /\ sshPort[r] # None => sshPort[r] # sshPort[q]
                 /\ monPort[r] # None => monPort[r] # monPort[q]

(***************************************************************************)
(* Every guest operation, screenshot and powerdown of a row reaches that   *)
(* row's own guest, although all rows share one ssh session and one QMP    *)
(* connection (the hazard CT-HARDEN-VM-1 of qemu.go names).                *)
(***************************************************************************)
OwnGuest ==
    \A r \in Rows : touched[r] \subseteq {<<"ssh", sshPort[r]>>, <<"mon", monPort[r]>>}

(***************************************************************************)
(* authedPort is a cache: whenever no operation is in flight it is either  *)
(* empty or the port the live session is connected to, so a row that skips *)
(* authentication finds a session to use.                                  *)
(***************************************************************************)
AuthedIsLive == authedPort # None => session = authedPort

(***************************************************************************)
(* A row that passes ran its script, and its virtual machine is gone:      *)
(* "silently lie about successful teardown" is what the comment on         *)
(* Teardown rules out.                                                     *)
(***************************************************************************)
PassMeansGone ==
    \A r \in Rows :
        stage[r] = "done" /\ passed[r]
            => qemu[r] = "off" /\ <<"ssh", sshPort[r]>> \in touched[r]

(***************************************************************************)
(* The finished matrix leaves no ssh session and no monitor connection.    *)
(***************************************************************************)
NoSessionLeft ==
    (\A r \in Rows : stage[r] = "done") => session = None /\ monitor = None
=============================================================================
