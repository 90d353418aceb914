----------------------------- MODULE MCMachines -----------------------------
(***************************************************************************)
(* The components that drive emulators, virtual machines, cross builds,    *)
(* durable jobs and the distributed tests.  They share no state: subject   *)
(* says which one a behaviour is about, the others rest.                   *)
(***************************************************************************)
EXTENDS Integers

CONSTANTS Pids, MaxReuses,
          ImageRows, Zips, MaxAttempts, MaxCrashes,
          N, MaxSlot, Workers,
          MaxPort, Requests, Bakeds,
          Cvds, InstanceName, MaxLaunches,
          MaxWrites, MaxBackends, MaxLost,
          JS, Android

VARIABLES subject,
          reaper, token, proc, comms, at, found, stragglers, terminated, killed, surviving, struck,
          gone, reuses,
          zip, gating, disk, imageAt, next, open, written, attempts, crashes, spoilt,
          mode, cursor, stage, runs, dying, listed, conn, before, blind, port, verdict, results,
          vmCursor, vmStage, pc, sshPort, monPort, nextSSHPort, nextMonPort, guestMu, authedPort,
          session, monitor, qemu, touched, passed,
          factory, boxCursor, boxStage, name, hostPort, keyDir, boxPort, avdName, listing, ctr, bound,
          keys, boxConn, boxVerdict, rmFailed,
          containerName, cvdPc, launches, owner, adb, lost, cvdRmFailed,
          host, backends, serial, buildAt, target, chosen, clock, file, writes, orphans, timedOut,
          pre, since, source, dst, debris, got,
          wants, linger, script, sentinel, log, unit, phase, cur, client, shell, broken, cleaned,
          verified, code, fetched, over, reaped, took,
          testPc, deployOnly, skip, cancelled, testNext, step, own, testResults, summary, exit, broke

Reap == INSTANCE Reaper
Image == INSTANCE SystemImage WITH Rows <- ImageRows, at <- imageAt
Avds == INSTANCE Emulator
Guest == INSTANCE VM WITH cursor <- vmCursor, stage <- vmStage
Box == INSTANCE Containerized WITH cursor <- boxCursor, stage <- boxStage, port <- boxPort,
                                   conn <- boxConn, verdict <- boxVerdict
Cvd == INSTANCE Cuttlefish WITH N <- Cvds, pc <- cvdPc, rmFailed <- cvdRmFailed
Xb == INSTANCE CrossBuild WITH at <- buildAt, killed <- timedOut
Job == INSTANCE DurableJob WITH lost <- broken, verdict <- code
Tests == INSTANCE TestRunner WITH pc <- testPc, next <- testNext, results <- testResults, code <- exit

reaperVars == <<reaper, token, proc, comms, at, found, stragglers, terminated, killed, surviving,
                struck, gone, reuses>>
imageVars == <<zip, gating, disk, imageAt, next, open, written, attempts, crashes, spoilt>>
androidVars == <<mode, cursor, stage, runs, dying, listed, conn, before, blind, port, verdict, results>>
guestVars == <<vmCursor, vmStage, pc, sshPort, monPort, nextSSHPort, nextMonPort, guestMu, authedPort,
               session, monitor, qemu, touched, passed>>
boxVars == <<factory, boxCursor, boxStage, name, hostPort, keyDir, boxPort, avdName, listing, ctr, bound,
             keys, boxConn, boxVerdict, rmFailed>>
cvdVars == <<containerName, cvdPc, launches, owner, adb, lost, cvdRmFailed>>
xbVars == <<host, backends, serial, buildAt, target, chosen, clock, file, writes, orphans, timedOut,
            pre, since, source, dst, debris, got>>
jobVars == <<wants, linger, script, sentinel, log, unit, phase, cur, client, shell, broken, cleaned,
             verified, code, fetched, over, reaped, took>>
testVars == <<testPc, deployOnly, skip, cancelled, testNext, step, own, testResults, summary, exit,
              broke>>
mcVars == <<subject, reaperVars, imageVars, androidVars, guestVars, boxVars, cvdVars, xbVars, jobVars,
            testVars>>

(* A full archive, one whose pair comes last, and one without build.prop.  *)
Archives == {<<"build.prop", "system.img", "vendor.img">>, <<"system.img", "build.prop">>,
             <<"system.img">>}
(* An AVD with an api level and one without.                               *)
Asked == <<[name |-> "phone", api |-> 34], [name |-> "tablet", api |-> 0]>>
Listed == {<<[name |-> "phone", api |-> 34]>>,
           <<[name |-> "default", api |-> 30], [name |-> "tall", api |-> 34]>>,
           <<[name |-> "default", api |-> 0]>>}
(* Two instances contend for one name.                                     *)
CvdNames == <<1, 1, 2>>

At(s, rest) == subject # s => rest

MCInit ==
    /\ subject \in {"reaper", "image", "android", "guest", "box", "cvd", "build", "job", "tests"}
    /\ Reap!Init /\ At("reaper", reaper = "Cleanup" /\ token /\ \A p \in Pids : proc[p] = "none")
    /\ Image!Init /\ At("image", gating /\ zip = <<"system.img">>)
    /\ Avds!Init /\ At("android", mode = "serial" /\ runs[1] = 1)
    /\ Guest!Init
    /\ Box!Init /\ At("box", factory)
    /\ Cvd!Init
    /\ Xb!Init /\ At("build", serial /\ host = "linux/amd64")
    /\ Job!Init /\ At("job", wants /\ linger)
    /\ Tests!Init /\ At("tests", deployOnly /\ skip = {})

OfReaper(A) ==
    /\ subject = "reaper" /\ A
    /\ UNCHANGED <<subject, imageVars, androidVars, guestVars, boxVars, cvdVars, xbVars, jobVars, testVars>>
OfImage(A) ==
    /\ subject = "image" /\ A
    /\ UNCHANGED <<subject, reaperVars, androidVars, guestVars, boxVars, cvdVars, xbVars, jobVars, testVars>>
OfAndroid(A) ==
    /\ subject = "android" /\ A
    /\ UNCHANGED <<subject, reaperVars, imageVars, guestVars, boxVars, cvdVars, xbVars, jobVars, testVars>>
OfGuest(A) ==
    /\ subject = "guest" /\ A
    /\ UNCHANGED <<subject, reaperVars, imageVars, androidVars, boxVars, cvdVars, xbVars, jobVars, testVars>>
OfBox(A) ==
    /\ subject = "box" /\ A
    /\ UNCHANGED <<subject, reaperVars, imageVars, androidVars, guestVars, cvdVars, xbVars, jobVars, testVars>>
OfCvd(A) ==
    /\ subject = "cvd" /\ A
    /\ UNCHANGED <<subject, reaperVars, imageVars, androidVars, guestVars, boxVars, xbVars, jobVars, testVars>>
OfBuild(A) ==
    /\ subject = "build" /\ A
    /\ UNCHANGED <<subject, reaperVars, imageVars, androidVars, guestVars, boxVars, cvdVars, jobVars, testVars>>
OfJob(A) ==
    /\ subject = "job" /\ A
    /\ UNCHANGED <<subject, reaperVars, imageVars, androidVars, guestVars, boxVars, cvdVars, xbVars, testVars>>
OfTests(A) ==
    /\ subject = "tests" /\ A
    /\ UNCHANGED <<subject, reaperVars, imageVars, androidVars, guestVars, boxVars, cvdVars, xbVars, jobVars>>

MCNext ==
    \/ OfReaper(Reap!Next)
    \/ OfImage(Image!Next)
    \/ OfAndroid(Avds!Next)
    \/ OfGuest(Guest!Next)
    \/ OfBox(Box!Next)
    \/ OfCvd(Cvd!Next)
    \/ OfBuild(Xb!Next)
    \/ OfJob(Job!Next)
    \/ OfTests(Tests!Next)

MCSpec == MCInit /\ [][MCNext]_mcVars


(***************************************************************************)
(* Nothing is ended by a stranger: the matrix spares the developer's        *)
(* emulator, a container is removed by its own row, Stop removes its own    *)
(* instance's container, a job verified as lingering survives the logout,   *)
(* and the reapers signal the processes they own only.                      *)
(***************************************************************************)
EndedByItsOwner ==
    [][/\ Avds!ForeignSpared
       /\ Box!OnlyOwnRemoved
       /\ Cvd!StopsItsOwn
       /\ Job!VerifiedSurvives
       /\ Reap!OnlyOwnedStruck']_mcVars



=============================================================================
