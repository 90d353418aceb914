------------------------- MODULE ConnectionPoolProofs -------------------------
(***************************************************************************)
(* TLAPS proofs about ConnectionPool, for any hosts and calls.             *)
(***************************************************************************)
EXTENDS ConnectionPool, FiniteSetTheorems, TLAPS

Dialling == {"recheck", "dial", "insert"}

(* The per-host dial lock is held exactly while a call is between LockDial *)
(* and the end of its Acquire.                                             *)
LockHeld == \A c \in Calls : pc[c] \in Dialling => dialLock[host[c]] = c

(* Nobody can put an entry in p.active while a call dials for the host. *)
DialAlone == \A c \in Calls : pc[c] \in {"dial", "insert"} => pooled[host[c]] = None

(* An entry belongs to a call for its host that has inserted it, and its   *)
(* master has not been asked to exit.                                      *)
EntryOK ==
    \A h \in Hosts : pooled[h] # None =>
        /\ host[pooled[h]] = h
        /\ pc[pooled[h]] \in {"command", "done"}
        /\ pooled[h] \notin abandoned

(* A socket belongs to the entry of its host, or to the one about to be    *)
(* inserted.                                                               *)
SocketOK ==
    \A h \in Hosts : socket[h] # None =>
        /\ host[socket[h]] = h
        /\ pc[socket[h]] = "insert" \/ pooled[h] = socket[h]

(* A master that is in p.active, or about to be, listens on its socket. *)
MasterOK ==
    \A m \in masters :
        /\ pc[m] \in {"insert", "command", "done"}
        /\ pooled[host[m]] = m \/ pc[m] = "insert" => socket[host[m]] = m

AbandonedOK == \A m \in abandoned : pc[m] \in {"command", "done"}

Links ==
    /\ LockHeld
    /\ DialAlone
    /\ EntryOK
    /\ SocketOK
    /\ MasterOK
    /\ AbandonedOK
    /\ MastersTracked

(* The inductive invariant. *)
PoolInv == TypeOK /\ Links

(* The steps of Acquire, Execute, ExecuteStream, CopyFile, CopyDir, Close  *)
(* and CloseHost, and the death of a master, keep the types.               *)
LEMMA TypeStep == ASSUME TypeOK, [Next]_vars PROVE TypeOK'
<1> USE ConnectionPoolAssumption
<1>1. ASSUME NEW c \in Calls, NEW h \in Hosts, Call(c, h) PROVE TypeOK'
  BY <1>1 DEF TypeOK, Call, poolVars, sshVars
<1>2. ASSUME NEW c \in Calls, AcquireFast(c) PROVE TypeOK'
  BY <1>2 DEF TypeOK, AcquireFast, Reuse, Evict, sshVars
<1>3. ASSUME NEW c \in Calls, LockDial(c) PROVE TypeOK'
  BY <1>3 DEF TypeOK, LockDial, DialLock, sshVars
<1>4. ASSUME NEW c \in Calls, Recheck(c) PROVE TypeOK'
  BY <1>4 DEF TypeOK, Recheck, Reuse, Evict, FallBack, UnlockDial, DialLock, sshVars
<1>5. ASSUME NEW c \in Calls, DialOk(c) PROVE TypeOK'
  BY <1>5 DEF TypeOK, DialOk, poolVars
<1>6. ASSUME NEW c \in Calls, DialFails(c) PROVE TypeOK'
  BY <1>6 DEF TypeOK, DialFails, FallBack, UnlockDial, DialLock, sshVars
<1>7. ASSUME NEW c \in Calls, Insert(c) PROVE TypeOK'
  BY <1>7 DEF TypeOK, Insert, UnlockDial, DialLock, sshVars
<1>8. ASSUME NEW c \in Calls, Finish(c) \/ CloseStream(c) PROVE TypeOK'
  BY <1>8 DEF TypeOK, Finish, CloseStream, Release, sshVars
<1>9. ASSUME NEW hs \in SUBSET Hosts, NEW stay \in SUBSET Live(hs), CloseEntries(hs, stay)
      PROVE TypeOK'
  BY <1>9 DEF TypeOK, CloseEntries, Live, callVars
<1>10. ASSUME NEW m \in Calls, MasterDies(m) PROVE TypeOK'
  BY <1>10 DEF TypeOK, MasterDies, callVars, poolVars
<1>11. CASE UNCHANGED vars
  BY <1>11 DEF TypeOK, vars, callVars, poolVars, sshVars
<1>12. ASSUME NEW h \in Hosts, CloseHost(h) PROVE TypeOK'
  BY <1>9, <1>12 DEF CloseHost
<1>13. CASE Close
  BY <1>9, <1>13 DEF Close
<1>14. QED
  BY <1>1, <1>2, <1>3, <1>4, <1>5, <1>6, <1>7, <1>8, <1>10, <1>11, <1>12, <1>13 DEF Next, Step

(* They keep the links between the calls, p.active, the sockets and the    *)
(* masters.                                                                *)
LEMMA LinksStep == ASSUME PoolInv, [Next]_vars PROVE Links'
<1> USE ConnectionPoolAssumption
<1>t. TypeOK /\ TypeOK'
  BY TypeStep DEF PoolInv
<1>LockHeld. LockHeld
  BY DEF PoolInv, Links
<1>DialAlone. DialAlone
  BY DEF PoolInv, Links
<1>EntryOK. EntryOK
  BY DEF PoolInv, Links
<1>SocketOK. SocketOK
  BY DEF PoolInv, Links
<1>MasterOK. MasterOK
  BY DEF PoolInv, Links
<1>AbandonedOK. AbandonedOK
  BY DEF PoolInv, Links
<1>MastersTracked. MastersTracked
  BY DEF PoolInv, Links
<1>1. ASSUME NEW c \in Calls, NEW h \in Hosts, Call(c, h)
      PROVE Links'
  <2>1. LockHeld'
    BY ONLY ConnectionPoolAssumption, <1>t, <1>LockHeld, <1>1, c \in Calls
    DEF TypeOK, LockHeld, Dialling, Call, poolVars, sshVars
  <2>2. DialAlone'
    BY ONLY ConnectionPoolAssumption, <1>t, <1>DialAlone, <1>1, c \in Calls
    DEF TypeOK, DialAlone, Call, poolVars, sshVars
  <2>3. EntryOK'
    BY ONLY ConnectionPoolAssumption, <1>t, <1>EntryOK, <1>1, c \in Calls
    DEF TypeOK, EntryOK, Call, poolVars, sshVars
  <2>4. SocketOK'
    BY ONLY ConnectionPoolAssumption, <1>t, <1>SocketOK, <1>EntryOK, <1>1, c \in Calls
    DEF TypeOK, SocketOK, EntryOK, Call, poolVars, sshVars
  <2>5. MasterOK'
    BY ONLY ConnectionPoolAssumption, <1>t, <1>MasterOK, <1>1, c \in Calls
    DEF TypeOK, MasterOK, Call, poolVars, sshVars
  <2>6. AbandonedOK'
    BY ONLY ConnectionPoolAssumption, <1>t, <1>AbandonedOK, <1>1, c \in Calls
    DEF TypeOK, AbandonedOK, Call, poolVars, sshVars
  <2>7. MastersTracked'
    BY ONLY ConnectionPoolAssumption, <1>t, <1>MastersTracked, <1>MasterOK, <1>1, c \in Calls
    DEF TypeOK, MastersTracked, MasterOK, Call, poolVars, sshVars
  <2> QED
    BY <2>1, <2>2, <2>3, <2>4, <2>5, <2>6, <2>7 DEF Links
<1>2. ASSUME NEW c \in Calls, AcquireFast(c)
      PROVE Links'
  <2>1. LockHeld'
    BY ONLY ConnectionPoolAssumption, <1>t, <1>LockHeld, <1>2, c \in Calls
    DEF TypeOK, LockHeld, Dialling, AcquireFast, Reusable, Reuse, Evict, sshVars
  <2>2. DialAlone'
    BY ONLY ConnectionPoolAssumption, <1>t, <1>DialAlone, <1>LockHeld, <1>2, c \in Calls
    DEF TypeOK, DialAlone, LockHeld, Dialling, AcquireFast, Reusable, Reuse, Evict, sshVars
  <2>3. EntryOK'
    BY ONLY ConnectionPoolAssumption, <1>t, <1>EntryOK, <1>AbandonedOK, <1>2, c \in Calls
    DEF TypeOK, EntryOK, AbandonedOK, AcquireFast, Reusable, Reuse, Evict, sshVars
  <2>4. SocketOK'
    BY ONLY ConnectionPoolAssumption, <1>t, <1>SocketOK, <1>LockHeld, <1>DialAlone, <1>2, c \in Calls
    DEF TypeOK, SocketOK, LockHeld, DialAlone, Dialling, AcquireFast, Reusable, Reuse, Evict, sshVars
  <2>5. MasterOK'
    BY ONLY ConnectionPoolAssumption, <1>t, <1>MasterOK, <1>SocketOK, <1>LockHeld, <1>DialAlone, <1>EntryOK, <1>2, c \in Calls
    DEF TypeOK, MasterOK, SocketOK, LockHeld, DialAlone, EntryOK, Dialling, AcquireFast, Reusable, Reuse, Evict, sshVars
  <2>6. AbandonedOK'
    BY ONLY ConnectionPoolAssumption, <1>t, <1>AbandonedOK, <1>EntryOK, <1>2, c \in Calls
    DEF TypeOK, AbandonedOK, EntryOK, AcquireFast, Reusable, Reuse, Evict, sshVars
  <2>7. MastersTracked'
    BY ONLY ConnectionPoolAssumption, <1>t, <1>MastersTracked, <1>MasterOK, <1>DialAlone, <1>2, c \in Calls
    DEF TypeOK, MastersTracked, MasterOK, DialAlone, AcquireFast, Reusable, Reuse, Evict, sshVars
  <2> QED
    BY <2>1, <2>2, <2>3, <2>4, <2>5, <2>6, <2>7 DEF Links
<1>3. ASSUME NEW c \in Calls, LockDial(c)
      PROVE Links'
  <2>1. LockHeld'
    BY ONLY ConnectionPoolAssumption, <1>t, <1>LockHeld, <1>3, c \in Calls
    DEF TypeOK, LockHeld, Dialling, LockDial, DialLock, sshVars
  <2>2. DialAlone'
    BY ONLY ConnectionPoolAssumption, <1>t, <1>DialAlone, <1>LockHeld, <1>3, c \in Calls
    DEF TypeOK, DialAlone, LockHeld, Dialling, LockDial, DialLock, sshVars
  <2>3. EntryOK'
    BY ONLY ConnectionPoolAssumption, <1>t, <1>EntryOK, <1>AbandonedOK, <1>3, c \in Calls
    DEF TypeOK, EntryOK, AbandonedOK, LockDial, DialLock, sshVars
  <2>4. SocketOK'
    BY ONLY ConnectionPoolAssumption, <1>t, <1>SocketOK, <1>LockHeld, <1>DialAlone, <1>3, c \in Calls
    DEF TypeOK, SocketOK, LockHeld, DialAlone, Dialling, LockDial, DialLock, sshVars
  <2>5. MasterOK'
    BY ONLY ConnectionPoolAssumption, <1>t, <1>MasterOK, <1>SocketOK, <1>LockHeld, <1>DialAlone, <1>EntryOK, <1>3, c \in Calls
    DEF TypeOK, MasterOK, SocketOK, LockHeld, DialAlone, EntryOK, Dialling, LockDial, DialLock, sshVars
  <2>6. AbandonedOK'
    BY ONLY ConnectionPoolAssumption, <1>t, <1>AbandonedOK, <1>EntryOK, <1>3, c \in Calls
    DEF TypeOK, AbandonedOK, EntryOK, LockDial, DialLock, sshVars
  <2>7. MastersTracked'
    BY ONLY ConnectionPoolAssumption, <1>t, <1>MastersTracked, <1>MasterOK, <1>DialAlone, <1>3, c \in Calls
    DEF TypeOK, MastersTracked, MasterOK, DialAlone, LockDial, DialLock, sshVars
  <2> QED
    BY <2>1, <2>2, <2>3, <2>4, <2>5, <2>6, <2>7 DEF Links
<1>4. ASSUME NEW c \in Calls, Recheck(c)
      PROVE Links'
  <2>1. LockHeld'
    BY ONLY ConnectionPoolAssumption, <1>t, <1>LockHeld, <1>4, c \in Calls
    DEF TypeOK, LockHeld, Dialling, Recheck, Reusable, Reuse, Evict, FallBack, UnlockDial, DialLock, sshVars
  <2>2. DialAlone'
    BY ONLY ConnectionPoolAssumption, <1>t, <1>DialAlone, <1>LockHeld, <1>4, c \in Calls
    DEF TypeOK, DialAlone, LockHeld, Dialling, Recheck, Reusable, Reuse, Evict, FallBack, UnlockDial, DialLock, sshVars
  <2>3. EntryOK'
    BY ONLY ConnectionPoolAssumption, <1>t, <1>EntryOK, <1>AbandonedOK, <1>4, c \in Calls
    DEF TypeOK, EntryOK, AbandonedOK, Recheck, Reusable, Reuse, Evict, FallBack, UnlockDial, DialLock, sshVars
  <2>4. SocketOK'
    BY ONLY ConnectionPoolAssumption, <1>t, <1>SocketOK, <1>LockHeld, <1>DialAlone, <1>4, c \in Calls
    DEF TypeOK, SocketOK, LockHeld, DialAlone, Dialling, Recheck, Reusable, Reuse, Evict, FallBack, UnlockDial, DialLock, sshVars
  <2>5. MasterOK'
    BY ONLY ConnectionPoolAssumption, <1>t, <1>MasterOK, <1>SocketOK, <1>LockHeld, <1>DialAlone, <1>EntryOK, <1>4, c \in Calls
    DEF TypeOK, MasterOK, SocketOK, LockHeld, DialAlone, EntryOK, Dialling, Recheck, Reusable, Reuse, Evict, FallBack, UnlockDial, DialLock, sshVars
  <2>6. AbandonedOK'
    BY ONLY ConnectionPoolAssumption, <1>t, <1>AbandonedOK, <1>EntryOK, <1>4, c \in Calls
    DEF TypeOK, AbandonedOK, EntryOK, Recheck, Reusable, Reuse, Evict, FallBack, UnlockDial, DialLock, sshVars
  <2>7. MastersTracked'
    BY ONLY ConnectionPoolAssumption, <1>t, <1>MastersTracked, <1>MasterOK, <1>DialAlone, <1>4, c \in Calls
    DEF TypeOK, MastersTracked, MasterOK, DialAlone, Recheck, Reusable, Reuse, Evict, FallBack, UnlockDial, DialLock, sshVars
  <2> QED
    BY <2>1, <2>2, <2>3, <2>4, <2>5, <2>6, <2>7 DEF Links
<1>5. ASSUME NEW c \in Calls, DialOk(c)
      PROVE Links'
  <2>1. LockHeld'
    BY ONLY ConnectionPoolAssumption, <1>t, <1>LockHeld, <1>5, c \in Calls
    DEF TypeOK, LockHeld, Dialling, DialOk, poolVars
  <2>2. DialAlone'
    BY ONLY ConnectionPoolAssumption, <1>t, <1>DialAlone, <1>LockHeld, <1>5, c \in Calls
    DEF TypeOK, DialAlone, LockHeld, Dialling, DialOk, poolVars
  <2>3. EntryOK'
    BY ONLY ConnectionPoolAssumption, <1>t, <1>EntryOK, <1>AbandonedOK, <1>5, c \in Calls
    DEF TypeOK, EntryOK, AbandonedOK, DialOk, poolVars
  <2>4. SocketOK'
    BY ONLY ConnectionPoolAssumption, <1>t, <1>SocketOK, <1>LockHeld, <1>DialAlone, <1>5, c \in Calls
    DEF TypeOK, SocketOK, LockHeld, DialAlone, Dialling, DialOk, poolVars
  <2>5. MasterOK'
    BY ONLY ConnectionPoolAssumption, <1>t, <1>MasterOK, <1>SocketOK, <1>LockHeld, <1>DialAlone, <1>EntryOK, <1>5, c \in Calls
    DEF TypeOK, MasterOK, SocketOK, LockHeld, DialAlone, EntryOK, Dialling, DialOk, poolVars
  <2>6. AbandonedOK'
    BY ONLY ConnectionPoolAssumption, <1>t, <1>AbandonedOK, <1>EntryOK, <1>5, c \in Calls
    DEF TypeOK, AbandonedOK, EntryOK, DialOk, poolVars
  <2>7. MastersTracked'
    BY ONLY ConnectionPoolAssumption, <1>t, <1>MastersTracked, <1>MasterOK, <1>DialAlone, <1>5, c \in Calls
    DEF TypeOK, MastersTracked, MasterOK, DialAlone, DialOk, poolVars
  <2> QED
    BY <2>1, <2>2, <2>3, <2>4, <2>5, <2>6, <2>7 DEF Links
<1>6. ASSUME NEW c \in Calls, DialFails(c)
      PROVE Links'
  <2>1. LockHeld'
    BY ONLY ConnectionPoolAssumption, <1>t, <1>LockHeld, <1>6, c \in Calls
    DEF TypeOK, LockHeld, Dialling, DialFails, FallBack, UnlockDial, DialLock, sshVars
  <2>2. DialAlone'
    BY ONLY ConnectionPoolAssumption, <1>t, <1>DialAlone, <1>6, c \in Calls
    DEF TypeOK, DialAlone, DialFails, FallBack, UnlockDial, DialLock, sshVars
  <2>3. EntryOK'
    BY ONLY ConnectionPoolAssumption, <1>t, <1>EntryOK, <1>6, c \in Calls
    DEF TypeOK, EntryOK, DialFails, FallBack, UnlockDial, DialLock, sshVars
  <2>4. SocketOK'
    BY ONLY ConnectionPoolAssumption, <1>t, <1>SocketOK, <1>6, c \in Calls
    DEF TypeOK, SocketOK, DialFails, FallBack, UnlockDial, DialLock, sshVars
  <2>5. MasterOK'
    BY ONLY ConnectionPoolAssumption, <1>t, <1>MasterOK, <1>6, c \in Calls
    DEF TypeOK, MasterOK, DialFails, FallBack, UnlockDial, DialLock, sshVars
  <2>6. AbandonedOK'
    BY ONLY ConnectionPoolAssumption, <1>t, <1>AbandonedOK, <1>6, c \in Calls
    DEF TypeOK, AbandonedOK, DialFails, FallBack, UnlockDial, DialLock, sshVars
  <2>7. MastersTracked'
    BY ONLY ConnectionPoolAssumption, <1>t, <1>MastersTracked, <1>6, c \in Calls
    DEF TypeOK, MastersTracked, DialFails, FallBack, UnlockDial, DialLock, sshVars
  <2> QED
    BY <2>1, <2>2, <2>3, <2>4, <2>5, <2>6, <2>7 DEF Links
<1>7. ASSUME NEW c \in Calls, Insert(c)
      PROVE Links'
  <2>1. LockHeld'
    BY ONLY ConnectionPoolAssumption, <1>t, <1>LockHeld, <1>7, c \in Calls
    DEF TypeOK, LockHeld, Dialling, Insert, UnlockDial, DialLock, sshVars
  <2>2. DialAlone'
    BY ONLY ConnectionPoolAssumption, <1>t, <1>DialAlone, <1>LockHeld, <1>7, c \in Calls
    DEF TypeOK, DialAlone, LockHeld, Dialling, Insert, UnlockDial, DialLock, sshVars
  <2>3. EntryOK'
    BY ONLY ConnectionPoolAssumption, <1>t, <1>EntryOK, <1>AbandonedOK, <1>7, c \in Calls
    DEF TypeOK, EntryOK, AbandonedOK, Insert, UnlockDial, DialLock, sshVars
  <2>4. SocketOK'
    BY ONLY ConnectionPoolAssumption, <1>t, <1>SocketOK, <1>LockHeld, <1>DialAlone, <1>7, c \in Calls
    DEF TypeOK, SocketOK, LockHeld, DialAlone, Dialling, Insert, UnlockDial, DialLock, sshVars
  <2>5. MasterOK'
    BY ONLY ConnectionPoolAssumption, <1>t, <1>MasterOK, <1>SocketOK, <1>LockHeld, <1>DialAlone, <1>EntryOK, <1>7, c \in Calls
    DEF TypeOK, MasterOK, SocketOK, LockHeld, DialAlone, EntryOK, Dialling, Insert, UnlockDial, DialLock, sshVars
  <2>6. AbandonedOK'
    BY ONLY ConnectionPoolAssumption, <1>t, <1>AbandonedOK, <1>EntryOK, <1>7, c \in Calls
    DEF TypeOK, AbandonedOK, EntryOK, Insert, UnlockDial, DialLock, sshVars
  <2>7. MastersTracked'
    BY ONLY ConnectionPoolAssumption, <1>t, <1>MastersTracked, <1>MasterOK, <1>DialAlone, <1>7, c \in Calls
    DEF TypeOK, MastersTracked, MasterOK, DialAlone, Insert, UnlockDial, DialLock, sshVars
  <2> QED
    BY <2>1, <2>2, <2>3, <2>4, <2>5, <2>6, <2>7 DEF Links
<1>8. ASSUME NEW c \in Calls, Finish(c) \/ CloseStream(c)
      PROVE Links'
  <2>1. LockHeld'
    BY ONLY ConnectionPoolAssumption, <1>t, <1>LockHeld, <1>8, c \in Calls
    DEF TypeOK, LockHeld, Dialling, Finish, CloseStream, sshVars
  <2>2. DialAlone'
    BY ONLY ConnectionPoolAssumption, <1>t, <1>DialAlone, <1>8, c \in Calls
    DEF TypeOK, DialAlone, Finish, CloseStream, sshVars
  <2>3. EntryOK'
    BY ONLY ConnectionPoolAssumption, <1>t, <1>EntryOK, <1>8, c \in Calls
    DEF TypeOK, EntryOK, Finish, CloseStream, sshVars
  <2>4. SocketOK'
    BY ONLY ConnectionPoolAssumption, <1>t, <1>SocketOK, <1>8, c \in Calls
    DEF TypeOK, SocketOK, Finish, CloseStream, sshVars
  <2>5. MasterOK'
    BY ONLY ConnectionPoolAssumption, <1>t, <1>MasterOK, <1>8, c \in Calls
    DEF TypeOK, MasterOK, Finish, CloseStream, sshVars
  <2>6. AbandonedOK'
    BY ONLY ConnectionPoolAssumption, <1>t, <1>AbandonedOK, <1>8, c \in Calls
    DEF TypeOK, AbandonedOK, Finish, CloseStream, sshVars
  <2>7. MastersTracked'
    BY ONLY ConnectionPoolAssumption, <1>t, <1>MastersTracked, <1>8, c \in Calls
    DEF TypeOK, MastersTracked, Finish, CloseStream, sshVars
  <2> QED
    BY <2>1, <2>2, <2>3, <2>4, <2>5, <2>6, <2>7 DEF Links
<1>9. ASSUME NEW hs \in SUBSET {h \in Hosts : pooled[h] # None},
             NEW stay \in SUBSET Live(hs), CloseEntries(hs, stay)
      PROVE Links'
  <2>1. LockHeld'
    BY ONLY ConnectionPoolAssumption, <1>t, <1>LockHeld, <1>9
    DEF TypeOK, LockHeld, Dialling, CloseEntries, Live, callVars
  <2>2. DialAlone'
    BY ONLY ConnectionPoolAssumption, <1>t, <1>DialAlone, <1>LockHeld, <1>9
    DEF TypeOK, DialAlone, LockHeld, Dialling, CloseEntries, Live, callVars
  <2>3. EntryOK'
    BY ONLY ConnectionPoolAssumption, <1>t, <1>EntryOK, <1>AbandonedOK, <1>9
    DEF TypeOK, EntryOK, AbandonedOK, CloseEntries, Live, callVars
  <2>4. SocketOK'
    BY ONLY ConnectionPoolAssumption, <1>t, <1>SocketOK, <1>LockHeld, <1>DialAlone, <1>9
    DEF TypeOK, SocketOK, LockHeld, DialAlone, Dialling, CloseEntries, Live, callVars
  <2>5. MasterOK'
    BY ONLY ConnectionPoolAssumption, <1>t, <1>MasterOK, <1>SocketOK, <1>LockHeld, <1>DialAlone, <1>EntryOK, <1>9
    DEF TypeOK, MasterOK, SocketOK, LockHeld, DialAlone, EntryOK, Dialling, CloseEntries, Live, callVars
  <2>6. AbandonedOK'
    BY ONLY ConnectionPoolAssumption, <1>t, <1>AbandonedOK, <1>EntryOK, <1>9
    DEF TypeOK, AbandonedOK, EntryOK, CloseEntries, Live, callVars
  <2>7. MastersTracked'
    BY ONLY ConnectionPoolAssumption, <1>t, <1>MastersTracked, <1>MasterOK, <1>DialAlone, <1>9
    DEF TypeOK, MastersTracked, MasterOK, DialAlone, CloseEntries, Live, callVars
  <2> QED
    BY <2>1, <2>2, <2>3, <2>4, <2>5, <2>6, <2>7 DEF Links
<1>10. ASSUME NEW m \in Calls, MasterDies(m)
      PROVE Links'
  <2>1. LockHeld'
    BY ONLY ConnectionPoolAssumption, <1>t, <1>LockHeld, <1>10
    DEF TypeOK, LockHeld, Dialling, MasterDies, callVars, poolVars
  <2>2. DialAlone'
    BY ONLY ConnectionPoolAssumption, <1>t, <1>DialAlone, <1>LockHeld, <1>10
    DEF TypeOK, DialAlone, LockHeld, Dialling, MasterDies, callVars, poolVars
  <2>3. EntryOK'
    BY ONLY ConnectionPoolAssumption, <1>t, <1>EntryOK, <1>AbandonedOK, <1>10
    DEF TypeOK, EntryOK, AbandonedOK, MasterDies, callVars, poolVars
  <2>4. SocketOK'
    BY ONLY ConnectionPoolAssumption, <1>t, <1>SocketOK, <1>LockHeld, <1>DialAlone, <1>10
    DEF TypeOK, SocketOK, LockHeld, DialAlone, Dialling, MasterDies, callVars, poolVars
  <2>5. MasterOK'
    BY ONLY ConnectionPoolAssumption, <1>t, <1>MasterOK, <1>SocketOK, <1>LockHeld, <1>DialAlone, <1>EntryOK, <1>10
    DEF TypeOK, MasterOK, SocketOK, LockHeld, DialAlone, EntryOK, Dialling, MasterDies, callVars, poolVars
  <2>6. AbandonedOK'
    BY ONLY ConnectionPoolAssumption, <1>t, <1>AbandonedOK, <1>EntryOK, <1>10
    DEF TypeOK, AbandonedOK, EntryOK, MasterDies, callVars, poolVars
  <2>7. MastersTracked'
    BY ONLY ConnectionPoolAssumption, <1>t, <1>MastersTracked, <1>MasterOK, <1>DialAlone, <1>10
    DEF TypeOK, MastersTracked, MasterOK, DialAlone, MasterDies, callVars, poolVars
  <2> QED
    BY <2>1, <2>2, <2>3, <2>4, <2>5, <2>6, <2>7 DEF Links
<1>11. CASE UNCHANGED vars
  <2>1. LockHeld'
    BY ONLY ConnectionPoolAssumption, <1>t, <1>LockHeld, <1>11
    DEF TypeOK, LockHeld, Dialling, vars, callVars, poolVars, sshVars
  <2>2. DialAlone'
    BY ONLY ConnectionPoolAssumption, <1>t, <1>DialAlone, <1>11
    DEF TypeOK, DialAlone, vars, callVars, poolVars, sshVars
  <2>3. EntryOK'
    BY ONLY ConnectionPoolAssumption, <1>t, <1>EntryOK, <1>11
    DEF TypeOK, EntryOK, vars, callVars, poolVars, sshVars
  <2>4. SocketOK'
    BY ONLY ConnectionPoolAssumption, <1>t, <1>SocketOK, <1>11
    DEF TypeOK, SocketOK, vars, callVars, poolVars, sshVars
  <2>5. MasterOK'
    BY ONLY ConnectionPoolAssumption, <1>t, <1>MasterOK, <1>11
    DEF TypeOK, MasterOK, vars, callVars, poolVars, sshVars
  <2>6. AbandonedOK'
    BY ONLY ConnectionPoolAssumption, <1>t, <1>AbandonedOK, <1>11
    DEF TypeOK, AbandonedOK, vars, callVars, poolVars, sshVars
  <2>7. MastersTracked'
    BY ONLY ConnectionPoolAssumption, <1>t, <1>MastersTracked, <1>11
    DEF TypeOK, MastersTracked, vars, callVars, poolVars, sshVars
  <2> QED
    BY <2>1, <2>2, <2>3, <2>4, <2>5, <2>6, <2>7 DEF Links
<1>12. ASSUME NEW h \in Hosts, CloseHost(h) PROVE Links'
  BY <1>9, <1>12 DEF CloseHost
<1>13. CASE Close
  BY <1>9, <1>13 DEF Close
<1>14. QED
  BY <1>1, <1>2, <1>3, <1>4, <1>5, <1>6, <1>7, <1>8, <1>10, <1>11, <1>12, <1>13 DEF Next, Step

(* The inductive invariant holds of every state. *)
LEMMA PoolInvariant == Spec => []PoolInv
<1>1. Init => PoolInv
  BY ConnectionPoolAssumption DEF Init, PoolInv, TypeOK, Links, LockHeld, DialAlone, EntryOK, SocketOK, MasterOK, AbandonedOK, MastersTracked, Dialling
<1>2. PoolInv /\ [Next]_vars => PoolInv'
  BY TypeStep, LinksStep DEF PoolInv
<1>3. QED
  BY <1>1, <1>2, PTL DEF Spec

(* A call that counted on a master is past its Acquire, and the master was *)
(* inserted for the same host.                                             *)
HeldOK ==
    \A c \in Calls : held[c] # None =>
        /\ pc[c] \in {"command", "done"}
        /\ pc[held[c]] \in {"command", "done"}
        /\ host[held[c]] = host[c]

(* Acquire counts on an entry that is inserted, or inserts its own, and a  *)
(* call never changes its host.                                            *)
LEMMA HeldStep == ASSUME PoolInv, HeldOK, [Next]_vars PROVE HeldOK'
<1> USE ConnectionPoolAssumption DEF PoolInv, TypeOK, HeldOK
<1>1. ASSUME NEW c \in Calls, NEW h \in Hosts, Call(c, h) PROVE HeldOK'
  BY <1>1 DEF Call
<1>2. ASSUME NEW c \in Calls, AcquireFast(c) PROVE HeldOK'
  BY <1>2 DEF AcquireFast, Reusable, Reuse, Links, EntryOK
<1>3. ASSUME NEW c \in Calls, LockDial(c) PROVE HeldOK'
  BY <1>3 DEF LockDial
<1>4. ASSUME NEW c \in Calls, Recheck(c) PROVE HeldOK'
  BY <1>4 DEF Recheck, Reusable, Reuse, FallBack, Links, EntryOK
<1>5. ASSUME NEW c \in Calls, DialOk(c) PROVE HeldOK'
  BY <1>5 DEF DialOk
<1>6. ASSUME NEW c \in Calls, DialFails(c) PROVE HeldOK'
  BY <1>6 DEF DialFails, FallBack
<1>7. ASSUME NEW c \in Calls, Insert(c) PROVE HeldOK'
  BY <1>7 DEF Insert
<1>8. ASSUME NEW c \in Calls, Finish(c) \/ CloseStream(c) PROVE HeldOK'
  BY <1>8 DEF Finish, CloseStream
<1>9. ASSUME UNCHANGED callVars PROVE HeldOK'
  BY <1>9 DEF callVars
<1>10. QED
  BY <1>1, <1>2, <1>3, <1>4, <1>5, <1>6, <1>7, <1>8, <1>9
  DEF Next, Step, CloseHost, Close, CloseEntries, MasterDies, vars

(* There are finitely many calls, so the holders of a master are counted.  *)
LEMMA HoldersFinite ==
    ASSUME NEW m
    PROVE  IsFiniteSet(Holders(m)) /\ Cardinality(Holders(m)) \in Nat
<1>1. IsFiniteSet(Holders(m))
  BY ConnectionPoolAssumption, FS_Subset DEF Holders
<1>2. QED
  BY <1>1, FS_CardinalityType

(* A call that takes up an entry joins its holders and is counted.         *)
LEMMA ReuseCounts ==
    ASSUME PoolInv, RefsCountHolders, HeldOK, NEW c \in Calls, pc[c] \in {"acquire", "recheck"},
           Reusable(host[c]), Reuse(c), UNCHANGED <<host, foreign>>
    PROVE  RefsCountHolders'
<1> USE ConnectionPoolAssumption DEF PoolInv, TypeOK
<1> DEFINE m == pooled[host[c]]
<1>1. m \in Calls /\ host[c] \in Hosts /\ \A h \in Hosts : pooled[h] = m => h = host[c]
  BY DEF Reusable, Links, EntryOK
<1>2. c \notin Holders(m) /\ Holders(m)' = Holders(m) \cup {c}
  BY <1>1 DEF Holders, Reuse
<1>3. Cardinality(Holders(m)') = Cardinality(Holders(m)) + 1
  BY <1>2, HoldersFinite, FS_AddElement
<1>4. ASSUME NEW h \in Hosts, h # host[c], pooled[h] # None
      PROVE Holders(pooled[h])' = Holders(pooled[h])
  BY <1>1, <1>4 DEF Holders, Reuse
<1>5. ASSUME NEW h \in Hosts, pooled[h] # None
      PROVE /\ refs'[h] <= Cardinality(Holders(pooled[h])')
            /\ pooled[h] \notin foreign => refs'[h] = Cardinality(Holders(pooled[h])')
  <2>1. CASE h = host[c]
    BY <1>1, <1>3, <1>5, <2>1, HoldersFinite DEF RefsCountHolders, Reuse
  <2>2. CASE h # host[c]
    BY <1>4, <1>5, <2>2 DEF RefsCountHolders, Reuse
  <2>3. QED  BY <2>1, <2>2
<1>6. QED
  BY <1>5 DEF RefsCountHolders, Holders, Reuse

(* The pool's state is well typed and no refs goes below zero, whatever    *)
(* calls race Release, Close and CloseHost.                                *)
THEOREM PoolTypeCorrect == Spec => []TypeOK
<1>1. PoolInv => TypeOK
  BY DEF PoolInv
<1>2. QED
  BY <1>1, PoolInvariant, PTL

(* No ControlMaster gets out of the reach of Close and CloseHost unless it *)
(* has ignored them.                                                       *)
THEOREM MastersReachable == Spec => []MastersTracked
<1>1. PoolInv => MastersTracked
  BY DEF PoolInv, Links
<1>2. QED
  BY <1>1, PoolInvariant, PTL

(* The per-host dial lock and the second check of Acquire keep two         *)
(* ControlMasters off one socket path.                                     *)
THEOREM DialsFindFreePath == Spec => []DialPathFree
<1>1. PoolInv => DialPathFree
  BY ConnectionPoolAssumption DEF PoolInv, Links, TypeOK, LockHeld, DialAlone, SocketOK, Dialling, DialPathFree
<1>2. QED
  BY <1>1, PoolInvariant, PTL

(* The holders of a master after a step.                                   *)
After(m) == {c \in Calls : pc'[c] = "command" /\ held'[c] = m}

(* What refs has to be after a step.                                       *)
Counted(h) ==
    /\ refs'[h] <= Cardinality(After(pooled'[h]))
    /\ pooled'[h] \notin foreign' => refs'[h] = Cardinality(After(pooled'[h]))

(* RefsCountHolders after a step, over the holders after it.               *)
LEMMA CountsAfter ==
    ASSUME \A h \in Hosts : pooled'[h] # None => Counted(h)
    PROVE  RefsCountHolders'
BY DEF RefsCountHolders, Holders, After, Counted

(* The call that inserts its own master is its first and only holder.      *)
LEMMA InsertCounts ==
    ASSUME PoolInv, RefsCountHolders, HeldOK, NEW c \in Calls, Insert(c)
    PROVE  RefsCountHolders'
<1> USE ConnectionPoolAssumption DEF PoolInv, TypeOK
<1>1. After(c) = {c}
  BY DEF After, Insert, HeldOK
<1>2. Cardinality(After(c)) = 1
  BY <1>1, FS_Singleton
<1>3. \A h \in Hosts : h # host[c] /\ pooled[h] # None => After(pooled[h]) = Holders(pooled[h])
  BY DEF After, Holders, Insert, Links, EntryOK
<1>4. ASSUME NEW h \in Hosts, pooled'[h] # None PROVE Counted(h)
  <2>1. CASE h = host[c]
    BY <1>2, <2>1 DEF Insert, Counted
  <2>2. CASE h # host[c]
    BY <1>3, <1>4, <2>2 DEF RefsCountHolders, Insert, Counted
  <2>3. QED  BY <2>1, <2>2
<1>5. QED
  BY <1>4, CountsAfter

(* Release drops the count of the holder that leaves; one that leaves      *)
(* without having counted on the entry leaves its mark in foreign.         *)
LEMMA ReleaseCounts ==
    ASSUME PoolInv, RefsCountHolders, HeldOK, NEW c \in Calls, Finish(c) \/ CloseStream(c)
    PROVE  RefsCountHolders'
<1> USE ConnectionPoolAssumption DEF PoolInv, TypeOK
<1>1. /\ pc[c] = "command" /\ pc' = [pc EXCEPT ![c] = "done"] /\ Release(c)
      /\ UNCHANGED <<host, held, pooled>>
  BY DEF Finish, CloseStream
<1>2. \A m \in Calls : held[c] # m => After(m) = Holders(m)
  BY <1>1 DEF After, Holders
<1>3. \A m \in Calls : held[c] = m => c \in Holders(m) /\ After(m) = Holders(m) \ {c}
  BY <1>1 DEF After, Holders
<1>4. ASSUME NEW h \in Hosts, pooled[h] # None PROVE Counted(h)
  <2>1. PICK m \in Calls : m = pooled[h] /\ m = pooled'[h]
    BY <1>1, <1>4
  <2>2. /\ refs[h] \in Nat /\ refs[h] <= Cardinality(Holders(m))
        /\ m \notin foreign => refs[h] = Cardinality(Holders(m))
        /\ IsFiniteSet(Holders(m)) /\ Cardinality(Holders(m)) \in Nat
    BY <1>4, <2>1, HoldersFinite DEF RefsCountHolders
  <2>3. CASE h # host[c]
    <3>1. held[c] # m
      <4>1. EntryOK
        BY DEF Links
      <4>2. host[m] = h
        BY <1>4, <2>1, <4>1 DEF EntryOK
      <4>3. held[c] = m => host[m] = host[c]
        BY <2>1 DEF HeldOK
      <4>4. QED  BY <2>3, <4>2, <4>3
    <3>2. refs'[h] = refs[h] /\ foreign \subseteq foreign'
      BY <1>1, <2>3 DEF Release
    <3>3. QED  BY <1>2, <2>1, <2>2, <3>1, <3>2 DEF Counted
  <2>4. CASE h = host[c] /\ held[c] = m
    <3>1. Cardinality(After(m)) = Cardinality(Holders(m)) - 1
      BY <1>3, <2>2, <2>4, FS_RemoveElement
    <3>2. foreign' = foreign /\ refs'[h] = IF refs[h] > 0 THEN refs[h] - 1 ELSE refs[h]
      BY <1>1, <1>4, <2>1, <2>4 DEF Release
    <3>3. Cardinality(Holders(m)) # 0
      BY <1>3, <2>2, <2>4, FS_EmptySet
    <3>4. QED  BY <2>1, <2>2, <3>1, <3>2, <3>3 DEF Counted
  <2>5. CASE h = host[c] /\ held[c] # m
    <3>1. After(m) = Holders(m)
      BY <1>2, <2>5
    <3>2. \/ refs'[h] = refs[h] - 1 /\ refs[h] > 0 /\ m \in foreign'
          \/ refs'[h] = refs[h] /\ foreign' = foreign
      BY <1>1, <1>4, <2>1, <2>5 DEF Release
    <3>3. QED  BY <2>1, <2>2, <3>1, <3>2 DEF Counted
  <2>6. QED  BY <2>3, <2>4, <2>5
<1>5. QED
  BY <1>1, <1>4, CountsAfter

(* Steps that leave every holder in place and empty entries at most.       *)
LEMMA FrameCounts ==
    ASSUME PoolInv, RefsCountHolders, UNCHANGED <<held, foreign>>,
           \A d \in Calls : held[d] # None => (pc'[d] = "command" <=> pc[d] = "command"),
           \A h \in Hosts : pooled'[h] # None => pooled'[h] = pooled[h] /\ refs'[h] = refs[h]
    PROVE  RefsCountHolders'
<1>1. \A m : m # None => After(m) = Holders(m)
  BY DEF After, Holders
<1>2. ASSUME NEW h \in Hosts, pooled'[h] # None PROVE Counted(h)
  BY <1>1, <1>2 DEF RefsCountHolders, Counted
<1>3. QED
  BY <1>2, CountsAfter

(* Every step keeps the reference counts in line with the holders.         *)
LEMMA CountStep == ASSUME PoolInv, RefsCountHolders, HeldOK, [Next]_vars PROVE RefsCountHolders'
<1> USE ConnectionPoolAssumption
<1>t. TypeOK
  BY DEF PoolInv
<1>1. ASSUME NEW c \in Calls, NEW h \in Hosts, Call(c, h) PROVE RefsCountHolders'
  BY <1>1, <1>t, FrameCounts DEF Call, poolVars, HeldOK, TypeOK
<1>2. ASSUME NEW c \in Calls, AcquireFast(c) PROVE RefsCountHolders'
  <2>1. CASE Reusable(host[c]) /\ Reuse(c)
    BY <1>2, <2>1, ReuseCounts DEF AcquireFast
  <2>2. CASE Evict(host[c]) /\ pc' = [pc EXCEPT ![c] = "wait"] /\ UNCHANGED held
    BY <1>2, <1>t, <2>2, FrameCounts DEF AcquireFast, Evict, HeldOK, TypeOK
  <2>3. QED  BY <1>2, <2>1, <2>2 DEF AcquireFast
<1>3. ASSUME NEW c \in Calls, LockDial(c) PROVE RefsCountHolders'
  BY <1>3, <1>t, FrameCounts DEF LockDial, HeldOK, TypeOK
<1>4. ASSUME NEW c \in Calls, Recheck(c) PROVE RefsCountHolders'
  <2>1. CASE Reusable(host[c]) /\ Reuse(c)
    BY <1>4, <2>1, ReuseCounts DEF Recheck
  <2>2. CASE Evict(host[c]) /\ UNCHANGED held
    BY <1>4, <1>t, <2>2, FrameCounts DEF Recheck, Evict, Reuse, FallBack, HeldOK, TypeOK
  <2>3. QED  BY <1>4, <2>1, <2>2 DEF Recheck
<1>5. ASSUME NEW c \in Calls, DialOk(c) PROVE RefsCountHolders'
  BY <1>5, <1>t, FrameCounts DEF DialOk, poolVars, HeldOK, TypeOK
<1>6. ASSUME NEW c \in Calls, DialFails(c) PROVE RefsCountHolders'
  BY <1>6, <1>t, FrameCounts DEF DialFails, FallBack, HeldOK, TypeOK
<1>7. ASSUME NEW c \in Calls, Insert(c) PROVE RefsCountHolders'
  BY <1>7, InsertCounts
<1>8. ASSUME NEW c \in Calls, Finish(c) \/ CloseStream(c) PROVE RefsCountHolders'
  BY <1>8, ReleaseCounts
<1>9. ASSUME NEW hs \in SUBSET Hosts, NEW stay, CloseEntries(hs, stay) PROVE RefsCountHolders'
  BY <1>9, <1>t, FrameCounts DEF CloseEntries, callVars, TypeOK
<1>10. ASSUME NEW m \in Calls, MasterDies(m) PROVE RefsCountHolders'
  BY <1>10, <1>t, FrameCounts DEF MasterDies, callVars, poolVars, TypeOK
<1>11. CASE UNCHANGED vars
  BY <1>11, <1>t, FrameCounts DEF vars, callVars, poolVars, TypeOK
<1>12. ASSUME NEW h \in Hosts, CloseHost(h) PROVE RefsCountHolders'
  BY <1>9, <1>12 DEF CloseHost
<1>13. CASE Close
  BY <1>9, <1>13 DEF Close
<1>14. QED
  BY <1>1, <1>2, <1>3, <1>4, <1>5, <1>6, <1>7, <1>8, <1>10, <1>11, <1>12, <1>13 DEF Next, Step

(* The reference count of an entry never exceeds the calls that hold it,   *)
(* and equals them unless a Release came from a call that had not counted  *)
(* on it, on every exit of Execute, ExecuteStream, CopyFile and CopyDir.   *)
THEOREM RefsStayCounted == Spec => []RefsCountHolders
<1>1. Init => HeldOK /\ RefsCountHolders
  BY ConnectionPoolAssumption DEF Init, HeldOK, RefsCountHolders
<1>2. PoolInv /\ HeldOK /\ RefsCountHolders /\ [Next]_vars => HeldOK' /\ RefsCountHolders'
  BY HeldStep, CountStep
<1>3. QED
  BY <1>1, <1>2, PoolInvariant, PTL DEF Spec
===============================================================================
