----------------------------- MODULE TunnelProofs -----------------------------
(***************************************************************************)
(* Proofs about Tunnel, for any calls, closers, hosts and port range: the  *)
(* type invariant, that no ssh process is orphaned, and, when every port   *)
(* is allocated, that reservations and their holders correspond one to one.*)
(***************************************************************************)
EXTENDS Tunnel, TLAPS

(* None is no call and no port. *)
LEMMA NoneFacts == None \notin Calls /\ None \notin Ports /\ None = 0 - 1
BY TunnelAssumption DEF None, Ports, PortRange

(* A port that a call of CreateTunnel holds is a port. *)
PortKnown == \A c \in Calls : pc[c] \notin {"new", "alloc", "err"} => Port(c) \in Ports

CloserRecord == [pc : {"idle", "next", "release", "kill"}, hosts : SUBSET Hosts,
                 todo : SUBSET Ports, entry : Calls \cup {None}]
CloserType == [Closers -> CloserRecord]

TypeInv == TypeOK /\ PortKnown

(* The manager starts empty and well typed. *)
LEMMA InitTypeInv == Init => TypeInv
<1> SUFFICES ASSUME Init PROVE TypeInv
  OBVIOUS
<1> USE TunnelAssumption DEF Init, TypeInv, TypeOK, PortKnown, Port, Ports, PortRange, CreatePCs
<1>1. spec \in [Calls -> [host : Hosts, port : Ports \cup {None}, dir : Directions]]
  OBVIOUS
<1>2. socket \in [Ports -> SUBSET (Calls \cup {None})]
  OBVIOUS
<1>3. QED  BY <1>1, <1>2

(* Every step of CreateTunnel, the reapers, the closers and ssh keeps the types. *)
LEMMA TypeStep == TypeInv /\ [Next]_vars => TypeInv'
<1> SUFFICES ASSUME TypeInv, [Next]_vars PROVE TypeInv'
  OBVIOUS
<1> USE NoneFacts DEF TypeInv, TypeOK, PortKnown, Port, CreatePCs, At, Goto, callVars, procVars, Listed
<1>1. ASSUME NEW c \in Calls, Create(c) PROVE TypeInv'
  BY <1>1 DEF Create
<1>2. ASSUME NEW c \in Calls, AllocatePort(c) PROVE TypeInv'
  <2>1. CASE AllocateFails /\ Goto(c, "err") /\ UNCHANGED <<alloc, next, spec, auto>>
    BY <1>2, <2>1 DEF AllocatePort
  <2>2. ASSUME NEW p \in PortRange, Allocate(p), spec' = [spec EXCEPT ![c].port = p],
               auto' = auto \cup {c}, Goto(c, "spawn")
        PROVE  TypeInv'
    <3>1. next' \in PortRange
      BY <2>2, TunnelAssumption DEF Allocate, PortRange
    <3>2. p \in Ports /\ alloc' = alloc \cup {p}
      BY <2>2 DEF Ports, Allocate
    <3>3. spec' \in [Calls -> [host : Hosts, port : Ports \cup {None}, dir : Directions]]
      BY <2>2, <3>2
    <3>4. QED  BY <1>2, <2>2, <3>1, <3>2, <3>3 DEF AllocatePort
  <2>3. QED  BY <1>2, <2>1, <2>2 DEF AllocatePort
<1>3. ASSUME NEW c \in Calls, Spawn(c) PROVE TypeInv'
  <2>1. alloc' \subseteq alloc
    BY <1>3 DEF Spawn, Unreserve, ReleasePort
  <2>2. PICK l \in {"confirm", "err"} : Goto(c, l)
    BY <1>3 DEF Spawn
  <2>3. proc' \in [Calls -> {"none", "running", "clean", "error"}]
    BY <1>3 DEF Spawn
  <2>4. QED  BY <1>3, <2>1, <2>2, <2>3 DEF Spawn
<1>4. ASSUME NEW c \in Calls, Confirm(c) PROVE TypeInv'
  BY <1>4 DEF Confirm
<1>5. ASSUME NEW c \in Calls, Insert(c) PROVE TypeInv'
  <2>1. PICK l \in {"reap", "mark", "kill"} : Goto(c, l)
    BY <1>5 DEF Insert
  <2>2. tunnels' \in [Ports -> Calls \cup {None}]
    BY <1>5 DEF Insert
  <2>3. QED  BY <1>5, <2>1, <2>2 DEF Insert
<1>6. ASSUME NEW c \in Calls, RejectKill(c) PROVE TypeInv'
  BY <1>6 DEF RejectKill, KillAndWait, Exit
<1>7. ASSUME NEW c \in Calls, RejectUnreserve(c) PROVE TypeInv'
  BY <1>7 DEF RejectUnreserve, Unreserve, ReleasePort
<1>8. ASSUME NEW c \in Calls, Mark(c) PROVE TypeInv'
  BY <1>8 DEF Mark, MarkAllocated
<1>9. ASSUME NEW c \in Calls, StartReaper(c) PROVE TypeInv'
  BY <1>9 DEF StartReaper
<1>10. ASSUME NEW c \in Calls, Reap(c) PROVE TypeInv'
  <2>1. tunnels' \in [Ports -> Calls \cup {None}]
    <3>1. UNCHANGED tunnels \/ tunnels' = [tunnels EXCEPT ![Port(c)] = None]
      BY ONLY <1>10 DEF Reap
    <3>2. tunnels \in [Ports -> Calls \cup {None}]
      BY ONLY TypeInv DEF TypeInv, TypeOK
    <3>3. QED  BY ONLY <3>1, <3>2
  <2>2. reaper' \in [Calls -> {"none", "wait", "release", "done"}]
    <3>1. PICK l \in {"done", "release"} : reaper' = [reaper EXCEPT ![c] = l]
      BY ONLY <1>10 DEF Reap
    <3>2. reaper \in [Calls -> {"none", "wait", "release", "done"}]
      BY ONLY TypeInv DEF TypeInv, TypeOK
    <3>3. QED  BY ONLY <3>1, <3>2
  <2>3. info' \in [Calls -> {"active", "failed"}]
    <3>1. UNCHANGED info \/ info' = [info EXCEPT ![c] = "failed"]
      BY ONLY <1>10 DEF Reap
    <3>2. info \in [Calls -> {"active", "failed"}]
      BY ONLY TypeInv DEF TypeInv, TypeOK
    <3>3. QED  BY ONLY <3>1, <3>2
  <2>4. UNCHANGED <<alloc, next, spec, auto, pc, proc, socket, ctx, closer>>
    BY ONLY <1>10 DEF Reap, callVars, procVars
  <2>5. QED  BY ONLY TypeInv, <2>1, <2>2, <2>3, <2>4 DEF TypeInv, TypeOK, PortKnown, Port
<1>11. ASSUME NEW c \in Calls, ReapRelease(c) PROVE TypeInv'
  BY <1>11 DEF ReapRelease, ReleasePort
<1>12. ASSUME NEW c \in Calls, SSHBinds(c) PROVE TypeInv'
  BY <1>12 DEF SSHBinds, isPortAvailable
<1>13. ASSUME NEW c \in Calls, SSHExits(c) PROVE TypeInv'
  BY <1>13 DEF SSHExits, Exit
<1>14. ASSUME NEW c \in Calls, Cancel(c) PROVE TypeInv'
  BY <1>14 DEF Cancel, KillAndWait, Exit
<1>15. ASSUME NEW k \in Closers, CloseEnd(k) PROVE TypeInv'
  <2>1. closer \in CloserType /\ closer' = [closer EXCEPT ![k].pc = "idle"]
    BY <1>15 DEF CloseEnd, CloserType, CloserRecord
  <2>2. closer' \in CloserType
    BY ONLY <2>1, k \in Closers DEF CloserType, CloserRecord
  <2>3. QED  BY <1>15, <2>2 DEF CloseEnd, CloserType, CloserRecord
<1>16. ASSUME NEW k \in Closers, NEW p \in Ports, CloseRemove(k, p) PROVE TypeInv'
  <2>1. closer \in CloserType /\ tunnels[p] \in Calls \cup {None}
    BY <1>16 DEF CloserType, CloserRecord
  <2>2. PICK l \in {"next", "release"}, t \in SUBSET Ports, e \in Calls \cup {None} :
          closer' = [closer EXCEPT ![k] =
            [pc |-> l, hosts |-> closer[k].hosts, todo |-> t, entry |-> e]]
    BY <1>16, <2>1 DEF CloseRemove
  <2>3. closer' \in CloserType
    BY ONLY <2>1, <2>2, k \in Closers DEF CloserType, CloserRecord
  <2>4. QED  BY <1>16, <2>3 DEF CloseRemove, CloserType, CloserRecord
<1>17. ASSUME NEW k \in Closers, CloseRelease(k) PROVE TypeInv'
  <2>1. closer \in CloserType /\ closer' = [closer EXCEPT ![k].pc = "kill"]
    BY <1>17 DEF CloseRelease, CloserType, CloserRecord
  <2>2. closer' \in CloserType
    BY ONLY <2>1, k \in Closers DEF CloserType, CloserRecord
  <2>3. alloc' \subseteq Ports
    BY <1>17 DEF CloseRelease, ReleasePort
  <2>4. UNCHANGED <<tunnels, next, spec, auto, pc, info, proc, socket, ctx, reaper>>
    BY ONLY <1>17 DEF CloseRelease, callVars, procVars
  <2>5. QED
    BY ONLY TypeInv, <2>2, <2>3, <2>4 DEF TypeInv, TypeOK, PortKnown, Port, CloserType, CloserRecord
<1>18. ASSUME NEW k \in Closers, CloseKill(k) PROVE TypeInv'
  <2>1. closer \in CloserType /\ closer' = [closer EXCEPT ![k].pc = "next", ![k].entry = None]
    BY <1>18 DEF CloseKill, CloserType, CloserRecord
  <2>2. closer' \in CloserType
    <3>1. closer[k] \in CloserRecord
      BY ONLY <2>1, k \in Closers DEF CloserType
    <3>2. [closer[k] EXCEPT !.pc = "next", !.entry = None] \in CloserRecord
      BY ONLY <3>1 DEF CloserRecord
    <3>3. closer' = [closer EXCEPT ![k] = [closer[k] EXCEPT !.pc = "next", !.entry = None]]
      BY ONLY <2>1, k \in Closers DEF CloserType
    <3>4. QED  BY ONLY <2>1, <3>2, <3>3, k \in Closers DEF CloserType
  <2>3. proc' \in [Calls -> {"none", "running", "clean", "error"}]
    BY <1>18 DEF CloseKill, KillAndWait, Exit
  <2>4. socket' \in [Ports -> SUBSET (Calls \cup {None})]
    BY <1>18 DEF CloseKill, KillAndWait, Exit
  <2>5. QED  BY <1>18, <2>2, <2>3, <2>4 DEF CloseKill, CloserType, CloserRecord
<1>19. ASSUME NEW k \in Closers, CloseCall(k) PROVE TypeInv'
  BY <1>19 DEF CloseCall, CloseTunnel, CloseAllForHost, CloseAll, CloseBegin, PortsTo
<1>20. CASE UNCHANGED vars
  BY <1>20 DEF vars, callVars, procVars
<1>21. QED
  BY <1>1, <1>2, <1>3, <1>4, <1>5, <1>6, <1>7, <1>8, <1>9, <1>10, <1>11, <1>12, <1>13, <1>14, <1>15, <1>16, <1>17, <1>18, <1>19, <1>20
     DEF Next, CreateStep, ReapStep, CloseStep, SSHStep

(* Whatever the calls, the closers and the range, the manager's state is well typed. *)
THEOREM TunnelTypeCorrect == Spec => []TypeOK
<1>1. Init => TypeInv
  BY InitTypeInv
<1>2. TypeInv /\ [Next]_vars => TypeInv'
  BY TypeStep
<1>3. TypeInv => TypeOK
  BY DEF TypeInv
<1>4. QED  BY <1>1, <1>2, <1>3, PTL DEF Spec

-----------------------------------------------------------------------------
Created(c) == pc[c] \in {"mark", "reap", "ok"}

(* A process runs from its launch; after the entry is made it is the entry's or a closer's. *)
OwnInv ==
    /\ \A c \in Calls : pc[c] \in {"new", "alloc", "spawn"} => proc[c] = "none"
    /\ \A c \in Calls : pc[c] \in {"unreserve", "err"} => proc[c] # "running"
    /\ \A c \in Calls : Created(c) /\ proc[c] = "running" => Listed(c) \/ Closing(c)
    /\ \A p \in Ports : tunnels[p] # None => Port(tunnels[p]) = p /\ Created(tunnels[p])
    /\ \A k \in Closers : closer[k].entry # None => Created(closer[k].entry)
    /\ \A k \in Closers : closer[k].pc \in {"release", "kill"} <=> closer[k].entry # None

(* A tunnel is in one place at a time: listed, being closed, or being reaped. *)
PlaceInv ==
    /\ \A c \in Calls : reaper[c] # "none" => pc[c] = "ok"
    /\ \A c \in Calls : reaper[c] = "release" => ~Listed(c) /\ ~Closing(c)
    /\ \A k \in Closers : closer[k].entry # None => ~Listed(closer[k].entry)
    /\ \A j, k \in Closers :
         closer[j].entry # None /\ closer[j].entry = closer[k].entry => j = k

(* With allocated ports only, a call has its port from the allocator. *)
AutoPorts ==
    /\ \A c \in Calls : pc[c] \in {"new", "alloc"} => Port(c) = None
    /\ \A c \in Calls : pc[c] \notin {"new", "alloc", "err"} => c \in auto
    /\ \A c \in Calls : pc[c] # "mark"

AutoInv == AllAuto => AutoPorts

(* Allocating a port disturbs no entry: the call has none yet. *)
LEMMA AllocFrame ==
    ASSUME TypeInv, OwnInv, NEW c \in Calls, AllocatePort(c)
    PROVE  /\ \A d \in Calls : d # c => spec'[d] = spec[d] /\ pc'[d] = pc[d]
           /\ pc[c] = "alloc" /\ pc'[c] \in {"spawn", "err"}
           /\ UNCHANGED <<tunnels, proc, reaper, closer>>
           /\ \A q \in Ports : tunnels[q] # c
           /\ \A d \in Calls : (Listed(d)' <=> Listed(d)) /\ (Created(d)' <=> Created(d))
<1>t. pc \in [Calls -> CreatePCs \cup {"new", "alloc", "ok", "err"}] /\ DOMAIN spec = Calls
  BY DEF TypeInv, TypeOK
<1>1. pc[c] = "alloc" /\ UNCHANGED <<tunnels, proc, reaper, closer>>
  BY DEF AllocatePort, At, procVars
<1>2. PICK l \in {"spawn", "err"} : pc' = [pc EXCEPT ![c] = l]
  BY DEF AllocatePort, Goto
<1>3. pc'[c] = l /\ \A d \in Calls : d # c => pc'[d] = pc[d]
  BY ONLY <1>t, <1>2, c \in Calls
<1>4. ASSUME NEW d \in Calls, d # c PROVE spec'[d] = spec[d]
  <2>1. CASE UNCHANGED spec
    BY ONLY <2>1
  <2>2. ASSUME NEW p \in PortRange, spec' = [spec EXCEPT ![c].port = p]
        PROVE  spec'[d] = spec[d]
    BY ONLY <1>t, <1>4, <2>2, d \in Calls
  <2>3. QED  BY ONLY AllocatePort(c), <2>1, <2>2 DEF AllocatePort
<1>5. \A q \in Ports : tunnels[q] # c
  BY ONLY <1>1, OwnInv, NoneFacts, c \in Calls DEF OwnInv, Created
<1>6. Port(c) \in Ports \cup {None} /\ Port(c)' \in Ports \cup {None}
  <2>1. TypeInv'
    BY TypeStep DEF Next, CreateStep
  <2>2. QED  BY ONLY TypeInv, <2>1, c \in Calls DEF TypeInv, TypeOK, Port
<1>7. ~Listed(c) /\ ~Listed(c)'
  BY ONLY <1>1, <1>5, <1>6 DEF Listed
<1>8. \A d \in Calls : d # c => (Listed(d)' <=> Listed(d))
  BY ONLY <1>1, <1>4 DEF Listed, Port
<1>9. \A d \in Calls : Created(d)' <=> Created(d)
  BY ONLY <1>1, <1>2, <1>3 DEF Created
<1>10. \A d \in Calls : Listed(d)' <=> Listed(d)
  BY ONLY <1>7, <1>8
<1>11. \A d \in Calls : d # c => spec'[d] = spec[d]
  BY ONLY <1>4
<1>12. QED  BY ONLY <1>1, <1>2, <1>3, <1>5, <1>9, <1>10, <1>11

(* Every step keeps the owner of every running process. *)
LEMMA OwnStep == TypeInv /\ OwnInv /\ [Next]_vars => OwnInv'
<1> SUFFICES ASSUME TypeInv, OwnInv, [Next]_vars PROVE OwnInv'
  OBVIOUS
<1>t. /\ tunnels \in [Ports -> Calls \cup {None}]
      /\ pc \in [Calls -> CreatePCs \cup {"new", "alloc", "ok", "err"}]
      /\ proc \in [Calls -> {"none", "running", "clean", "error"}]
      /\ DOMAIN closer = Closers
      /\ \A k \in Closers : closer[k].entry \in Calls \cup {None}
      /\ \A c \in Calls : Port(c) \in Ports \cup {None}
      /\ PortKnown
  BY DEF TypeInv, TypeOK, Port
<1> DEFINE NotStarted == \A d \in Calls : pc[d] \in {"new", "alloc", "spawn"} => proc[d] = "none"
           NotLeft == \A d \in Calls : pc[d] \in {"unreserve", "err"} => proc[d] # "running"
           HasEntry == \A k \in Closers :
                         closer[k].pc \in {"release", "kill"} <=> closer[k].entry # None
(* A step that makes and removes no entry, and starts no process of a call that has one. *)
<1>o. ASSUME UNCHANGED <<tunnels, spec>>, NotStarted', NotLeft', HasEntry',
             \A d \in Calls : Created(d)' <=> Created(d),
             \A d \in Calls : Created(d) /\ proc'[d] = "running" => proc[d] = "running",
             \A k \in Closers : closer'[k].entry = closer[k].entry
      PROVE  OwnInv'
  <2>1. \A d \in Calls : /\ Port(d)' = Port(d)
                          /\ (Listed(d)' <=> Listed(d))
                          /\ (Closing(d)' <=> Closing(d))
    BY ONLY <1>o DEF Listed, Port, Closing
  <2>2. (\A d \in Calls : Created(d) /\ proc[d] = "running" => Listed(d) \/ Closing(d))'
    BY ONLY <1>o, <2>1, OwnInv DEF OwnInv
  <2>3. (\A q \in Ports : tunnels[q] # None => Port(tunnels[q]) = q /\ Created(tunnels[q]))'
    BY ONLY <1>o, <1>t, <2>1, OwnInv DEF OwnInv
  <2>4. (\A k \in Closers : closer[k].entry # None => Created(closer[k].entry))'
    BY ONLY <1>o, <1>t, OwnInv DEF OwnInv
  <2>5. QED  BY ONLY <1>o, <2>2, <2>3, <2>4 DEF OwnInv
<1>i. NotStarted /\ NotLeft /\ HasEntry
  BY ONLY OwnInv DEF OwnInv
(* A call goes on, with its process as it was. *)
<1>p. ASSUME NEW c \in Calls, NEW l, pc' = [pc EXCEPT ![c] = l],
             UNCHANGED <<tunnels, spec, proc, closer>>,
             l \in {"mark", "reap", "ok"} <=> Created(c),
             l \in {"new", "alloc", "spawn"} => proc[c] = "none",
             l \in {"unreserve", "err"} => proc[c] # "running"
      PROVE  OwnInv'
  <2>1. \A d \in Calls : pc'[d] = IF d = c THEN l ELSE pc[d]
    BY ONLY <1>p, <1>t, c \in Calls
  <2>2. \A d \in Calls : Created(d)' <=> Created(d)
    BY ONLY <1>p, <2>1 DEF Created
  <2>3. NotStarted'
    BY ONLY <1>i, <1>p, <2>1
  <2>4. NotLeft'
    BY ONLY <1>i, <1>p, <2>1
  <2>5. HasEntry' /\ UNCHANGED <<tunnels, spec, proc, closer>>
    BY ONLY <1>i, <1>p
  <2>6. QED  BY ONLY <1>o, <2>2, <2>3, <2>4, <2>5
(* A process ends, the call staying where it is. *)
<1>x. ASSUME NEW c \in Calls, proc[c] = "running", NEW e \in {"clean", "error"},
             proc' = [proc EXCEPT ![c] = e], UNCHANGED <<tunnels, spec, pc, closer>>
      PROVE  OwnInv'
  <2>1. \A d \in Calls : proc'[d] = IF d = c THEN e ELSE proc[d]
    BY ONLY <1>x, <1>t, c \in Calls
  <2>2. pc[c] \notin {"new", "alloc", "spawn"}
    BY ONLY <1>i, <1>x, c \in Calls
  <2>3. NotStarted'
    BY ONLY <1>i, <1>x, <2>1, <2>2
  <2>4. NotLeft'
    BY ONLY <1>i, <1>x, <2>1
  <2>5. \A d \in Calls : Created(d)' <=> Created(d)
    BY ONLY <1>x DEF Created
  <2>6. \A d \in Calls : proc'[d] = "running" => proc[d] = "running"
    BY ONLY <1>x, <2>1
  <2>7. HasEntry' /\ UNCHANGED <<tunnels, spec, closer>>
    BY ONLY <1>i, <1>x
  <2>8. QED  BY ONLY <1>o, <2>3, <2>4, <2>5, <2>6, <2>7
<1>s. ASSUME UNCHANGED <<tunnels, spec, pc, proc, closer>> PROVE OwnInv'
  <2>1. NotStarted' /\ NotLeft' /\ HasEntry'
    BY ONLY <1>i, <1>s
  <2>2. \A d \in Calls : Created(d)' <=> Created(d)
    BY ONLY <1>s DEF Created
  <2>3. QED  BY ONLY <1>o, <1>s, <2>1, <2>2
<1>1. ASSUME NEW c \in Calls, Create(c) PROVE OwnInv'
  <2>1. PICK l \in {"err", "alloc", "spawn"} : pc' = [pc EXCEPT ![c] = l]
    BY ONLY <1>1 DEF Create, Goto
  <2>2. pc[c] = "new" /\ UNCHANGED <<tunnels, spec, proc, closer>>
    BY ONLY <1>1 DEF Create, At, procVars
  <2>3. proc[c] = "none"
    BY ONLY <1>i, <2>2, c \in Calls
  <2>4. QED  BY ONLY <1>p, <2>1, <2>2, <2>3, c \in Calls DEF Created
<1>2. ASSUME NEW c \in Calls, AllocatePort(c) PROVE OwnInv'
  <2>1. /\ \A d \in Calls : d # c => spec'[d] = spec[d] /\ pc'[d] = pc[d]
        /\ pc[c] = "alloc" /\ pc'[c] \in {"spawn", "err"}
        /\ UNCHANGED <<tunnels, proc, reaper, closer>>
        /\ \A q \in Ports : tunnels[q] # c
        /\ \A d \in Calls : (Listed(d)' <=> Listed(d)) /\ (Created(d)' <=> Created(d))
    BY ONLY <1>2, TypeInv, OwnInv, c \in Calls, AllocFrame
  <2>2. proc[c] = "none"
    BY ONLY <1>i, <2>1, c \in Calls
  <2>3. NotStarted'
    BY ONLY <1>i, <2>1, <2>2
  <2>4. NotLeft'
    BY ONLY <1>i, <2>1, <2>2
  <2>5. (\A d \in Calls : Created(d) /\ proc[d] = "running" => Listed(d) \/ Closing(d))'
    <3>1. \A d \in Calls : Closing(d)' <=> Closing(d)
      BY ONLY <2>1 DEF Closing
    <3>2. QED  BY ONLY <2>1, <3>1, OwnInv DEF OwnInv
  <2>6. (\A q \in Ports : tunnels[q] # None => Port(tunnels[q]) = q /\ Created(tunnels[q]))'
    <3>1. \A d \in Calls : d # c => Port(d)' = Port(d)
      BY ONLY <2>1 DEF Port
    <3>2. QED  BY ONLY <1>t, <2>1, <3>1, OwnInv DEF OwnInv
  <2>7. (\A k \in Closers : closer[k].entry # None => Created(closer[k].entry))'
    BY ONLY <1>t, <2>1, OwnInv DEF OwnInv
  <2>8. HasEntry'
    BY ONLY <1>i, <2>1
  <2>9. QED  BY ONLY <2>3, <2>4, <2>5, <2>6, <2>7, <2>8 DEF OwnInv
<1>3. ASSUME NEW c \in Calls, Spawn(c) PROVE OwnInv'
  <2>1. pc[c] = "spawn" /\ UNCHANGED <<tunnels, spec, closer>>
    BY ONLY <1>3 DEF Spawn, At
  <2>2. proc[c] = "none"
    BY ONLY <1>i, <2>1, c \in Calls
  <2>3. CASE pc' = [pc EXCEPT ![c] = "confirm"] /\ proc' = [proc EXCEPT ![c] = "running"]
    <3>1. \A d \in Calls : pc'[d] = IF d = c THEN "confirm" ELSE pc[d]
      BY ONLY <1>t, <2>3, c \in Calls
    <3>2. \A d \in Calls : proc'[d] = IF d = c THEN "running" ELSE proc[d]
      BY ONLY <1>t, <2>3, c \in Calls
    <3>3. NotStarted'
      BY ONLY <1>i, <3>1, <3>2
    <3>4. NotLeft'
      BY ONLY <1>i, <3>1, <3>2
    <3>5. HasEntry' /\ \A k \in Closers : closer'[k].entry = closer[k].entry
      BY ONLY <1>i, <2>1
    <3>6. \A d \in Calls : Created(d)' <=> Created(d)
      BY ONLY <2>1, <3>1 DEF Created
    <3>7. \A d \in Calls : Created(d) /\ proc'[d] = "running" => proc[d] = "running"
      BY ONLY <2>1, <3>2 DEF Created
    <3>8. QED  BY ONLY <1>o, <2>1, <3>3, <3>4, <3>5, <3>6, <3>7
  <2>4. CASE pc' = [pc EXCEPT ![c] = "err"] /\ UNCHANGED proc
    BY ONLY <1>p, <2>1, <2>2, <2>4, c \in Calls DEF Created
  <2>5. QED  BY ONLY <1>3, <2>3, <2>4 DEF Spawn, Goto
<1>4. ASSUME NEW c \in Calls, Confirm(c) PROVE OwnInv'
  <2>1. /\ pc[c] = "confirm" /\ pc' = [pc EXCEPT ![c] = "insert"]
        /\ UNCHANGED <<tunnels, spec, proc, closer>>
    BY ONLY <1>4 DEF Confirm, At, Goto, procVars
  <2>2. QED  BY ONLY <1>p, <2>1, c \in Calls DEF Created
<1>5. ASSUME NEW c \in Calls, Insert(c) PROVE OwnInv'
  <2>1. CASE tunnels[Port(c)] # None
    <3>1. pc[c] = "insert" /\ pc' = [pc EXCEPT ![c] = "kill"]
      BY ONLY <1>5, <2>1 DEF Insert, At, Goto
    <3>2. UNCHANGED <<tunnels, spec, proc, closer>>
      BY ONLY <1>5, <2>1 DEF Insert, procVars
    <3>3. QED  BY ONLY <1>p, <3>1, <3>2, c \in Calls DEF Created
  <2>2. CASE tunnels[Port(c)] = None
    <3>1. PICK l \in {"reap", "mark"} : Goto(c, l)
      BY ONLY <1>5, <2>2 DEF Insert
    <3>2. Port(c) \in Ports /\ tunnels' = [tunnels EXCEPT ![Port(c)] = c]
      BY ONLY <1>5, <1>t, <2>2, c \in Calls DEF Insert, At, PortKnown
    <3>3. UNCHANGED <<spec, proc, closer>>
      BY ONLY <1>5 DEF Insert, procVars
    <3>5. \A d \in Calls : pc'[d] = IF d = c THEN l ELSE pc[d]
      BY ONLY <1>t, <3>1, c \in Calls DEF Goto
    <3>6. \A q \in Ports : tunnels'[q] = IF q = Port(c) THEN c ELSE tunnels[q]
      BY ONLY <1>t, <3>2
    <3>4. \A d \in Calls : Listed(d) => Listed(d)'
      BY ONLY <1>t, <2>2, <3>3, <3>6, NoneFacts DEF Listed, Port
    <3>7. Listed(c)'
      BY ONLY <3>2, <3>3, <3>6, NoneFacts DEF Listed, Port
    <3>8. \A d \in Calls : /\ Port(d)' = Port(d)
                            /\ (Closing(d)' <=> Closing(d))
                            /\ (Created(d) => Created(d)')
                            /\ (Created(d)' => d = c \/ Created(d))
      BY ONLY <3>3, <3>5 DEF Port, Closing, Created
    <3>9. (\A d \in Calls : Created(d) /\ proc[d] = "running" => Listed(d) \/ Closing(d))'
      BY ONLY <3>3, <3>4, <3>7, <3>8, OwnInv DEF OwnInv
    <3>10. (\A q \in Ports : tunnels[q] # None => Port(tunnels[q]) = q /\ Created(tunnels[q]))'
      <4>1. Created(c)'
        BY ONLY <3>1, <3>5, c \in Calls DEF Created
      <4>2. SUFFICES ASSUME NEW q \in Ports, NEW d \in Calls, tunnels'[q] = d
                     PROVE  Port(d)' = q /\ Created(d)'
        <5>1. \A q \in Ports : tunnels'[q] \in Calls \cup {None}
          BY ONLY <1>t, <3>6, c \in Calls
        <5>2. QED  BY ONLY <4>2, <5>1
      <4>3. q # Port(c) => Port(d) = q /\ Created(d)
        BY ONLY <3>6, <4>2, q \in Ports, d \in Calls, NoneFacts, OwnInv DEF OwnInv
      <4>4. QED  BY ONLY <3>6, <3>8, <4>1, <4>2, <4>3, q \in Ports, d \in Calls
    <3>11. (\A k \in Closers : closer[k].entry # None => Created(closer[k].entry))'
      BY ONLY <1>t, <3>3, <3>8, OwnInv DEF OwnInv
    <3>12. (\A d \in Calls : pc[d] \in {"new", "alloc", "spawn"} => proc[d] = "none")'
      BY ONLY <3>1, <3>3, <3>5, OwnInv DEF OwnInv
    <3>13. (\A d \in Calls : pc[d] \in {"unreserve", "err"} => proc[d] # "running")'
      BY ONLY <3>1, <3>3, <3>5, OwnInv DEF OwnInv
    <3>14. QED  BY ONLY <3>3, <3>9, <3>10, <3>11, <3>12, <3>13, OwnInv DEF OwnInv
  <2>3. QED  BY ONLY <2>1, <2>2
<1>6. ASSUME NEW c \in Calls, RejectKill(c) PROVE OwnInv'
  <2>1. /\ pc[c] = "kill" /\ pc' = [pc EXCEPT ![c] = "unreserve"]
        /\ UNCHANGED <<tunnels, spec, closer>>
    BY ONLY <1>6 DEF RejectKill, At, Goto
  <2>2. CASE proc[c] # "running"
    <3>1. UNCHANGED proc
      BY ONLY <1>6, <2>2 DEF RejectKill, KillAndWait, procVars
    <3>2. QED  BY ONLY <1>p, <2>1, <2>2, <3>1, c \in Calls DEF Created
  <2>3. CASE proc[c] = "running"
    <3>1. proc' = [proc EXCEPT ![c] = "error"]
      BY ONLY <1>6, <2>3 DEF RejectKill, KillAndWait, Exit
    <3>2. \A d \in Calls : pc'[d] = IF d = c THEN "unreserve" ELSE pc[d]
      BY ONLY <1>t, <2>1, c \in Calls
    <3>3. \A d \in Calls : proc'[d] = IF d = c THEN "error" ELSE proc[d]
      BY ONLY <1>t, <3>1, c \in Calls
    <3>4. NotStarted'
      BY ONLY <1>i, <3>2, <3>3
    <3>5. NotLeft'
      BY ONLY <1>i, <3>2, <3>3
    <3>6. HasEntry' /\ \A k \in Closers : closer'[k].entry = closer[k].entry
      BY ONLY <1>i, <2>1
    <3>7. \A d \in Calls : Created(d)' <=> Created(d)
      BY ONLY <2>1, <3>2 DEF Created
    <3>8. \A d \in Calls : proc'[d] = "running" => proc[d] = "running"
      BY ONLY <3>3
    <3>9. QED  BY ONLY <1>o, <2>1, <3>4, <3>5, <3>6, <3>7, <3>8
  <2>4. QED  BY ONLY <2>2, <2>3
<1>7. ASSUME NEW c \in Calls, RejectUnreserve(c) PROVE OwnInv'
  <2>1. /\ pc[c] = "unreserve" /\ pc' = [pc EXCEPT ![c] = "err"]
        /\ UNCHANGED <<tunnels, spec, proc, closer>>
    BY ONLY <1>7 DEF RejectUnreserve, At, Goto, procVars
  <2>2. proc[c] # "running"
    BY ONLY <1>i, <2>1, c \in Calls
  <2>3. QED  BY ONLY <1>p, <2>1, <2>2, c \in Calls DEF Created
<1>8. ASSUME NEW c \in Calls, Mark(c) PROVE OwnInv'
  <2>1. /\ pc[c] = "mark" /\ pc' = [pc EXCEPT ![c] = "reap"]
        /\ UNCHANGED <<tunnels, spec, proc, closer>>
    BY ONLY <1>8 DEF Mark, At, Goto, procVars
  <2>2. QED  BY ONLY <1>p, <2>1, c \in Calls DEF Created
<1>9. ASSUME NEW c \in Calls, StartReaper(c) PROVE OwnInv'
  <2>1. /\ pc[c] = "reap" /\ pc' = [pc EXCEPT ![c] = "ok"]
        /\ UNCHANGED <<tunnels, spec, proc, closer>>
    BY ONLY <1>9 DEF StartReaper, At, Goto, procVars
  <2>2. QED  BY ONLY <1>p, <2>1, c \in Calls DEF Created
<1>10. ASSUME NEW c \in Calls, Reap(c) PROVE OwnInv'
  <2>1. UNCHANGED <<spec, pc, proc, closer>>
    BY ONLY <1>10 DEF Reap, callVars, procVars
  <2>2. CASE UNCHANGED tunnels
    BY ONLY <1>s, <2>1, <2>2
  <2>3. CASE Listed(c) /\ tunnels' = [tunnels EXCEPT ![Port(c)] = None]
    <3>1. \A q \in Ports : tunnels'[q] = IF q = Port(c) THEN None ELSE tunnels[q]
      BY ONLY <1>t, <2>3
    <3>2. \A d \in Calls : /\ Port(d)' = Port(d)
                            /\ (Created(d)' <=> Created(d))
                            /\ (Closing(d)' <=> Closing(d))
      BY ONLY <2>1 DEF Port, Created, Closing
    <3>3. \A d \in Calls : d # c /\ Listed(d) => Listed(d)'
      BY ONLY <1>t, <2>3, <3>1, <3>2 DEF Listed
    <3>4. proc[c] # "running"
      BY ONLY <1>10 DEF Reap, Dead
    <3>5. (\A d \in Calls : Created(d) /\ proc[d] = "running" => Listed(d) \/ Closing(d))'
      BY ONLY <2>1, <3>2, <3>3, <3>4, OwnInv DEF OwnInv
    <3>6. (\A q \in Ports : tunnels[q] # None => Port(tunnels[q]) = q /\ Created(tunnels[q]))'
      BY ONLY <1>t, <3>1, <3>2, OwnInv DEF OwnInv
    <3>7. (\A k \in Closers : closer[k].entry # None => Created(closer[k].entry))'
      BY ONLY <1>t, <2>1, <3>2, OwnInv DEF OwnInv
    <3>8. NotStarted' /\ NotLeft' /\ HasEntry'
      BY ONLY <1>i, <2>1
    <3>9. QED  BY ONLY <3>5, <3>6, <3>7, <3>8 DEF OwnInv
  <2>4. QED  BY ONLY <1>10, <2>2, <2>3 DEF Reap
<1>11. ASSUME NEW c \in Calls, ReapRelease(c) PROVE OwnInv'
  BY ONLY <1>s, <1>11 DEF ReapRelease, callVars, procVars
<1>12. ASSUME NEW c \in Calls, SSHBinds(c) PROVE OwnInv'
  BY ONLY <1>s, <1>12 DEF SSHBinds, callVars
<1>13. ASSUME NEW c \in Calls, SSHExits(c) PROVE OwnInv'
  BY ONLY <1>x, <1>13, c \in Calls DEF SSHExits, Exit, callVars
<1>14. ASSUME NEW c \in Calls, Cancel(c) PROVE OwnInv'
  <2>1. UNCHANGED <<tunnels, spec, pc, closer>>
    BY ONLY <1>14 DEF Cancel, callVars
  <2>2. CASE proc[c] = "running"
    BY ONLY <1>x, <1>14, <2>1, <2>2, c \in Calls DEF Cancel, KillAndWait, Exit
  <2>3. CASE proc[c] # "running"
    BY ONLY <1>s, <1>14, <2>1, <2>3 DEF Cancel, KillAndWait, procVars
  <2>4. QED  BY ONLY <2>2, <2>3
(* A closer moves on, the entry it holds staying the same. *)
<1>c. ASSUME NEW k \in Closers, UNCHANGED <<tunnels, spec, pc, proc>>,
             closer'[k].entry = closer[k].entry,
             closer'[k].pc \in {"release", "kill"} <=> closer[k].pc \in {"release", "kill"},
             \A j \in Closers : j # k => closer'[j] = closer[j]
      PROVE  OwnInv'
  <2>1. \A j \in Closers : closer'[j].entry = closer[j].entry
    BY ONLY <1>c
  <2>2. HasEntry'
    BY ONLY <1>c, <1>i
  <2>3. NotStarted' /\ NotLeft'
    BY ONLY <1>c, <1>i
  <2>4. \A d \in Calls : Created(d)' <=> Created(d)
    BY ONLY <1>c DEF Created
  <2>5. UNCHANGED <<tunnels, spec, proc>>
    BY ONLY <1>c
  <2>6. QED  BY ONLY <1>o, <2>1, <2>2, <2>3, <2>4, <2>5
<1>15. ASSUME NEW k \in Closers, CloseEnd(k) PROVE OwnInv'
  <2>1. /\ closer[k].pc = "next" /\ closer' = [closer EXCEPT ![k].pc = "idle"]
        /\ UNCHANGED <<tunnels, spec, pc, proc>>
    BY ONLY <1>15 DEF CloseEnd, callVars, procVars
  <2>2. DOMAIN closer[k] = {"pc", "hosts", "todo", "entry"}
    BY ONLY TypeInv, k \in Closers DEF TypeInv, TypeOK
  <2>3. /\ closer'[k].pc = "idle" /\ closer'[k].entry = closer[k].entry
        /\ \A j \in Closers : j # k => closer'[j] = closer[j]
    BY ONLY <1>t, <2>1, <2>2, k \in Closers
  <2>4. QED  BY ONLY <1>c, <2>1, <2>3, k \in Closers
<1>16. ASSUME NEW k \in Closers, NEW p \in Ports, CloseRemove(k, p) PROVE OwnInv'
  <2>1. UNCHANGED <<spec, pc, proc>> /\ tunnels' = [tunnels EXCEPT ![p] = None]
    BY ONLY <1>16 DEF CloseRemove, callVars, procVars
  <2>2. /\ closer'[k].pc = IF tunnels[p] = None THEN "next" ELSE "release"
        /\ closer'[k].entry = tunnels[p]
        /\ \A j \in Closers : j # k => closer'[j] = closer[j]
    BY ONLY <1>16, <1>t, k \in Closers DEF CloseRemove
  <2>3. closer[k].entry = None
    BY ONLY <1>16, <1>i, k \in Closers DEF CloseRemove
  <2>4. \A q \in Ports : tunnels'[q] = IF q = p THEN None ELSE tunnels[q]
    BY ONLY <1>t, <2>1
  <2>5. \A d \in Calls : Port(d)' = Port(d) /\ (Created(d)' <=> Created(d))
    BY ONLY <2>1 DEF Port, Created
  <2>6. \A d \in Calls : Closing(d) => Closing(d)'
    BY ONLY <2>2, <2>3, NoneFacts DEF Closing
  <2>7. \A d \in Calls : Listed(d) => Listed(d)' \/ Closing(d)'
    <3>1. \A d \in Calls : d = tunnels[p] => Closing(d)'
      BY ONLY <2>2, k \in Closers DEF Closing
    <3>2. \A d \in Calls : Listed(d) /\ d # tunnels[p] => Listed(d)'
      BY ONLY <1>t, <2>4, <2>5 DEF Listed
    <3>3. QED  BY ONLY <3>1, <3>2
  <2>8. (\A d \in Calls : Created(d) /\ proc[d] = "running" => Listed(d) \/ Closing(d))'
    BY ONLY <2>1, <2>5, <2>6, <2>7, OwnInv DEF OwnInv
  <2>9. (\A q \in Ports : tunnels[q] # None => Port(tunnels[q]) = q /\ Created(tunnels[q]))'
    BY ONLY <1>t, <2>4, <2>5, OwnInv DEF OwnInv
  <2>10. (\A j \in Closers : closer[j].entry # None => Created(closer[j].entry))'
    <3>1. \A j \in Closers : closer'[j].entry # None => Created(closer'[j].entry)
      BY ONLY <2>2, k \in Closers, p \in Ports, OwnInv DEF OwnInv
    <3>2. \A j \in Closers : closer'[j].entry \in Calls \cup {None}
      BY ONLY <1>t, <2>2, p \in Ports
    <3>3. QED  BY ONLY <2>5, <3>1, <3>2
  <2>11. HasEntry'
    BY ONLY <1>i, <2>2
  <2>12. NotStarted' /\ NotLeft'
    BY ONLY <1>i, <2>1
  <2>13. QED  BY ONLY <2>8, <2>9, <2>10, <2>11, <2>12 DEF OwnInv
<1>17. ASSUME NEW k \in Closers, CloseRelease(k) PROVE OwnInv'
  <2>1. /\ closer[k].pc = "release" /\ closer' = [closer EXCEPT ![k].pc = "kill"]
        /\ UNCHANGED <<tunnels, spec, pc, proc>>
    BY ONLY <1>17 DEF CloseRelease, callVars, procVars
  <2>2. DOMAIN closer[k] = {"pc", "hosts", "todo", "entry"}
    BY ONLY TypeInv, k \in Closers DEF TypeInv, TypeOK
  <2>3. /\ closer'[k].pc = "kill" /\ closer'[k].entry = closer[k].entry
        /\ \A j \in Closers : j # k => closer'[j] = closer[j]
    BY ONLY <1>t, <2>1, <2>2, k \in Closers
  <2>4. QED  BY ONLY <1>c, <2>1, <2>3, k \in Closers
<1>18. ASSUME NEW k \in Closers, CloseKill(k) PROVE OwnInv'
  <2>1. PICK c \in Calls : closer[k].entry = c
    BY ONLY <1>18, <1>i, <1>t, k \in Closers DEF CloseKill
  <2>2. UNCHANGED <<tunnels, spec, pc>>
    BY ONLY <1>18 DEF CloseKill, callVars
  <2>3. proc'[c] # "running" /\ \A d \in Calls : d # c => proc'[d] = proc[d]
    <3>1. KillAndWait(c)
      BY ONLY <1>18, <2>1 DEF CloseKill
    <3>2. QED  BY ONLY <1>t, <3>1, c \in Calls DEF KillAndWait, Exit, procVars
  <2>4. DOMAIN closer[k] = {"pc", "hosts", "todo", "entry"}
    BY ONLY TypeInv, k \in Closers DEF TypeInv, TypeOK
  <2>5. /\ closer'[k].pc = "next" /\ closer'[k].entry = None
        /\ \A j \in Closers : j # k => closer'[j] = closer[j]
    BY ONLY <1>18, <1>t, <2>4, k \in Closers DEF CloseKill
  <2>6. HasEntry'
    BY ONLY <1>i, <2>5
  <2>7. \A d \in Calls : /\ Port(d)' = Port(d)
                          /\ (Listed(d)' <=> Listed(d))
                          /\ (Created(d)' <=> Created(d))
    BY ONLY <2>2 DEF Port, Listed, Created
  <2>8. \A d \in Calls : d # c /\ Closing(d) => Closing(d)'
    BY ONLY <2>1, <2>5 DEF Closing
  <2>9. (\A d \in Calls : Created(d) /\ proc[d] = "running" => Listed(d) \/ Closing(d))'
    BY ONLY <2>3, <2>7, <2>8, OwnInv DEF OwnInv
  <2>10. (\A q \in Ports : tunnels[q] # None => Port(tunnels[q]) = q /\ Created(tunnels[q]))'
    BY ONLY <1>t, <2>2, <2>7, OwnInv DEF OwnInv
  <2>11. (\A j \in Closers : closer[j].entry # None => Created(closer[j].entry))'
    BY ONLY <1>t, <2>5, <2>7, OwnInv DEF OwnInv
  <2>12. Created(c)
    BY ONLY <2>1, k \in Closers, NoneFacts, OwnInv DEF OwnInv
  <2>13. NotStarted'
    BY ONLY <1>i, <2>2, <2>3, <2>12 DEF Created
  <2>14. NotLeft'
    BY ONLY <1>i, <2>2, <2>3
  <2>15. QED  BY ONLY <2>6, <2>9, <2>10, <2>11, <2>13, <2>14 DEF OwnInv
<1>19. ASSUME NEW k \in Closers, CloseCall(k) PROVE OwnInv'
  <2>1. PICK hosts, ports : CloseBegin(k, hosts, ports)
    BY ONLY <1>19 DEF CloseCall, CloseTunnel, CloseAllForHost, CloseAll
  <2>2. UNCHANGED <<tunnels, spec, pc, proc>> /\ closer[k].pc = "idle"
    BY ONLY <2>1 DEF CloseBegin, callVars, procVars
  <2>3. closer[k].entry = None
    BY ONLY <1>i, <2>2, k \in Closers
  <2>4. /\ closer'[k].entry = None /\ closer'[k].pc = "next"
        /\ \A j \in Closers : j # k => closer'[j] = closer[j]
    BY ONLY <1>t, <2>1, k \in Closers DEF CloseBegin
  <2>5. QED  BY ONLY <1>c, <2>2, <2>3, <2>4, k \in Closers
<1>20. CASE UNCHANGED vars
  BY ONLY <1>s, <1>20 DEF vars, callVars, procVars
<1>21. QED
  BY <1>1, <1>2, <1>3, <1>4, <1>5, <1>6, <1>7, <1>8, <1>9, <1>10, <1>11, <1>12, <1>13, <1>14, <1>15, <1>16, <1>17, <1>18, <1>19, <1>20
     DEF Next, CreateStep, ReapStep, CloseStep, SSHStep

(* Every step keeps a tunnel in one place. *)
LEMMA PlaceStep == TypeInv /\ OwnInv /\ PlaceInv /\ [Next]_vars => PlaceInv'
<1> SUFFICES ASSUME TypeInv, OwnInv, PlaceInv, [Next]_vars PROVE PlaceInv'
  OBVIOUS
<1>t. /\ tunnels \in [Ports -> Calls \cup {None}]
      /\ pc \in [Calls -> CreatePCs \cup {"new", "alloc", "ok", "err"}]
      /\ reaper \in [Calls -> {"none", "wait", "release", "done"}]
      /\ DOMAIN closer = Closers
      /\ \A k \in Closers : closer[k].entry \in Calls \cup {None}
      /\ \A c \in Calls : Port(c) \in Ports \cup {None}
  BY DEF TypeInv, TypeOK, Port
(* A step that leaves the entries, the reapers and the closers' entries alone and takes   *)
(* no call out of "ok" moves no tunnel.                                                   *)
<1>f. ASSUME UNCHANGED <<tunnels, reaper>>,
             \A d \in Calls : Listed(d)' <=> Listed(d),
             \A d \in Calls : pc[d] = "ok" => pc'[d] = "ok",
             \A k \in Closers : closer'[k].entry = closer[k].entry
      PROVE  PlaceInv'
  <2>1. \A d \in Calls : Closing(d)' <=> Closing(d)
    BY ONLY <1>f DEF Closing
  <2>2. \A k \in Closers : closer[k].entry # None => closer[k].entry \in Calls
    BY ONLY <1>t
  <2>3. QED  BY ONLY <1>f, <2>1, <2>2, PlaceInv DEF PlaceInv
<1>g. ASSUME UNCHANGED <<tunnels, spec, reaper, closer>>,
             \A d \in Calls : pc[d] = "ok" => pc'[d] = "ok"
      PROVE  PlaceInv'
  BY ONLY <1>f, <1>g DEF Listed, Port
<1>p. ASSUME NEW c \in Calls, NEW l, pc[c] # "ok", pc' = [pc EXCEPT ![c] = l],
             UNCHANGED <<tunnels, spec, reaper, closer>>
      PROVE  PlaceInv'
  BY ONLY <1>g, <1>p, <1>t
<1>1. ASSUME NEW c \in Calls, Create(c) PROVE PlaceInv'
  BY ONLY <1>1, <1>p, c \in Calls DEF Create, At, Goto
<1>2. ASSUME NEW c \in Calls, AllocatePort(c) PROVE PlaceInv'
  <2>1. /\ \A d \in Calls : d # c => spec'[d] = spec[d] /\ pc'[d] = pc[d]
        /\ pc[c] = "alloc" /\ UNCHANGED <<tunnels, reaper, closer>>
        /\ \A d \in Calls : Listed(d)' <=> Listed(d)
    BY ONLY <1>2, TypeInv, OwnInv, c \in Calls, AllocFrame
  <2>2. QED  BY ONLY <1>f, <2>1
<1>3. ASSUME NEW c \in Calls, Spawn(c) PROVE PlaceInv'
  BY ONLY <1>3, <1>p, c \in Calls DEF Spawn, At, Goto
<1>4. ASSUME NEW c \in Calls, Confirm(c) PROVE PlaceInv'
  BY ONLY <1>4, <1>p, c \in Calls DEF Confirm, At, Goto
<1>5. ASSUME NEW c \in Calls, Insert(c) PROVE PlaceInv'
  <2>1. pc[c] = "insert" /\ UNCHANGED <<spec, reaper, closer>>
    BY ONLY <1>5 DEF Insert, At
  <2>2. CASE tunnels[Port(c)] # None
    BY ONLY <1>5, <1>p, <2>1, <2>2, c \in Calls DEF Insert, Goto
  <2>3. CASE tunnels[Port(c)] = None
    <3>1. PICK l \in {"reap", "mark"} : pc' = [pc EXCEPT ![c] = l]
      BY ONLY <1>5, <2>3 DEF Insert, Goto
    <3>2. tunnels' = [tunnels EXCEPT ![Port(c)] = c]
      BY ONLY <1>5, <2>3 DEF Insert
    <3>3. \A d \in Calls : pc[d] = "ok" => pc'[d] = "ok"
      BY ONLY <1>t, <2>1, <3>1
    <3>4. \A d \in Calls : d # c => (Listed(d)' => Listed(d))
      <4>1. \A q \in Ports : tunnels'[q] = IF q = Port(c) THEN c ELSE tunnels[q]
        BY ONLY <1>t, <3>2
      <4>2. \A d \in Calls : Port(d)' = Port(d)
        BY ONLY <2>1 DEF Port
      <4>3. QED  BY ONLY <1>t, <4>1, <4>2 DEF Listed
    <3>5. \A d \in Calls : Closing(d)' <=> Closing(d)
      BY ONLY <2>1 DEF Closing
    <3>6. reaper[c] # "release" /\ \A k \in Closers : closer[k].entry # c
      BY ONLY <1>t, <2>1, NoneFacts, c \in Calls, OwnInv, PlaceInv
         DEF OwnInv, PlaceInv, Created
    <3>7. \A k \in Closers : closer[k].entry # None => closer[k].entry \in Calls
      BY ONLY <1>t
    <3>8. QED  BY ONLY <2>1, <3>3, <3>4, <3>5, <3>6, <3>7, PlaceInv DEF PlaceInv
  <2>4. QED  BY ONLY <2>2, <2>3
<1>6. ASSUME NEW c \in Calls, RejectKill(c) PROVE PlaceInv'
  BY ONLY <1>6, <1>p, c \in Calls DEF RejectKill, At, Goto
<1>7. ASSUME NEW c \in Calls, RejectUnreserve(c) PROVE PlaceInv'
  BY ONLY <1>7, <1>p, c \in Calls DEF RejectUnreserve, At, Goto
<1>8. ASSUME NEW c \in Calls, Mark(c) PROVE PlaceInv'
  BY ONLY <1>8, <1>p, c \in Calls DEF Mark, At, Goto
<1>9. ASSUME NEW c \in Calls, StartReaper(c) PROVE PlaceInv'
  <2>1. /\ pc' = [pc EXCEPT ![c] = "ok"] /\ reaper' = [reaper EXCEPT ![c] = "wait"]
        /\ UNCHANGED <<tunnels, spec, closer>>
    BY ONLY <1>9 DEF StartReaper, Goto
  <2>2. \A d \in Calls : pc'[d] = IF d = c THEN "ok" ELSE pc[d]
    BY ONLY <1>t, <2>1, c \in Calls
  <2>3. \A d \in Calls : reaper'[d] = IF d = c THEN "wait" ELSE reaper[d]
    BY ONLY <1>t, <2>1, c \in Calls
  <2>4. \A d \in Calls : (Listed(d)' <=> Listed(d)) /\ (Closing(d)' <=> Closing(d))
    BY ONLY <2>1 DEF Listed, Closing, Port
  <2>5. \A k \in Closers : closer[k].entry # None => closer[k].entry \in Calls
    BY ONLY <1>t
  <2>6. \A d \in Calls : reaper'[d] # "none" => pc'[d] = "ok"
    BY ONLY <2>2, <2>3, PlaceInv DEF PlaceInv
  <2>7. \A d \in Calls : reaper'[d] = "release" => reaper[d] = "release"
    BY ONLY <2>3
  <2>8. QED  BY ONLY <2>1, <2>4, <2>5, <2>6, <2>7, PlaceInv DEF PlaceInv
<1>10. ASSUME NEW c \in Calls, Reap(c) PROVE PlaceInv'
  <2>1. reaper[c] = "wait" /\ UNCHANGED <<spec, pc, closer>>
    BY ONLY <1>10 DEF Reap, callVars
  <2>2. \A k \in Closers : closer[k].entry # None => closer[k].entry \in Calls
    BY ONLY <1>t
  <2>3. \A d \in Calls : Port(d)' = Port(d) /\ (Closing(d)' <=> Closing(d))
    BY ONLY <2>1 DEF Port, Closing
  <2>4. pc[c] = "ok"
    BY ONLY <2>1, c \in Calls, PlaceInv DEF PlaceInv
  <2>5. CASE reaper' = [reaper EXCEPT ![c] = "done"] /\ UNCHANGED tunnels
    <3>1. \A d \in Calls : reaper'[d] = IF d = c THEN "done" ELSE reaper[d]
      BY ONLY <1>t, <2>5, c \in Calls
    <3>2. \A d \in Calls : Listed(d)' <=> Listed(d)
      BY ONLY <2>3, <2>5 DEF Listed
    <3>3. QED  BY ONLY <2>1, <2>2, <2>3, <2>4, <3>1, <3>2, PlaceInv DEF PlaceInv
  <2>6. CASE /\ Listed(c)
             /\ tunnels' = [tunnels EXCEPT ![Port(c)] = None]
             /\ reaper' = [reaper EXCEPT ![c] = "release"]
    <3>1. \A d \in Calls : reaper'[d] = IF d = c THEN "release" ELSE reaper[d]
      BY ONLY <1>t, <2>6, c \in Calls
    <3>2. \A q \in Ports : tunnels'[q] = IF q = Port(c) THEN None ELSE tunnels[q]
      BY ONLY <1>t, <2>6
    <3>3. \A d \in Calls : Listed(d)' => Listed(d) /\ d # c
      BY ONLY <1>t, <2>3, <3>2, NoneFacts DEF Listed
    <3>4. ~Closing(c)
      BY ONLY <2>6, NoneFacts, c \in Calls, PlaceInv DEF PlaceInv, Closing
    <3>5. QED  BY ONLY <2>1, <2>2, <2>3, <2>4, <3>1, <3>3, <3>4, PlaceInv DEF PlaceInv
  <2>7. QED  BY ONLY <1>10, <2>5, <2>6 DEF Reap
<1>11. ASSUME NEW c \in Calls, ReapRelease(c) PROVE PlaceInv'
  <2>1. /\ reaper[c] = "release" /\ reaper' = [reaper EXCEPT ![c] = "done"]
        /\ UNCHANGED <<tunnels, spec, pc, closer>>
    BY ONLY <1>11 DEF ReapRelease, callVars
  <2>2. \A d \in Calls : reaper'[d] = IF d = c THEN "done" ELSE reaper[d]
    BY ONLY <1>t, <2>1, c \in Calls
  <2>3. \A d \in Calls : (Listed(d)' <=> Listed(d)) /\ (Closing(d)' <=> Closing(d))
    BY ONLY <2>1 DEF Listed, Closing, Port
  <2>4. \A k \in Closers : closer[k].entry # None => closer[k].entry \in Calls
    BY ONLY <1>t
  <2>5. QED  BY ONLY <2>1, <2>2, <2>3, <2>4, PlaceInv DEF PlaceInv
<1>12. ASSUME NEW c \in Calls, SSHBinds(c) PROVE PlaceInv'
  BY ONLY <1>12, <1>g DEF SSHBinds, callVars
<1>13. ASSUME NEW c \in Calls, SSHExits(c) PROVE PlaceInv'
  BY ONLY <1>13, <1>g DEF SSHExits, callVars
<1>14. ASSUME NEW c \in Calls, Cancel(c) PROVE PlaceInv'
  BY ONLY <1>14, <1>g DEF Cancel, callVars
<1>15. ASSUME NEW k \in Closers, CloseEnd(k) PROVE PlaceInv'
  <2>1. closer' = [closer EXCEPT ![k].pc = "idle"] /\ UNCHANGED <<tunnels, spec, pc, reaper>>
    BY ONLY <1>15 DEF CloseEnd, callVars
  <2>2. \A j \in Closers : closer'[j].entry = closer[j].entry
    BY ONLY <1>t, <2>1
  <2>3. QED  BY ONLY <1>f, <2>1, <2>2 DEF Listed, Port
<1>16. ASSUME NEW k \in Closers, NEW p \in Ports, CloseRemove(k, p) PROVE PlaceInv'
  <2>1. tunnels' = [tunnels EXCEPT ![p] = None] /\ UNCHANGED <<spec, pc, reaper>>
    BY ONLY <1>16 DEF CloseRemove, callVars
  <2>2. closer'[k].entry = tunnels[p] /\ \A j \in Closers : j # k => closer'[j] = closer[j]
    BY ONLY <1>16, <1>t, k \in Closers DEF CloseRemove
  <2>3. \A q \in Ports : tunnels'[q] = IF q = p THEN None ELSE tunnels[q]
    BY ONLY <1>t, <2>1
  <2>4. \A d \in Calls : Listed(d)' => Listed(d) /\ d # tunnels[p]
    <3>1. \A d \in Calls : Port(d)' = Port(d)
      BY ONLY <2>1 DEF Port
    <3>2. \A d \in Calls : d = tunnels[p] => Port(d) = p
      BY ONLY OwnInv, NoneFacts, p \in Ports DEF OwnInv
    <3>3. QED  BY ONLY <1>t, <2>3, <3>1, <3>2, NoneFacts DEF Listed
  <2>5. tunnels[p] \in Calls => Listed(tunnels[p])
    BY ONLY OwnInv, NoneFacts, p \in Ports DEF OwnInv, Listed
  <2>6. \A d \in Calls : Closing(d)' => Closing(d) \/ d = tunnels[p]
    BY ONLY <2>2 DEF Closing
  <2>7. \A d \in Calls : reaper[d] = "release" => ~Listed(d)' /\ ~Closing(d)'
    BY ONLY <2>4, <2>5, <2>6, PlaceInv DEF PlaceInv
  <2>8. (\A j \in Closers : closer[j].entry # None => ~Listed(closer[j].entry))'
    <3>1. SUFFICES ASSUME NEW j \in Closers, NEW e \in Calls, closer'[j].entry = e
                   PROVE  ~Listed(e)'
      <4>1. \A j \in Closers : closer'[j].entry \in Calls \cup {None}
        BY ONLY <1>t, <2>2, p \in Ports
      <4>2. QED  BY ONLY <3>1, <4>1
    <3>2. j # k => ~Listed(e)
      BY ONLY <2>2, <3>1, j \in Closers, e \in Calls, NoneFacts, PlaceInv DEF PlaceInv
    <3>3. QED  BY ONLY <2>2, <2>4, <3>1, <3>2, e \in Calls, j \in Closers
  <2>9. \A j \in Closers : closer[j].entry # None => closer[j].entry # tunnels[p]
    BY ONLY <1>t, <2>5, PlaceInv DEF PlaceInv
  <2>10. \A i, j \in Closers :
           closer'[i].entry # None /\ closer'[i].entry = closer'[j].entry => i = j
    BY ONLY <2>2, <2>9, k \in Closers, PlaceInv DEF PlaceInv
  <2>11. \A d \in Calls : reaper'[d] # "none" => pc'[d] = "ok"
    BY ONLY <2>1, PlaceInv DEF PlaceInv
  <2>12. QED  BY ONLY <2>1, <2>7, <2>8, <2>10, <2>11 DEF PlaceInv
<1>17. ASSUME NEW k \in Closers, CloseRelease(k) PROVE PlaceInv'
  <2>1. closer' = [closer EXCEPT ![k].pc = "kill"] /\ UNCHANGED <<tunnels, spec, pc, reaper>>
    BY ONLY <1>17 DEF CloseRelease, callVars
  <2>2. \A j \in Closers : closer'[j].entry = closer[j].entry
    BY ONLY <1>t, <2>1
  <2>3. QED  BY ONLY <1>f, <2>1, <2>2 DEF Listed, Port
<1>18. ASSUME NEW k \in Closers, CloseKill(k) PROVE PlaceInv'
  <2>1. /\ closer' = [closer EXCEPT ![k].pc = "next", ![k].entry = None]
        /\ UNCHANGED <<tunnels, spec, pc, reaper>>
    BY ONLY <1>18 DEF CloseKill, callVars
  <2>2. \A j \in Closers : closer'[j].entry = IF j = k THEN None ELSE closer[j].entry
    BY ONLY <1>t, <2>1
  <2>3. \A d \in Calls : Listed(d)' <=> Listed(d)
    BY ONLY <2>1 DEF Listed, Port
  <2>4. \A d \in Calls : Closing(d)' => Closing(d)
    BY ONLY <2>2, NoneFacts DEF Closing
  <2>5. \A j \in Closers : closer[j].entry # None => closer[j].entry \in Calls
    BY ONLY <1>t
  <2>6. (\A d \in Calls : reaper[d] = "release" => ~Listed(d) /\ ~Closing(d))'
    BY ONLY <2>1, <2>3, <2>4, PlaceInv DEF PlaceInv
  <2>7. (\A j \in Closers : closer[j].entry # None => ~Listed(closer[j].entry))'
    BY ONLY <2>2, <2>3, <2>5, PlaceInv DEF PlaceInv
  <2>8. (\A i, j \in Closers :
           closer[i].entry # None /\ closer[i].entry = closer[j].entry => i = j)'
    BY ONLY <2>2, PlaceInv DEF PlaceInv
  <2>9. (\A d \in Calls : reaper[d] # "none" => pc[d] = "ok")'
    BY ONLY <2>1, PlaceInv DEF PlaceInv
  <2>10. QED  BY ONLY <2>6, <2>7, <2>8, <2>9 DEF PlaceInv
<1>19. ASSUME NEW k \in Closers, CloseCall(k) PROVE PlaceInv'
  <2>1. PICK hosts, ports : CloseBegin(k, hosts, ports)
    BY <1>19 DEF CloseCall, CloseTunnel, CloseAllForHost, CloseAll
  <2>2. closer[k].entry = None
    BY ONLY <2>1, k \in Closers, OwnInv DEF CloseBegin, OwnInv
  <2>3. \A j \in Closers : closer'[j].entry = closer[j].entry
    BY ONLY <1>t, <2>1, <2>2 DEF CloseBegin
  <2>4. UNCHANGED <<tunnels, spec, pc, reaper>>
    BY ONLY <2>1 DEF CloseBegin, callVars
  <2>5. QED  BY ONLY <1>f, <2>3, <2>4 DEF Listed, Port
<1>20. CASE UNCHANGED vars
  BY ONLY <1>20, <1>g DEF vars, callVars
<1>21. QED
  BY <1>1, <1>2, <1>3, <1>4, <1>5, <1>6, <1>7, <1>8, <1>9, <1>10, <1>11, <1>12, <1>13, <1>14, <1>15, <1>16, <1>17, <1>18, <1>19, <1>20
     DEF Next, CreateStep, ReapStep, CloseStep, SSHStep

(* No ssh process is ever orphaned: a call in progress, the entry of its port or a   *)
(* closer is still going to see to it.                                               *)
THEOREM ProcessesOwned == Spec => []EveryProcessOwned
<1>1. Init => TypeInv /\ OwnInv /\ PlaceInv
  <2> SUFFICES ASSUME Init PROVE TypeInv /\ OwnInv /\ PlaceInv
    OBVIOUS
  <2>1. /\ \A p \in Ports : tunnels[p] = None
        /\ \A c \in Calls : pc[c] = "new" /\ proc[c] = "none" /\ reaper[c] = "none"
        /\ \A k \in Closers : closer[k].pc = "idle" /\ closer[k].entry = None
    BY ONLY Init DEF Init
  <2>2. OwnInv
    BY ONLY <2>1, NoneFacts DEF OwnInv, Created
  <2>3. PlaceInv
    BY ONLY <2>1 DEF PlaceInv
  <2>4. QED  BY InitTypeInv, <2>2, <2>3
<1>2. TypeInv /\ OwnInv /\ PlaceInv /\ [Next]_vars => (TypeInv /\ OwnInv /\ PlaceInv)'
  BY TypeStep, OwnStep, PlaceStep
<1>3. TypeInv /\ OwnInv /\ PlaceInv => EveryProcessOwned
  BY DEF TypeInv, TypeOK, CreatePCs, OwnInv, Created, EveryProcessOwned
<1>4. QED  BY <1>1, <1>2, <1>3, PTL DEF Spec
=============================================================================
