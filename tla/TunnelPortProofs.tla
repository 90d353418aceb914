-------------------------- MODULE TunnelPortProofs --------------------------
(* Proof that reservations and their holders correspond one to one when every port of *)
(* Tunnel is allocated.                                                             *)
EXTENDS TunnelProofs

(* With allocated ports only, every step keeps where a call has its port from. *)
LEMMA AutoStep == TypeInv /\ AutoPorts /\ [Next]_vars => AutoPorts'
<1> SUFFICES ASSUME TypeInv, AutoPorts, [Next]_vars PROVE AutoPorts'
  OBVIOUS
<1> USE NoneFacts DEF TypeInv, TypeOK, Port, CreatePCs, At, Goto, callVars, procVars, AutoPorts
<1>1. ASSUME NEW c \in Calls, Create(c) PROVE AutoPorts'
  BY <1>1 DEF Create
<1>2. ASSUME NEW c \in Calls, AllocatePort(c) PROVE AutoPorts'
  <2>1. pc[c] = "alloc" /\ \A d \in Calls : d # c => pc'[d] = pc[d] /\ spec'[d] = spec[d]
    BY <1>2 DEF AllocatePort
  <2>2. auto \subseteq auto'
    BY <1>2 DEF AllocatePort
  <2>3. pc'[c] = "err" \/ (pc'[c] = "spawn" /\ c \in auto')
    <3>1. CASE Goto(c, "err")
      <4>1. pc'[c] = "err"
        BY <3>1
      <4>2. QED  BY ONLY <4>1
    <3>2. CASE auto' = auto \cup {c} /\ Goto(c, "spawn")
      BY <3>2
    <3>3. QED  BY <1>2, <3>1, <3>2 DEF AllocatePort
  <2>4. QED  BY <2>1, <2>2, <2>3
<1>3. ASSUME NEW c \in Calls, Spawn(c) PROVE AutoPorts'
  <2>1. pc[c] = "spawn" /\ UNCHANGED <<spec, auto>>
    BY <1>3 DEF Spawn
  <2>2. PICK l \in {"confirm", "err"} : Goto(c, l)
    BY <1>3 DEF Spawn
  <2>3. QED  BY <2>1, <2>2
<1>4. ASSUME NEW c \in Calls, Confirm(c) PROVE AutoPorts'
  BY <1>4 DEF Confirm
<1>5. ASSUME NEW c \in Calls, Insert(c) PROVE AutoPorts'
  BY <1>5 DEF Insert
<1>6. ASSUME NEW c \in Calls, RejectKill(c) PROVE AutoPorts'
  BY <1>6 DEF RejectKill, KillAndWait, Exit
<1>7. ASSUME NEW c \in Calls, RejectUnreserve(c) PROVE AutoPorts'
  BY <1>7 DEF RejectUnreserve, Unreserve, ReleasePort
<1>8. ASSUME NEW c \in Calls, Mark(c) PROVE AutoPorts'
  BY <1>8 DEF Mark, MarkAllocated
<1>9. ASSUME NEW c \in Calls, StartReaper(c) PROVE AutoPorts'
  BY <1>9 DEF StartReaper
<1>10. ASSUME NEW c \in Calls, Reap(c) PROVE AutoPorts'
  BY <1>10 DEF Reap, Dead
<1>11. ASSUME NEW c \in Calls, ReapRelease(c) PROVE AutoPorts'
  BY <1>11 DEF ReapRelease, ReleasePort
<1>12. ASSUME NEW c \in Calls, SSHBinds(c) PROVE AutoPorts'
  BY <1>12 DEF SSHBinds, isPortAvailable
<1>13. ASSUME NEW c \in Calls, SSHExits(c) PROVE AutoPorts'
  BY <1>13 DEF SSHExits, Exit
<1>14. ASSUME NEW c \in Calls, Cancel(c) PROVE AutoPorts'
  BY <1>14 DEF Cancel, KillAndWait, Exit
<1>15. ASSUME NEW k \in Closers, CloseEnd(k) PROVE AutoPorts'
  BY <1>15 DEF CloseEnd
<1>16. ASSUME NEW k \in Closers, NEW p \in Ports, CloseRemove(k, p) PROVE AutoPorts'
  BY <1>16 DEF CloseRemove
<1>17. ASSUME NEW k \in Closers, CloseRelease(k) PROVE AutoPorts'
  BY <1>17 DEF CloseRelease, ReleasePort
<1>18. ASSUME NEW k \in Closers, CloseKill(k) PROVE AutoPorts'
  BY <1>18 DEF CloseKill, KillAndWait, Exit
<1>19. ASSUME NEW k \in Closers, CloseCall(k) PROVE AutoPorts'
  <2>1. UNCHANGED callVars
    BY <1>19 DEF CloseCall, CloseTunnel, CloseAllForHost, CloseAll, CloseBegin
  <2>2. QED  BY <2>1
<1>20. CASE UNCHANGED vars
  BY <1>20 DEF vars, callVars, procVars
<1>21. QED
  BY <1>1, <1>2, <1>3, <1>4, <1>5, <1>6, <1>7, <1>8, <1>9, <1>10, <1>11, <1>12, <1>13, <1>14, <1>15, <1>16, <1>17, <1>18, <1>19, <1>20
     DEF Next, CreateStep, ReapStep, CloseStep, SSHStep

(* A call that allocates has no port yet. *)
AllocInv == \A c \in Calls : pc[c] = "alloc" => Port(c) = None

(* Only AllocatePort changes a spec, and only Create gets a call to it. *)
LEMMA PortFrame ==
    ASSUME TypeInv, [Next]_vars
    PROVE  \/ \E c \in Calls : AllocatePort(c) \/ Create(c)
           \/ /\ UNCHANGED <<spec, auto>>
              /\ \A d \in Calls : pc'[d] = "alloc" => pc[d] = "alloc"
<1> USE DEF At, Goto, callVars, TypeInv, TypeOK
<1> DEFINE Frame == UNCHANGED <<spec, auto>> /\ \A d \in Calls : pc'[d] = "alloc" => pc[d] = "alloc"
<1>1. ASSUME NEW c \in Calls, CreateStep(c), ~AllocatePort(c) PROVE Frame
  <2>1. PICK l \in CreatePCs \cup {"ok", "err"} : Goto(c, l)
    BY <1>1 DEF CreateStep, Spawn, Confirm, Insert, RejectKill, RejectUnreserve, Mark, StartReaper, CreatePCs
  <2>2. l # "alloc"
    BY DEF CreatePCs
  <2>3. UNCHANGED <<spec, auto>>
    BY <1>1 DEF CreateStep, Spawn, Confirm, Insert, RejectKill, RejectUnreserve, Mark, StartReaper
  <2>4. QED  BY <2>1, <2>2, <2>3
<1>2. ASSUME NEW c \in Calls, ReapStep(c) \/ SSHStep(c) PROVE Frame
  BY <1>2 DEF ReapStep, SSHStep, Reap, ReapRelease, SSHBinds, SSHExits, Cancel
<1>3. ASSUME NEW k \in Closers, CloseCall(k) \/ CloseStep(k) PROVE Frame
  BY <1>3 DEF CloseCall, CloseTunnel, CloseAllForHost, CloseAll, CloseBegin, CloseStep, CloseEnd,
     CloseRemove, CloseRelease, CloseKill
<1>4. CASE UNCHANGED vars
  BY <1>4 DEF vars
<1>5. QED  BY <1>1, <1>2, <1>3, <1>4 DEF Next

(* Every step keeps it so. *)
LEMMA AllocStep == TypeInv /\ AllocInv /\ [Next]_vars => AllocInv'
<1> SUFFICES ASSUME TypeInv, AllocInv, [Next]_vars PROVE AllocInv'
  OBVIOUS
<1> USE DEF At, Goto, Port, AllocInv, TypeInv, TypeOK
<1>1. ASSUME NEW c \in Calls, AllocatePort(c) PROVE AllocInv'
  <2>1. pc'[c] # "alloc" /\ \A d \in Calls : d # c => spec'[d] = spec[d] /\ pc'[d] = pc[d]
    BY <1>1 DEF AllocatePort
  <2>2. QED  BY <2>1
<1>2. ASSUME NEW c \in Calls, Create(c) PROVE AllocInv'
  BY <1>2 DEF Create
<1>3. QED  BY <1>1, <1>2, PortFrame

(* No step makes all ports allocated ones: a spec that names its port keeps it. *)
LEMMA AllAutoBefore == TypeInv /\ AllocInv /\ [Next]_vars /\ AllAuto' => AllAuto
<1> SUFFICES ASSUME TypeInv, AllocInv, [Next]_vars, AllAuto' PROVE AllAuto
  OBVIOUS
<1>1. ASSUME NEW c \in Calls, AllocatePort(c) PROVE AllAuto
  <2>1. Port(c) = None
    BY <1>1 DEF AllocatePort, At, AllocInv
  <2>2. \A d \in Calls : d # c => spec'[d] = spec[d] /\ (d \in auto' => d \in auto)
    BY <1>1 DEF AllocatePort, TypeInv, TypeOK
  <2>3. QED  BY <2>1, <2>2 DEF AllAuto, Port
<1>2. CASE UNCHANGED <<spec, auto>>
  BY <1>2 DEF AllAuto, Port
<1>3. ASSUME NEW c \in Calls, Create(c) PROVE UNCHANGED <<spec, auto>>
  BY <1>3 DEF Create
<1>4. QED  BY <1>1, <1>2, <1>3, PortFrame

(* What a step does to the holders of ports: nothing, one more, or one less. *)
HoldersSame ==
    /\ alloc' = alloc
    /\ \A d \in Calls : (HoldsPort(d)' <=> HoldsPort(d)) /\ (HoldsPort(d) => Port(d)' = Port(d))

HolderAdded(c) ==
    /\ Port(c)' \notin alloc
    /\ alloc' = alloc \cup {Port(c)'}
    /\ HoldsPort(c)' /\ ~HoldsPort(c)
    /\ \A d \in Calls : d # c => (HoldsPort(d)' <=> HoldsPort(d)) /\ Port(d)' = Port(d)

HolderGone(c) ==
    /\ HoldsPort(c) /\ ~HoldsPort(c)'
    /\ alloc' = alloc \ {Port(c)}
    /\ \A d \in Calls : Port(d)' = Port(d)
    /\ \A d \in Calls : d # c => (HoldsPort(d)' <=> HoldsPort(d))

(* Each of the three keeps ports and holders in correspondence. *)
LEMMA HoldersBalance ==
    ASSUME Balanced,
           HoldersSame \/ \E c \in Calls : HolderAdded(c) \/ HolderGone(c)
    PROVE  Balanced'
<1>1. CASE HoldersSame
  BY <1>1 DEF HoldersSame, Balanced
<1>2. ASSUME NEW c \in Calls, HolderAdded(c) PROVE Balanced'
  BY <1>2 DEF HolderAdded, Balanced
<1>3. ASSUME NEW c \in Calls, HolderGone(c) PROVE Balanced'
  BY <1>3 DEF HolderGone, Balanced
<1>4. QED  BY <1>1, <1>2, <1>3

(* Every step does one of the three. *)
LEMMA HoldersStep ==
    ASSUME TypeInv, OwnInv, PlaceInv, AutoPorts, [Next]_vars
    PROVE  HoldersSame \/ \E c \in Calls : HolderAdded(c) \/ HolderGone(c)
<1>t. /\ tunnels \in [Ports -> Calls \cup {None}]
      /\ pc \in [Calls -> CreatePCs \cup {"new", "alloc", "ok", "err"}]
      /\ reaper \in [Calls -> {"none", "wait", "release", "done"}]
      /\ DOMAIN closer = Closers
      /\ \A k \in Closers : closer[k].entry \in Calls \cup {None}
      /\ \A c \in Calls : Port(c) \in Ports \cup {None}
      /\ PortKnown
  BY DEF TypeInv, TypeOK, Port
<1> DEFINE Early(l) == l \in {"spawn", "confirm", "insert", "kill", "unreserve"}
(* A step that touches neither the table, the entries, the reapers nor the closers, and   *)
(* takes no call past its rejection or its insertion, leaves every holder what it was.    *)
<1>h. ASSUME UNCHANGED <<tunnels, alloc, spec, auto, reaper, closer>>,
             \A d \in Calls : Early(pc'[d]) <=> Early(pc[d])
      PROVE  HoldersSame
  BY ONLY <1>h DEF HoldersSame, HoldsPort, Port, Listed, Releasing
(* A call that has not made its entry is in no table, with no reaper and no closer. *)
<1>n. ASSUME NEW c \in Calls, ~Created(c)
      PROVE  ~Listed(c) /\ ~Closing(c) /\ ~Releasing(c) /\ reaper[c] = "none"
  <2>1. reaper[c] = "none" /\ pc[c] # "ok"
    BY ONLY <1>n, <1>t, PlaceInv DEF PlaceInv, Created
  <2>2. \A q \in Ports : tunnels[q] # c
    BY ONLY <1>n, NoneFacts, c \in Calls, OwnInv DEF OwnInv
  <2>3. \A k \in Closers : closer[k].entry # c
    BY ONLY <1>n, NoneFacts, c \in Calls, OwnInv DEF OwnInv
  <2>4. QED  BY ONLY <1>t, <2>1, <2>2, <2>3, c \in Calls DEF Listed, Closing, Releasing
(* A rejected or failed call that gives its port back is one holder less. *)
<1>g. ASSUME NEW c \in Calls, Early(pc[c]), pc' = [pc EXCEPT ![c] = "err"],
             alloc' = alloc \ {Port(c)}, UNCHANGED <<tunnels, spec, auto, reaper, closer>>
      PROVE  HolderGone(c)
  <2>1. c \in auto
    BY ONLY <1>g, c \in Calls, AutoPorts DEF AutoPorts
  <2>2. ~Listed(c) /\ ~Releasing(c) /\ reaper[c] = "none"
    BY ONLY <1>g, <1>n, c \in Calls DEF Created
  <2>3. \A d \in Calls : pc'[d] = IF d = c THEN "err" ELSE pc[d]
    BY ONLY <1>g, <1>t, c \in Calls
  <2>u. UNCHANGED <<tunnels, spec, auto, reaper, closer>>
    BY ONLY <1>g
  <2>4. \A d \in Calls : /\ Port(d)' = Port(d)
                          /\ (Listed(d)' <=> Listed(d))
                          /\ (Releasing(d)' <=> Releasing(d))
    BY ONLY <2>u DEF Port, Listed, Releasing
  <2>5. HoldsPort(c) /\ ~HoldsPort(c)'
    BY ONLY <1>g, <2>1, <2>2, <2>3, <2>4, c \in Calls DEF HoldsPort
  <2>6. \A d \in Calls : d # c => (HoldsPort(d)' <=> HoldsPort(d))
    BY ONLY <1>g, <2>3, <2>4 DEF HoldsPort
  <2>7. QED  BY ONLY <1>g, <2>4, <2>5, <2>6 DEF HolderGone
<1>1. ASSUME NEW c \in Calls, Create(c) PROVE HoldersSame
  <2>1. pc[c] = "new" /\ UNCHANGED <<tunnels, alloc, spec, auto, reaper, closer>>
    BY ONLY <1>1 DEF Create, At
  <2>2. Port(c) = None
    BY ONLY <2>1, AutoPorts, c \in Calls DEF AutoPorts
  <2>3. PICK l \in {"err", "alloc"} : pc' = [pc EXCEPT ![c] = l]
    BY ONLY <1>1, <2>2 DEF Create, Goto
  <2>4. QED  BY <1>h, <1>t, <2>1, <2>3
<1> USE NoneFacts, <1>t DEF PortKnown, Port, CreatePCs, At, Goto, callVars, procVars,
        Listed, Closing, Releasing, Created, OwnInv, PlaceInv, AutoPorts, HoldsPort
<1>2. ASSUME NEW c \in Calls, AllocatePort(c) PROVE HoldersSame \/ HolderAdded(c)
  <2>1. pc[c] = "alloc" /\ UNCHANGED <<tunnels, reaper, closer>>
    BY ONLY <1>2 DEF AllocatePort, At
  <2>2. (\A q \in Ports : tunnels[q] # c) /\ ~Releasing(c) /\ reaper[c] = "none"
    BY <2>1
  <2>3. CASE Goto(c, "err") /\ UNCHANGED <<alloc, spec, auto>>
    BY ONLY <1>h, <1>t, <2>1, <2>3 DEF Goto
  <2>4. ASSUME NEW p \in PortRange, Allocate(p), spec' = [spec EXCEPT ![c].port = p],
               auto' = auto \cup {c}, Goto(c, "spawn")
        PROVE  HolderAdded(c)
    <3>1. p \in Ports /\ p \notin alloc /\ alloc' = alloc \cup {p}
      BY <2>4 DEF Allocate, Candidate, Free, Ports
    <3>2. Port(c)' = p /\ \A d \in Calls : d # c => spec'[d] = spec[d] /\ pc'[d] = pc[d]
      BY <2>4 DEF TypeInv, TypeOK
    <3>3. pc'[c] = "spawn" /\ c \in auto' /\ \A d \in Calls : d # c => (d \in auto' <=> d \in auto)
      BY <2>4
    <3>4. ~Listed(c) /\ ~HoldsPort(c)
      <4>1. Port(c) = None
        BY <2>1
      <4>2. QED  BY ONLY <2>1, <2>2, <4>1 DEF Listed, HoldsPort
    <3>5. HoldsPort(c)'
      BY ONLY <3>3 DEF HoldsPort
    <3>6. ASSUME NEW d \in Calls, d # c PROVE (HoldsPort(d)' <=> HoldsPort(d)) /\ Port(d)' = Port(d)
      <4>1. Port(d)' = Port(d) /\ (Listed(d)' <=> Listed(d)) /\ (Releasing(d)' <=> Releasing(d))
        BY ONLY <2>1, <3>2, <3>6 DEF Port, Listed, Releasing
      <4>2. QED  BY ONLY <2>1, <3>2, <3>3, <3>6, <4>1 DEF HoldsPort
    <3>7. QED  BY ONLY <3>1, <3>2, <3>4, <3>5, <3>6 DEF HolderAdded
  <2>5. QED  BY <1>2, <2>3, <2>4 DEF AllocatePort
<1>3. ASSUME NEW c \in Calls, Spawn(c) PROVE HoldersSame \/ HolderGone(c)
  <2>1. pc[c] = "spawn" /\ UNCHANGED <<tunnels, spec, auto, reaper, closer>>
    BY ONLY <1>3 DEF Spawn, At
  <2>2. CASE pc' = [pc EXCEPT ![c] = "confirm"] /\ UNCHANGED alloc
    BY ONLY <1>h, <1>t, <2>1, <2>2
  <2>3. CASE pc' = [pc EXCEPT ![c] = "err"] /\ alloc' = alloc \ {Port(c)}
    BY ONLY <1>g, <2>1, <2>3, c \in Calls
  <2>4. c \in auto
    BY ONLY <2>1, c \in Calls, AutoPorts DEF AutoPorts
  <2>5. QED  BY ONLY <1>3, <2>2, <2>3, <2>4 DEF Spawn, Unreserve, ReleasePort, Goto
<1>4. ASSUME NEW c \in Calls, Confirm(c) PROVE HoldersSame
  <2>1. /\ pc[c] = "confirm" /\ pc' = [pc EXCEPT ![c] = "insert"]
        /\ UNCHANGED <<tunnels, alloc, spec, auto, reaper, closer>>
    BY ONLY <1>4 DEF Confirm, At, Goto
  <2>2. QED  BY ONLY <1>h, <1>t, <2>1
<1>5. ASSUME NEW c \in Calls, Insert(c) PROVE HoldersSame
  <2>1. pc[c] = "insert" /\ UNCHANGED <<alloc, spec, auto, reaper, closer>>
    BY ONLY <1>5 DEF Insert, At
  <2>2. c \in auto /\ Port(c) \in Ports
    BY ONLY <2>1, <1>t, c \in Calls, AutoPorts DEF AutoPorts, PortKnown
  <2>3. CASE tunnels[Port(c)] # None
    <3>1. pc' = [pc EXCEPT ![c] = "kill"] /\ UNCHANGED tunnels
      BY ONLY <1>5, <2>3 DEF Insert, Goto
    <3>2. QED  BY ONLY <1>h, <1>t, <2>1, <3>1
  <2>4. CASE tunnels[Port(c)] = None
    <3>1. tunnels' = [tunnels EXCEPT ![Port(c)] = c] /\ pc' = [pc EXCEPT ![c] = "reap"]
      BY ONLY <1>5, <2>2, <2>4 DEF Insert, Goto
    <3>p. \A d \in Calls : pc'[d] = IF d = c THEN "reap" ELSE pc[d]
      BY ONLY <1>t, <3>1, c \in Calls
    <3>2. \A d \in Calls : Port(d)' = Port(d) /\ (Releasing(d)' <=> Releasing(d))
      BY ONLY <2>1 DEF Port, Releasing
    <3>3. \A q \in Ports : tunnels'[q] = IF q = Port(c) THEN c ELSE tunnels[q]
      BY ONLY <1>t, <3>1
    <3>4. \A d \in Calls : d # c => (Listed(d)' <=> Listed(d))
      BY ONLY <1>t, <2>4, <3>2, <3>3, NoneFacts DEF Listed
    <3>5. Listed(c)'
      BY ONLY <2>2, <3>2, <3>3, NoneFacts, c \in Calls DEF Listed
    <3>6. HoldsPort(c) /\ HoldsPort(c)'
      BY ONLY <2>1, <2>2, <3>5 DEF HoldsPort
    <3>7. \A d \in Calls : d # c => (HoldsPort(d)' <=> HoldsPort(d))
      BY ONLY <2>1, <3>p, <3>2, <3>4 DEF HoldsPort
    <3>8. QED  BY ONLY <2>1, <3>2, <3>6, <3>7 DEF HoldersSame
  <2>5. QED  BY ONLY <2>3, <2>4
<1>6. ASSUME NEW c \in Calls, RejectKill(c) PROVE HoldersSame
  <2>1. /\ pc[c] = "kill" /\ pc' = [pc EXCEPT ![c] = "unreserve"]
        /\ UNCHANGED <<tunnels, alloc, spec, auto, reaper, closer>>
    BY ONLY <1>6 DEF RejectKill, At, Goto
  <2>2. QED  BY ONLY <1>h, <1>t, <2>1
<1>7. ASSUME NEW c \in Calls, RejectUnreserve(c) PROVE HolderGone(c)
  <2>1. /\ pc[c] = "unreserve" /\ pc' = [pc EXCEPT ![c] = "err"]
        /\ UNCHANGED <<tunnels, spec, auto, reaper, closer>>
    BY ONLY <1>7 DEF RejectUnreserve, At, Goto
  <2>2. c \in auto
    BY ONLY <2>1, c \in Calls, AutoPorts DEF AutoPorts
  <2>3. alloc' = alloc \ {Port(c)}
    BY ONLY <1>7, <2>2 DEF RejectUnreserve, Unreserve, ReleasePort
  <2>4. QED  BY ONLY <1>g, <2>1, <2>3, c \in Calls
<1>8. ASSUME NEW c \in Calls, Mark(c) PROVE HoldersSame
  BY ONLY <1>8, AutoPorts, c \in Calls DEF Mark, At, AutoPorts
<1>9. ASSUME NEW c \in Calls, StartReaper(c) PROVE HoldersSame
  <2>1. /\ pc[c] = "reap" /\ pc' = [pc EXCEPT ![c] = "ok"]
        /\ reaper' = [reaper EXCEPT ![c] = "wait"]
        /\ UNCHANGED <<tunnels, alloc, spec, auto, closer>>
    BY ONLY <1>9 DEF StartReaper, At, Goto
  <2>2. reaper[c] = "none"
    BY ONLY <1>t, <2>1, PlaceInv DEF PlaceInv
  <2>3. \A d \in Calls : pc'[d] = IF d = c THEN "ok" ELSE pc[d]
    BY ONLY <1>t, <2>1, c \in Calls
  <2>4. \A d \in Calls : reaper'[d] = IF d = c THEN "wait" ELSE reaper[d]
    BY ONLY <1>t, <2>1, c \in Calls
  <2>5. ~(c \in auto /\ Early(pc[c])) /\ reaper[c] # "release"
    BY ONLY <2>1, <2>2
  <2>6. \A d \in Calls : /\ Port(d)' = Port(d)
                          /\ (Listed(d)' <=> Listed(d))
                          /\ (Releasing(d)' <=> Releasing(d))
    BY ONLY <2>1 DEF Port, Listed, Releasing
  <2>7. \A d \in Calls : HoldsPort(d)' <=> HoldsPort(d)
    BY ONLY <2>1, <2>3, <2>4, <2>5, <2>6 DEF HoldsPort
  <2>8. QED  BY ONLY <2>1, <2>6, <2>7 DEF HoldersSame
<1>10. ASSUME NEW c \in Calls, Reap(c) PROVE HoldersSame
  <2>1. reaper[c] = "wait" /\ UNCHANGED <<alloc, spec, auto, pc, closer>>
    BY ONLY <1>10 DEF Reap, callVars
  <2>2. \A d \in Calls : Port(d)' = Port(d) /\ (Releasing(d)' <=> Releasing(d))
    BY ONLY <2>1 DEF Port, Releasing
  <2>3. CASE reaper' = [reaper EXCEPT ![c] = "done"] /\ UNCHANGED tunnels
    <3>1. \A d \in Calls : reaper'[d] = IF d = c THEN "done" ELSE reaper[d]
      BY ONLY <1>t, <2>3, c \in Calls
    <3>2. QED  BY ONLY <2>1, <2>2, <2>3, <3>1 DEF HoldersSame, HoldsPort, Listed
  <2>4. CASE /\ Listed(c)
             /\ tunnels' = [tunnels EXCEPT ![Port(c)] = None]
             /\ reaper' = [reaper EXCEPT ![c] = "release"]
    <3>1. \A d \in Calls : reaper'[d] = IF d = c THEN "release" ELSE reaper[d]
      BY ONLY <1>t, <2>4, c \in Calls
    <3>2. \A q \in Ports : tunnels'[q] = IF q = Port(c) THEN None ELSE tunnels[q]
      BY ONLY <1>t, <2>4
    <3>3. \A d \in Calls : d # c => (Listed(d)' <=> Listed(d))
      BY ONLY <1>t, <2>2, <2>4, <3>2, NoneFacts DEF Listed
    <3>4. HoldsPort(c) /\ HoldsPort(c)'
      BY ONLY <2>4, <3>1, c \in Calls DEF HoldsPort
    <3>5. \A d \in Calls : d # c => (HoldsPort(d)' <=> HoldsPort(d))
      BY ONLY <2>1, <2>2, <3>1, <3>3 DEF HoldsPort
    <3>6. \A d \in Calls : HoldsPort(d)' <=> HoldsPort(d)
      BY ONLY <3>4, <3>5
    <3>7. QED  BY ONLY <2>1, <2>2, <3>6 DEF HoldersSame
  <2>5. QED  BY ONLY <1>10, <2>3, <2>4 DEF Reap
<1>11. ASSUME NEW c \in Calls, ReapRelease(c) PROVE HolderGone(c)
  <2>1. /\ reaper[c] = "release" /\ reaper' = [reaper EXCEPT ![c] = "done"]
        /\ alloc' = alloc \ {Port(c)}
        /\ UNCHANGED <<tunnels, spec, auto, pc, closer>>
    BY ONLY <1>11 DEF ReapRelease, ReleasePort, callVars
  <2>2. pc[c] = "ok" /\ ~Listed(c) /\ ~Closing(c)
    BY ONLY <2>1, c \in Calls, PlaceInv DEF PlaceInv
  <2>3. \A d \in Calls : reaper'[d] = IF d = c THEN "done" ELSE reaper[d]
    BY ONLY <1>t, <2>1, c \in Calls
  <2>4. \A d \in Calls : /\ Port(d)' = Port(d)
                          /\ (Listed(d)' <=> Listed(d))
                          /\ (Releasing(d)' <=> Releasing(d))
    BY ONLY <2>1 DEF Port, Listed, Releasing
  <2>5. HoldsPort(c) /\ ~HoldsPort(c)'
    BY ONLY <2>1, <2>2, <2>3, <2>4, c \in Calls DEF HoldsPort, Closing, Releasing
  <2>6. \A d \in Calls : d # c => (HoldsPort(d)' <=> HoldsPort(d))
    BY ONLY <2>1, <2>3, <2>4 DEF HoldsPort
  <2>7. QED  BY ONLY <2>1, <2>4, <2>5, <2>6 DEF HolderGone
<1>12. ASSUME NEW c \in Calls, SSHBinds(c) PROVE HoldersSame
  BY ONLY <1>h, <1>12 DEF SSHBinds, callVars
<1>13. ASSUME NEW c \in Calls, SSHExits(c) PROVE HoldersSame
  BY ONLY <1>h, <1>13 DEF SSHExits, callVars
<1>14. ASSUME NEW c \in Calls, Cancel(c) PROVE HoldersSame
  BY ONLY <1>h, <1>14 DEF Cancel, callVars
<1>15. ASSUME NEW k \in Closers, CloseEnd(k) PROVE HoldersSame
  BY <1>15 DEF HoldersSame, CloseEnd
<1>16. ASSUME NEW k \in Closers, NEW p \in Ports, CloseRemove(k, p) PROVE HoldersSame
  <2>1. /\ closer[k].pc = "next" /\ tunnels' = [tunnels EXCEPT ![p] = None]
        /\ UNCHANGED <<alloc, spec, auto, pc, reaper>>
    BY ONLY <1>16 DEF CloseRemove, callVars
  <2>2. /\ closer'[k].pc = IF tunnels[p] = None THEN "next" ELSE "release"
        /\ closer'[k].entry = tunnels[p]
    BY ONLY <1>16, <1>t, k \in Closers DEF CloseRemove
  <2>3. \A j \in Closers : j # k => closer'[j] = closer[j]
    BY ONLY <1>16, <1>t, k \in Closers DEF CloseRemove
  <2>4. \A q \in Ports : tunnels'[q] = IF q = p THEN None ELSE tunnels[q]
    BY ONLY <1>t, <2>1
  <2>5. \A d \in Calls : Port(d)' = Port(d)
    BY ONLY <2>1 DEF Port
  <2>6. ASSUME NEW d \in Calls, tunnels[p] # d
        PROVE (Listed(d)' <=> Listed(d)) /\ (Releasing(d)' <=> Releasing(d))
    <3>1. Listed(d)' <=> Listed(d)
      BY ONLY <1>t, <2>4, <2>5, <2>6, NoneFacts DEF Listed
    <3>2. ASSUME NEW j \in Closers
          PROVE (closer[j].entry = d /\ closer[j].pc = "release")
                  <=> (closer'[j].entry = d /\ closer'[j].pc = "release")
      BY ONLY <2>1, <2>2, <2>3, <2>6, j \in Closers
    <3>3. QED  BY ONLY <3>1, <3>2 DEF Releasing
  <2>7. ASSUME NEW d \in Calls, tunnels[p] = d PROVE HoldsPort(d) /\ HoldsPort(d)'
    <3>1. Port(d) = p /\ p \in Ports /\ d # None
      BY ONLY <2>7, OwnInv, NoneFacts, p \in Ports DEF OwnInv
    <3>2. Listed(d) /\ Releasing(d)'
      BY ONLY <2>2, <2>7, <3>1, NoneFacts, k \in Closers DEF Listed, Releasing
    <3>3. QED  BY ONLY <3>2 DEF HoldsPort
  <2>8. QED  BY ONLY <2>1, <2>5, <2>6, <2>7 DEF HoldersSame, HoldsPort
<1>17. ASSUME NEW k \in Closers, CloseRelease(k) PROVE \E c \in Calls : HolderGone(c)
  <2>1. PICK c \in Calls : c = closer[k].entry
    BY <1>17 DEF CloseRelease
  <2>2. alloc' = alloc \ {Port(c)} /\ UNCHANGED <<tunnels, callVars, reaper>>
    BY <1>17, <2>1 DEF CloseRelease, ReleasePort
  <2>3. closer[k].pc = "release" /\ closer'[k].pc = "kill" /\ closer'[k].entry = c
    BY <1>17, <2>1 DEF CloseRelease
  <2>4. \A j \in Closers : j # k => closer'[j] = closer[j]
    BY <1>17 DEF CloseRelease
  <2>5. Releasing(c) /\ ~Releasing(c)'
    <3>1. \A j \in Closers : j # k => closer[j].entry # c
      BY ONLY <2>1, k \in Closers, NoneFacts, PlaceInv DEF PlaceInv
    <3>2. QED  BY ONLY <2>1, <2>3, <2>4, <3>1, k \in Closers DEF Releasing
  <2>6. ASSUME NEW d \in Calls, d # c PROVE Releasing(d)' <=> Releasing(d)
    <3>1. \A j \in Closers : (closer[j].entry = d /\ closer[j].pc = "release")
                                <=> (closer'[j].entry = d /\ closer'[j].pc = "release")
      BY ONLY <2>1, <2>3, <2>4, <2>6
    <3>2. QED  BY ONLY <3>1 DEF Releasing
  <2>7. ~Listed(c) /\ reaper[c] # "release" /\ Created(c)
    <3>1. c # None /\ Closing(c)
      BY ONLY <2>1, k \in Closers, NoneFacts DEF Closing
    <3>2. Created(c)
      BY ONLY <2>1, <3>1, k \in Closers, OwnInv DEF OwnInv
    <3>3. ~Listed(c) /\ reaper[c] # "release"
      BY ONLY <2>1, <3>1, k \in Closers, PlaceInv DEF PlaceInv
    <3>4. QED  BY ONLY <3>2, <3>3
  <2>8. ~HoldsPort(c)'
    BY <2>2, <2>5, <2>7
  <2>9. HoldsPort(c)
    BY ONLY <2>5 DEF HoldsPort
  <2>10. \A d \in Calls : Port(d)' = Port(d) /\ (Listed(d)' <=> Listed(d))
    BY ONLY <2>2 DEF Port, Listed, callVars
  <2>11. \A d \in Calls : d # c => (HoldsPort(d)' <=> HoldsPort(d))
    BY ONLY <2>2, <2>6, <2>10 DEF HoldsPort, callVars
  <2>12. QED  BY ONLY <2>1, <2>2, <2>8, <2>9, <2>10, <2>11 DEF HolderGone
<1>18. ASSUME NEW k \in Closers, CloseKill(k) PROVE HoldersSame
  BY <1>18 DEF HoldersSame, CloseKill, KillAndWait, Exit
<1>19. ASSUME NEW k \in Closers, CloseCall(k) PROVE HoldersSame
  <2>1. PICK hosts, ports : CloseBegin(k, hosts, ports)
    BY <1>19 DEF CloseCall, CloseTunnel, CloseAllForHost, CloseAll
  <2>0. /\ closer[k].pc = "idle"
        /\ closer' = [closer EXCEPT ![k] =
             [pc |-> "next", hosts |-> hosts, todo |-> ports, entry |-> None]]
    BY ONLY <2>1 DEF CloseBegin
  <2>t. DOMAIN closer = Closers
    BY DEF TypeInv, TypeOK
  <2>2. closer[k].pc = "idle" /\ closer'[k].pc = "next"
    BY ONLY <2>0, <2>t, k \in Closers
  <2>3. \A j \in Closers : j # k => closer'[j] = closer[j]
    BY ONLY <2>0, <2>t, k \in Closers
  <2>4. ASSUME NEW c \in Calls PROVE Releasing(c)' <=> Releasing(c)
    <3>1. ASSUME NEW j \in Closers
          PROVE (closer[j].entry = c /\ closer[j].pc = "release")
                  <=> (closer'[j].entry = c /\ closer'[j].pc = "release")
      BY <2>2, <2>3
    <3>2. QED  BY <3>1
  <2>5. UNCHANGED <<tunnels, alloc, callVars, reaper>>
    BY <2>1 DEF CloseBegin
  <2>6. QED  BY <2>4, <2>5 DEF HoldersSame
<1>20. ASSUME UNCHANGED vars PROVE HoldersSame
  BY ONLY <1>h, <1>20 DEF vars, callVars
<1> DEFINE Goal == HoldersSame \/ \E c \in Calls : HolderAdded(c) \/ HolderGone(c)
<1>21. ASSUME NEW c \in Calls, Create(c) \/ CreateStep(c) PROVE Goal
  BY ONLY <1>21, c \in Calls, <1>1, <1>2, <1>3, <1>4, <1>5, <1>6, <1>7, <1>8, <1>9 DEF CreateStep
<1>22. ASSUME NEW c \in Calls, ReapStep(c) \/ SSHStep(c) PROVE Goal
  BY ONLY <1>22, c \in Calls, <1>10, <1>11, <1>12, <1>13, <1>14 DEF ReapStep, SSHStep
<1>23. ASSUME NEW k \in Closers, CloseCall(k) \/ CloseStep(k) PROVE Goal
  <2>1. CASE CloseRelease(k)
    BY ONLY <2>1, k \in Closers, <1>17
  <2>2. CASE \E p \in Ports : CloseRemove(k, p)
    BY ONLY <2>2, k \in Closers, <1>16
  <2>3. CASE CloseEnd(k) \/ CloseKill(k) \/ CloseCall(k)
    BY ONLY <2>3, k \in Closers, <1>15, <1>18, <1>19
  <2>4. QED  BY ONLY <1>23, <2>1, <2>2, <2>3 DEF CloseStep
<1>24. QED
  BY <1>20, <1>21, <1>22, <1>23 DEF Next

(* With allocated ports only, the allocator's table and the tunnels agree: every     *)
(* reserved port has exactly one holder, every holder its port.                      *)
THEOREM ReservationsStayBalanced == Spec => []ReservationsBalance
<1> DEFINE IInv == TypeInv /\ AllocInv /\ OwnInv /\ PlaceInv /\ AutoInv /\ ReservationsBalance
<1>1. Init => IInv
  <2> SUFFICES ASSUME Init PROVE IInv
    OBVIOUS
  <2>1. TypeInv
    BY InitTypeInv
  <2>2. OwnInv /\ PlaceInv /\ AllocInv
    BY NoneFacts DEF Init, OwnInv, PlaceInv, AllocInv, Created, Closing
  <2>3. AutoInv
    BY DEF Init, AutoInv, AutoPorts, AllAuto, Port
  <2>4. \A c \in Calls : ~HoldsPort(c)
    <3> SUFFICES ASSUME NEW c \in Calls PROVE ~HoldsPort(c)
      OBVIOUS
    <3>1. ~Listed(c)
      <4>1. Port(c) \in Ports \cup {None}
        BY ONLY <2>1, c \in Calls DEF TypeInv, TypeOK, Port
      <4>2. QED  BY ONLY <4>1, NoneFacts, Init, c \in Calls DEF Init, Listed
    <3>2. ~Releasing(c) /\ reaper[c] # "release" /\ c \notin auto
      BY ONLY Init, c \in Calls DEF Init, Releasing
    <3>3. QED  BY ONLY <3>1, <3>2 DEF HoldsPort
  <2>5. ReservationsBalance
    BY <2>4 DEF Init, ReservationsBalance, Balanced
  <2>6. QED  BY <2>1, <2>2, <2>3, <2>5
<1>2. IInv /\ [Next]_vars => IInv'
  <2> SUFFICES ASSUME IInv, [Next]_vars PROVE IInv'
    OBVIOUS
  <2>1. TypeInv' /\ AllocInv' /\ OwnInv' /\ PlaceInv'
    BY TypeStep, AllocStep, OwnStep, PlaceStep
  <2>2. AllAuto' => AutoPorts' /\ Balanced'
    <3> SUFFICES ASSUME AllAuto' PROVE AutoPorts' /\ Balanced'
      OBVIOUS
    <3>1. AutoPorts /\ Balanced
      BY AllAutoBefore DEF AutoInv, ReservationsBalance
    <3>2. AutoPorts'
      BY <3>1, AutoStep
    <3>3. HoldersSame \/ \E c \in Calls : HolderAdded(c) \/ HolderGone(c)
      BY <3>1, HoldersStep
    <3>4. QED  BY <3>1, <3>2, <3>3, HoldersBalance
  <2>3. QED  BY <2>1, <2>2 DEF AutoInv, ReservationsBalance
<1>3. QED  BY <1>1, <1>2, PTL DEF Spec
=============================================================================
