------------------------------- MODULE Scheduler -------------------------------
(***************************************************************************)
(* pkg/scheduler: the six placement strategies over a resource scorer, and *)
(* the batches that share one DefaultScheduler.                            *)
(*                                                                         *)
(* Scores are ten-thousandths and component scores thousandths, so that    *)
(* minSelectedScore is 1.  A host name is a number: names are only ever    *)
(* compared.  sort.Slice is not stable and the hosts come from a map, so a *)
(* strategy is the set of decisions it may return.                         *)
(***************************************************************************)
EXTENDS Integers, FiniteSets, FiniteSetsExt, Sequences, SequencesExt

CONSTANTS
    RemoteHosts,   \* names in the host registry
    Local,         \* opts.LocalHostName
    Total,         \* Total[h][r]: CPUCores, MemoryTotalMB, DiskTotalMB
    Used,          \* Used[h][r]: the percentage in use when probed
    Network,       \* Network[h]: percentage of the 1 Gbps in use
    HostLabels,    \* HostLabels[h]: the labels of the host
    GPUs,          \* GPUs[h]: devices of the host, by index
    Device,        \* Device[g]: its vendor, free (VRAM), compute and caps
    Reqs,          \* container requirements
    Need,          \* Need[q][r]: CPUCores, MemoryMB, DiskMB
    Want,          \* Want[q]: the labels required
    PreferLocal,   \* requirements that prefer the local host
    GPUNeed,       \* GPUNeed[q]: count, vram, vendor, compute, caps, or NoGPU
    NoGPU,
    Batches,       \* calls of ScheduleBatch; Schedule is a batch of one
    BatchReqs,     \* BatchReqs[b]: the requirements of the batch, in order
    Reserve,       \* opts.ReservePercent
    Overcommit,    \* opts.OvercommitRatio
    GPUWeight,     \* opts.GPUWeight, in tenths
    MaxReleases,   \* bound: calls of Release
    NoHost         \* HostName ""

Resources == {"cpu", "mem", "disk"}
Names == RemoteHosts \cup {Local}
Strategies == {"resource_aware", "round_robin", "affinity", "spread", "bin_pack", "gpu_affinity"}
minSelectedScore == 1

VARIABLES
    strategy,    \* opts.Strategy
    placements,  \* s.placements
    rrCounter,   \* s.rrCounter
    working,     \* working[b]: the batch's copy of the snapshots
    order,       \* order[b]: what ListHosts returned to the batch
    decisions,   \* decisions[b]: plan.Decisions, with the devices deducted
    releases     \* calls of Release so far

schedulerVars == <<strategy, placements, rrCounter, working, order, decisions, releases>>

(* A snapshot map: the hosts that answered, what is in use on each, and    *)
(* the devices left.                                                       *)
Snapshots == [up : SUBSET RemoteHosts, used : [Names -> [Resources -> 0..100]],
              gpus : [Names -> SUBSET DOMAIN Device]]

Init ==
    /\ strategy \in Strategies
    /\ placements = [h \in Names |-> 0]
    /\ rrCounter = 0
    /\ working = [b \in Batches |-> [up |-> {}, used |-> Used, gpus |-> GPUs]]
    /\ order = [b \in Batches |-> <<>>]
    /\ decisions = [b \in Batches |-> <<>>]
    /\ releases = 0

(***************************************************************************)
(* The scorer                                                              *)
(***************************************************************************)

Clamp(v, max) == IF v < 0 THEN 0 ELSE IF v > max THEN max ELSE v

(* A version "major.minor" is a pair, one that does not parse is <<>>. *)
ComputeCapabilityLess(v, w) ==
    \/ v = <<>> /\ w # <<>>
    \/ v # <<>> /\ w # <<>> /\ (v[1] < w[1] \/ (v[1] = w[1] /\ v[2] < w[2]))

(* TensorRT is taken to need CUDA only. *)
CapabilitiesMatch(g, caps) ==
    \A c \in caps : (IF c = "tensorrt" THEN "cuda" ELSE c) \in Device[g].caps

GPUMatchesReq(g, need) ==
    /\ need.vendor \in {"", Device[g].vendor}
    /\ need.vram > 0 => Device[g].free >= need.vram
    /\ need.compute # <<>> => ~ComputeCapabilityLess(Device[g].compute, need.compute)
    /\ CapabilitiesMatch(g, need.caps)

MatchingGPUs(snap, h, q) == {g \in snap.gpus[h] : GPUMatchesReq(g, GPUNeed[q])}

(* A Count of zero or less means one. *)
Count(q) == IF GPUNeed[q].count <= 0 THEN 1 ELSE GPUNeed[q].count

Available(snap, h, r) == 100 - snap.used[h][r] - Reserve

(* What can be promised, in hundredths; disk is not overcommitted. *)
Room(snap, h, r) ==
    Total[h][r] * Available(snap, h, r) * (IF r = "disk" THEN 1 ELSE Overcommit)

CanFit(snap, h, q) ==
    /\ \A r \in Resources : Need[q][r] > 0 => Room(snap, h, r) >= 100 * Need[q][r]
    /\ GPUNeed[q] # NoGPU => Cardinality(MatchingGPUs(snap, h, q)) >= Count(q)

(* scoreCPU, scoreMemory and scoreDisk. *)
Headroom(snap, h, q, r) ==
    IF Available(snap, h, r) <= 0 THEN 0
    ELSE IF Need[q][r] = 0 \/ Total[h][r] = 0 THEN Clamp(10 * Available(snap, h, r), 1000)
    ELSE IF Room(snap, h, r) < 100 * Need[q][r] THEN 0
    ELSE Clamp((10 * (Room(snap, h, r) - 100 * Need[q][r])) \div Total[h][r], 1000)

ScoreNetwork(h) == IF Network[h] >= 100 THEN 0 ELSE 10 * (100 - Network[h])

ScoreGPU(snap, h, q) ==
    IF GPUNeed[q] = NoGPU \/ MatchingGPUs(snap, h, q) = {} THEN 0
    ELSE LET best == Max({Device[g].free : g \in MatchingGPUs(snap, h, q)})
         IN IF best <= 0 THEN 0 ELSE Clamp((1000 * (best - GPUNeed[q].vram)) \div best, 1000)

Score(snap, h, q) ==
    Clamp(4 * Headroom(snap, h, q, "cpu") + 4 * Headroom(snap, h, q, "mem")
            + Headroom(snap, h, q, "disk") + ScoreNetwork(h) + GPUWeight * ScoreGPU(snap, h, q),
          10000)

(***************************************************************************)
(* The strategies                                                          *)
(***************************************************************************)

LabelsMatch(have, want) == want \subseteq have

(* Hosts with a snapshot whose labels match; the local host has none. *)
Labelled(snap, q) ==
    {h \in snap.up : LabelsMatch(HostLabels[h], Want[q])}
        \cup (IF Local \in snap.up /\ LabelsMatch({}, Want[q]) THEN {Local} ELSE {})

Fitting(snap, q, hosts) == {h \in hosts : CanFit(snap, h, q)}

(* Exact ties go to the preferred host, if any, then to the lesser name. *)
TieBreak(h, k, preferred) == h # k /\ (h = preferred \/ (k # preferred /\ h < k))

(* What sort.Slice may leave at the front, ordered by key, highest first. *)
First(hosts, key, preferred) ==
    {h \in hosts : \A k \in hosts :
        ~(key[k] > key[h] \/ (key[k] = key[h] /\ TieBreak(k, h, preferred)))}

Picks(hosts, score) ==
    IF hosts = {} THEN {<<NoHost, 0>>} ELSE {<<h, score[h]>> : h \in hosts}

ScheduleResourceAware(snap, q) ==
    LET fit == Fitting(snap, q, Labelled(snap, q))
        score == [h \in fit |-> Score(snap, h, q)]
    IN IF q \in PreferLocal /\ Local \in fit THEN Picks({Local}, score) ELSE Picks(First(fit, score, Local), score)

ScheduleRoundRobin(snap, hosts, q) ==
    LET eligible == SelectSeq(hosts, LAMBDA h : h \in snap.up /\ LabelsMatch(HostLabels[h], Want[q]))
        all == (IF LabelsMatch({}, Want[q]) THEN <<Local>> ELSE <<>>) \o eligible
    IN IF all = <<>> THEN {<<NoHost, 0>>}
       ELSE {<<all[(rrCounter % Len(all)) + 1], 10000 \div Len(all)>>}

ScheduleAffinity(snap, q) ==
    LET fit == Fitting(snap, q, {h \in snap.up : LabelsMatch(HostLabels[h], Want[q])})
        score == [h \in fit |-> Score(snap, h, q)]
    IN Picks(First(fit, score, NoHost), score)

ScheduleSpread(snap, q) ==
    LET all == {h \in snap.up : LabelsMatch(HostLabels[h], Want[q])}
                   \cup (IF LabelsMatch({}, Want[q]) THEN {Local} ELSE {})
    IN Picks(First(all, [h \in all |-> 0 - placements[h]], Local), [h \in all |-> 5000])

ScheduleBinPack(snap, q) ==
    LET fit == Fitting(snap, q, Labelled(snap, q))
    IN Picks(First(fit, [h \in fit |-> snap.used[h]["cpu"] + snap.used[h]["mem"]], Local),
             [h \in fit |-> 5000])

(* Over the snapshots themselves: labels are not looked at. *)
PickGPUAffinity(snap, q) ==
    LET fit == {h \in Fitting(snap, q, snap.up) : snap.gpus[h] # {}}
        score == [h \in fit |-> Score(snap, h, q)]
    IN Picks(First(fit, score, NoHost), score)

ScheduleOne(b, q) ==
    LET picks == CASE strategy = "round_robin"  -> ScheduleRoundRobin(working[b], order[b], q)
                   [] strategy = "affinity"     -> ScheduleAffinity(working[b], q)
                   [] strategy = "spread"       -> ScheduleSpread(working[b], q)
                   [] strategy = "bin_pack"     -> ScheduleBinPack(working[b], q)
                   [] strategy = "gpu_affinity" -> PickGPUAffinity(working[b], q)
                   [] OTHER                     -> ScheduleResourceAware(working[b], q)
    IN {<<p[1], IF p[1] # NoHost /\ p[2] = 0 THEN minSelectedScore ELSE p[2]>> : p \in picks}

(***************************************************************************)
(* The calls                                                               *)
(***************************************************************************)

(* deductGPU: the matching devices with the most free VRAM go. *)
Deductible(snap, h, q) ==
    IF GPUNeed[q] = NoGPU THEN {{}}
    ELSE LET match == MatchingGPUs(snap, h, q)
         IN {drop \in SUBSET match :
               /\ Cardinality(drop) = Min({Count(q), Cardinality(match)})
               /\ \A g \in drop, k \in match \ drop : Device[g].free >= Device[k].free}

DeductDevicesOnly(snap, h, q, drop) == [snap EXCEPT !.gpus[h] = @ \ drop]

DeductCapacity(snap, h, q, drop) ==
    [snap EXCEPT
        !.used[h] = [r \in Resources |->
            IF Need[q][r] > 0 /\ Total[h][r] > 0
            THEN Min({100, snap.used[h][r] + (100 * Need[q][r]) \div Total[h][r]})
            ELSE snap.used[h][r]],
        !.gpus[h] = @ \ drop]

(* ScheduleBatch probes and lists the hosts.  A host whose probe fails is  *)
(* not in the snapshots.                                                   *)
ProbeAll(b, up, hosts) ==
    /\ order[b] = <<>>
    /\ working' = [working EXCEPT ![b].up = up]
    /\ order' = [order EXCEPT ![b] = hosts]
    /\ UNCHANGED <<strategy, placements, rrCounter, decisions, releases>>

(* scheduleOne and the count, under s.mu. *)
Place(b, q, pick) ==
    /\ rrCounter' = IF strategy = "round_robin" /\ pick[1] # NoHost THEN rrCounter + 1 ELSE rrCounter
    /\ placements' = IF pick[1] = NoHost THEN placements ELSE [placements EXCEPT ![pick[1]] = @ + 1]

(* One requirement of a batch; the deduction is local to the batch. *)
ScheduleNext(b) ==
    /\ order[b] # <<>>
    /\ Len(decisions[b]) < Len(BatchReqs[b])
    /\ LET q == BatchReqs[b][Len(decisions[b]) + 1]
       IN \E pick \in ScheduleOne(b, q) :
            /\ Place(b, q, pick)
            /\ \E drop \in IF pick[1] = NoHost THEN {{}} ELSE Deductible(working[b], pick[1], q) :
                 /\ working' = IF pick[1] = NoHost THEN working
                               ELSE [working EXCEPT ![b] = DeductCapacity(@, pick[1], q, drop)]
                 /\ decisions' = [decisions EXCEPT ![b] = Append(@,
                       [req |-> q, host |-> pick[1], score |-> pick[2], took |-> drop])]
    /\ UNCHANGED <<strategy, order, releases>>

Release(h) ==
    /\ releases < MaxReleases
    /\ releases' = releases + 1
    /\ placements' = [placements EXCEPT ![h] = IF @ > 0 THEN @ - 1 ELSE @]
    /\ UNCHANGED <<strategy, rrCounter, working, order, decisions>>

Next ==
    \/ \E b \in Batches :
          \/ \E up \in SUBSET RemoteHosts, hosts \in SetToSeqs(RemoteHosts) : ProbeAll(b, up, hosts)
          \/ ScheduleNext(b)
    \/ \E h \in Names : Release(h)

(***************************************************************************)
(* Properties                                                              *)
(***************************************************************************)

Placed(b, h) == {i \in DOMAIN decisions[b] : decisions[b][i].host = h}

Load(h) == MapThenSumSet(LAMBDA b : Cardinality(Placed(b, h)), Batches)

(* A batch never promises more of a host than it had free above the        *)
(* reserve when it was probed, overcommitment included: the containers it  *)
(* places there fit together, not only one by one.                         *)
BatchFits ==
    strategy \in {"resource_aware", "affinity", "bin_pack", "gpu_affinity"} =>
        \A b \in Batches, h \in Names, r \in Resources :
            LET sum == MapThenSumSet(LAMBDA i : Need[decisions[b][i].req][r], Placed(b, h))
            IN sum > 0 => 100 * sum <= Room([used |-> Used], h, r)

(* Within a batch no device is counted on by two containers, and a         *)
(* container placed by a strategy that looks at resources has as many as   *)
(* it asked for.                                                           *)
GPUsExclusive ==
    \A b \in Batches : \A i \in DOMAIN decisions[b] :
        LET d == decisions[b][i]
        IN /\ \A j \in DOMAIN decisions[b] : i # j => d.took \cap decisions[b][j].took = {}
           /\ d.host # NoHost /\ GPUNeed[d.req] # NoGPU
                 /\ strategy \notin {"round_robin", "spread"} => Cardinality(d.took) = Count(d.req)

(* A container goes to a host that answered the probe, or to the local     *)
(* one, and, GPU affinity apart, to a host with the labels it requires.    *)
EligibleOnly ==
    \A b \in Batches : \A i \in DOMAIN decisions[b] :
        LET d == decisions[b][i]
        IN d.host # NoHost =>
              /\ d.host \in working[b].up \cup {Local}
              /\ strategy # "gpu_affinity" =>
                    LabelsMatch(IF d.host = Local THEN {} ELSE HostLabels[d.host], Want[d.req])

(* The order in which a map yields the hosts does not decide a placement,  *)
(* except for round robin, whose rotation follows it.                      *)
OrderIrrelevant ==
    \A b \in Batches : order[b] # <<>> =>
        \A i \in DOMAIN BatchReqs[b] : Cardinality(ScheduleOne(b, BatchReqs[b][i])) = 1

(* pkg/distribution takes a score of 0 to mean that no host was found: a   *)
(* selected host never has it, and no host never has another.              *)
ScoreSentinel ==
    \A b \in Batches : \A i \in DOMAIN decisions[b] :
        decisions[b][i].host = NoHost <=> decisions[b][i].score = 0

(* Spread keeps concurrent batches balanced over the hosts: as long as     *)
(* every host answers, no labels narrow the choice and nothing is          *)
(* released, the hosts' loads never differ by more than one.                *)
SpreadBalanced ==
    /\ strategy = "spread"
    /\ releases = 0
    /\ \A b \in Batches : order[b] # <<>> => working[b].up = RemoteHosts
    /\ \A b \in Batches : \A i \in DOMAIN decisions[b] : Want[decisions[b][i].req] = {}
    => \A h, k \in Names : Load(h) <= Load(k) + 1
===============================================================================
