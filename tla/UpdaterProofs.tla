----------------------------- MODULE UpdaterProofs ------------------------------
(***************************************************************************)
(* Theorems about Updater, for any configurations, addresses and processes *)
(* and any of the environment's faults.                                    *)
(***************************************************************************)
EXTENDS Updater, FiniteSetTheorems, TLAPS

\* The goroutine that runs the update and the instance agree on where Ensure is.
Coupled ==
  /\ phase = "probe" <=> ensuring # NoConfig
  /\ phase = "probe" => config = ensuring /\ proc # NoProc
  /\ phase \in {"ensure", "probe", "metrics"} => config \in Configs
  /\ phase = "metrics" => (proc # NoProc => lastHash = config)

\* Stop comes after the context has ended, and leaves no handle.
Stopping ==
  /\ cancelled <=> stop # "running"
  /\ stop = "stopped" => proc = NoProc

\* StatusTellsPool until Ensure replaces the process, not only between runs.
Reported ==
  status.pool > 0 =>
    /\ Cardinality(members) = status.pool
    /\ status.adapter # "xray" => members \subseteq Addrs
    /\ (status.adapter = "xray" /\ phase \in {"idle", "exited", "load", "ensure"}
          /\ proc # NoProc) =>
         members = NodesOf[os[proc].config] \cap status.alive

\* Only a process that was started holds the ports.
StartedWithConfig == \A p \in Pids : os[p].state # "gone" => os[p].config \in Configs

UpdaterInv ==
  /\ TypeOK
  /\ StartedWithConfig
  /\ NoOrphan
  /\ HashNamesProcess
  /\ Coupled
  /\ Stopping
  /\ Reported

-----------------------------------------------------------------------------
(* A kill ends the process it names, and changes nothing else.               *)
LEMMA KilledFacts ==
  ASSUME XrayTypeOK, NEW x \in Pids \cup {NoProc}
  PROVE  /\ Killed(x) \in [Pids -> [config : Configs \cup {NoConfig}, state : ProcState]]
         /\ \A q \in Pids :
              /\ Killed(x)[q].config = os[q].config
              /\ Killed(x)[q].state # "gone" => os[q].state # "gone"
              /\ Killed(x)[q].state \in {"starting", "serving"} =>
                   q # x /\ Killed(x)[q] = os[q]
<1>1. ASSUME NEW q \in Pids
      PROVE  /\ Killed(x)[q] \in [config : Configs \cup {NoConfig}, state : ProcState]
             /\ Killed(x)[q].config = os[q].config
             /\ Killed(x)[q].state # "gone" => os[q].state # "gone"
             /\ Killed(x)[q].state \in {"starting", "serving"} =>
                  q # x /\ Killed(x)[q] = os[q]
  <2>1. os[q] \in [config : Configs \cup {NoConfig}, state : ProcState]
    BY DEF XrayTypeOK
  <2>2. CASE q # x
    BY <2>1, <2>2 DEF Killed
  <2>3. CASE q = x
    <3>1. Killed(x)[q] = [os[q] EXCEPT !.state = CASE @ = "serving" -> "closing"
                                                  [] @ = "starting" -> "gone"
                                                  [] OTHER -> @]
      BY <2>3 DEF Killed
    <3>2. CASE os[q].state = "serving"
      BY <2>1, <3>1, <3>2 DEF ProcState
    <3>3. CASE os[q].state = "starting"
      BY <2>1, <3>1, <3>3 DEF ProcState
    <3>4. CASE os[q].state \in {"closing", "gone"}
      BY <2>1, <3>1, <3>4 DEF ProcState
    <3> QED
      BY <2>1, <3>2, <3>3, <3>4 DEF ProcState
  <2> QED
    BY <2>2, <2>3
<1>2. Killed(x) = [q \in Pids |-> Killed(x)[q]]
  BY DEF Killed
<1> QED
  BY <1>1, <1>2

(* The configuration of a process is fixed when it is started.               *)
LEMMA SystemFacts ==
  ASSUME XrayTypeOK, System
  PROVE  /\ os' \in [Pids -> [config : Configs \cup {NoConfig}, state : ProcState]]
         /\ \A q \in Pids : /\ os'[q].config = os[q].config
                            /\ os'[q].state # "gone" => os[q].state # "gone"
                            /\ os'[q].state \in {"starting", "serving"} =>
                                 os[q].state \in {"starting", "serving"}
         /\ UNCHANGED <<proc, lastHash, ensuring, cancelled>>
         /\ UNCHANGED updaterVars
<1>1. PICK p \in Pids : Bind(p) \/ Release(p) \/ KilledByContext(p) \/ Die(p)
  BY DEF System
<1>2. UNCHANGED updaterVars
  BY DEF System
<1>3. \A q \in Pids : os[q] \in [config : Configs \cup {NoConfig}, state : ProcState]
  BY DEF XrayTypeOK
<1>4. ASSUME NEW from, NEW to \in ProcState, Becomes(p, from, to), "gone" \notin from,
             to \in {"starting", "serving"} => os[p].state = "starting"
      PROVE  /\ os' \in [Pids -> [config : Configs \cup {NoConfig}, state : ProcState]]
             /\ \A q \in Pids : /\ os'[q].config = os[q].config
                                /\ os'[q].state # "gone" => os[q].state # "gone"
                                /\ os'[q].state \in {"starting", "serving"} =>
                                     os[q].state \in {"starting", "serving"}
             /\ UNCHANGED <<proc, lastHash, ensuring, cancelled>>
  <2>1. os' = [os EXCEPT ![p].state = to]
    BY <1>4 DEF Becomes
  <2>2. ASSUME NEW q \in Pids
        PROVE  /\ os'[q] \in [config : Configs \cup {NoConfig}, state : ProcState]
               /\ os'[q].config = os[q].config
               /\ os'[q].state = IF q = p THEN to ELSE os[q].state
    BY <2>1, <1>3 DEF XrayTypeOK
  <2>3. os' = [q \in Pids |-> os'[q]]
    BY <2>1 DEF XrayTypeOK
  <2> QED
    BY <2>2, <2>3, <1>4, ZenonT(60) DEF Becomes
<1>5. CASE Bind(p)
  BY <1>2, <1>4, <1>5 DEF Bind, ProcState, Becomes
<1>6. CASE Release(p)
  BY <1>2, <1>4, <1>6 DEF Release, ProcState
<1>7. CASE Die(p)
  BY <1>2, <1>4, <1>7 DEF Die, ProcState
<1>8. CASE KilledByContext(p)
  BY <1>2, <1>8, KilledFacts DEF KilledByContext
<1> QED
  BY <1>1, <1>5, <1>6, <1>7, <1>8

(* A replaced process is the only one that runs.                             *)
LEMMA ReplaceFacts ==
  ASSUME XrayTypeOK, NoOrphan, StartedWithConfig, NEW c \in Configs, Replace(c)
  PROVE  /\ os' \in [Pids -> [config : Configs \cup {NoConfig}, state : ProcState]]
         /\ proc' \in Pids
         /\ os'[proc'].config = c
         /\ \A q \in Pids : os'[q].state \in {"starting", "serving"} => q = proc'
         /\ \A q \in Pids : os'[q].state # "gone" => os'[q].config \in Configs
<1>1. PICK p \in Pids :
        /\ os' = [Killed(proc) EXCEPT ![p] = [config |-> c, state |-> "starting"]]
        /\ proc' = p
  BY DEF Replace
<1>2. proc \in Pids \cup {NoProc}
  BY DEF XrayTypeOK
<1>3. /\ Killed(proc) \in [Pids -> [config : Configs \cup {NoConfig}, state : ProcState]]
      /\ \A q \in Pids : Killed(proc)[q].state \in {"starting", "serving"} =>
           q # proc /\ Killed(proc)[q] = os[q]
      /\ \A q \in Pids : Killed(proc)[q].state # "gone" => Killed(proc)[q].config \in Configs
  BY <1>2, KilledFacts DEF StartedWithConfig
<1>4. [config |-> c, state |-> "starting"] \in [config : Configs \cup {NoConfig}, state : ProcState]
  BY DEF ProcState
<1>5. os' \in [Pids -> [config : Configs \cup {NoConfig}, state : ProcState]]
  BY <1>1, <1>3, <1>4
<1>6. /\ os'[p] = [config |-> c, state |-> "starting"]
      /\ \A q \in Pids : q # p => os'[q] = Killed(proc)[q]
  BY <1>1, <1>3
<1>7. ASSUME NEW q \in Pids, os'[q].state \in {"starting", "serving"}, q # p
      PROVE  FALSE
  <2>1. q # proc /\ os[q].state \in {"starting", "serving"}
    BY <1>3, <1>6, <1>7
  <2> QED
    BY <2>1 DEF NoOrphan, Running
<1>8. ASSUME NEW q \in Pids, os'[q].state # "gone"
      PROVE  os'[q].config \in Configs
  BY <1>3, <1>6, <1>8
<1> QED
  BY <1>1, <1>5, <1>6, <1>7, <1>8

(* After a kill of the process it holds, the system runs none.               *)
LEMMA KilledLeavesNone ==
  ASSUME XrayTypeOK, NoOrphan
  PROVE  \A q \in Pids : Killed(proc)[q].state \notin {"starting", "serving"}
<1>1. proc \in Pids \cup {NoProc}
  BY DEF XrayTypeOK
<1>2. \A q \in Pids : Killed(proc)[q].state \in {"starting", "serving"} =>
        q # proc /\ Killed(proc)[q] = os[q]
  BY <1>1, KilledFacts
<1> QED
  BY <1>2 DEF NoOrphan, Running

(* What the legacy path finds, and what the xray path includes, can be       *)
(* counted, and counts 0 exactly if there is nothing.                        *)
LEMMA FoundIsFinite ==
  ASSUME UpdaterInv, NEW S, S \subseteq Addrs \/ \E c \in Configs : S \subseteq NodesOf[c]
  PROVE  Cardinality(S) \in Nat /\ (Cardinality(S) = 0 <=> S = {})
<1>1. IsFiniteSet(S)
  BY UpdaterAssumption, FS_Subset
<1> QED
  BY <1>1, FS_CardinalityType, FS_EmptySet

LEMMA InitInv == ASSUME Init PROVE UpdaterInv
<1>1. TypeOK
  BY DEF Init, XrayInit, TypeOK, XrayTypeOK, ProcState
<1>2. \A p \in Pids : ~ Running(p)
  BY DEF Init, XrayInit, Running
<1>3. HashNamesProcess /\ StartedWithConfig /\ Coupled /\ Stopping
  BY DEF Init, XrayInit, HashNamesProcess, StartedWithConfig, Coupled, Stopping
<1>4. Reported
  <2>1. status.pool = 0
    BY DEF Init
  <2> QED
    BY <2>1 DEF Reported
<1> QED
  BY <1>1, <1>2, <1>3, <1>4 DEF UpdaterInv, NoOrphan

-----------------------------------------------------------------------------
(* The three conjuncts about the processes, step by step.                    *)

\* The steps that leave the instance and its processes alone.
QuietStep ==
  \/ Tick \/ RunOnce \/ LoadSpecs \/ LoadSpecsFails \/ EnsureUnchanged
  \/ FetchMetrics \/ FetchMetricsFails \/ CheckLegacy \/ LegacyFails
  \/ LoopExits \/ StopBegins

(* Every step keeps the types of the instance, leaks no process and keeps    *)
(* the handle and the hash together.                                         *)
LEMMA XrayStep ==
  ASSUME UpdaterInv, Next
  PROVE  XrayTypeOK' /\ NoOrphan' /\ HashNamesProcess' /\ StartedWithConfig'
<1> USE DEF UpdaterInv, TypeOK
<1>1. CASE QuietStep
  BY <1>1 DEF QuietStep, Tick, RunOnce, LoadSpecs, LoadSpecsFails, EnsureUnchanged,
     FetchMetrics, FetchMetricsFails, CheckLegacy, LegacyFails, LoopExits, StopBegins,
     xrayVars, XrayTypeOK, NoOrphan, Running, HashNamesProcess, StartedWithConfig
<1>2. CASE EnsureReplaces
  <2>1. config \in Configs /\ Replace(config)
    BY <1>2 DEF EnsureReplaces, Coupled
  <2>2. UNCHANGED <<lastHash, cancelled>> /\ ensuring' = config
    BY <2>1 DEF Replace
  <2> QED
    BY <2>1, <2>2, ReplaceFacts, XrayAssumption
    DEF XrayTypeOK, NoOrphan, Running, HashNamesProcess, StartedWithConfig
<1>3. CASE EnsureFails
  <2>1. os' = Killed(proc) /\ proc' = NoProc /\ UNCHANGED <<lastHash, ensuring, cancelled>>
    BY <1>3 DEF EnsureFails, ReplaceFails
  <2> QED
    BY <2>1, KilledFacts, KilledLeavesNone, ZenonT(60)
    DEF XrayTypeOK, NoOrphan, Running, HashNamesProcess, StartedWithConfig
<1>4. CASE EnsureReady
  BY <1>4, XrayAssumption DEF EnsureReady, Ready, XrayTypeOK, NoOrphan, Running, HashNamesProcess, StartedWithConfig
<1>5. CASE EnsureTimesOut
  <2>1. os' = Killed(proc) /\ proc' = NoProc /\ ensuring' = NoConfig /\ UNCHANGED <<lastHash, cancelled>>
    BY <1>5 DEF EnsureTimesOut, NotReady
  <2> QED
    BY <2>1, KilledFacts, KilledLeavesNone, ZenonT(60)
    DEF XrayTypeOK, NoOrphan, Running, HashNamesProcess, StartedWithConfig
<1>6. CASE ContextEnds
  BY <1>6 DEF ContextEnds, Cancel, XrayTypeOK, NoOrphan, Running, HashNamesProcess, StartedWithConfig
<1>7. CASE StopXray
  <2>1. /\ os' = Killed(proc) /\ proc' = NoProc /\ UNCHANGED <<ensuring, cancelled>>
        /\ lastHash' \in {lastHash, NoConfig}
    BY <1>7 DEF StopXray, Stop
  <2> QED
    BY <2>1, KilledFacts, KilledLeavesNone, ZenonT(60)
    DEF XrayTypeOK, NoOrphan, Running, HashNamesProcess, StartedWithConfig
<1>8. CASE System
  BY <1>8, SystemFacts DEF XrayTypeOK, NoOrphan, Running, HashNamesProcess, StartedWithConfig
<1> QED
  BY <1>1, <1>2, <1>3, <1>4, <1>5, <1>6, <1>7, <1>8 DEF Next, Step, QuietStep

-----------------------------------------------------------------------------
(* The conjuncts about the goroutine, the pool and the status.               *)

LoopTypeOK ==
  /\ phase \in {"idle", "load", "ensure", "probe", "metrics", "legacy", "exited"}
  /\ config \in Configs \cup {NoConfig}
  /\ tick \in BOOLEAN
  /\ members \in SUBSET (Nodes \cup Addrs)
  /\ status \in [err : BOOLEAN, adapter : {"", "xray", "xray_fallback", "legacy"},
                 pool : Nat, alive : SUBSET Nodes]
  /\ stop \in {"running", "cancelled", "waiting", "stopped"}

LoopInv == LoopTypeOK /\ Coupled /\ Stopping /\ Reported

\* The rest of TypeOK is the first conjunct of Coupled.
LEMMA TypeParts ==
  /\ TypeOK => XrayTypeOK /\ LoopTypeOK
  /\ XrayTypeOK /\ LoopTypeOK /\ Coupled => TypeOK
  BY DEF TypeOK, LoopTypeOK, Coupled

(* A run that gives up reports no entries, or leaves the report to the       *)
(* legacy path.                                                              *)
LEMMA AbandonFacts ==
  ASSUME UpdaterInv, Abandon
  PROVE  /\ LoopTypeOK' /\ Reported'
         /\ phase' \in {"legacy", "idle"}
         /\ UNCHANGED <<members, stop>>
<1> USE TypeParts DEF UpdaterInv
<1>1. UNCHANGED <<tick, members, stop>>
  BY DEF Abandon
<1>2. CASE FallbackToLegacyOnError
  <2>1. phase' = "legacy" /\ config' = NoConfig /\ UNCHANGED status
    BY <1>2 DEF Abandon
  <2> QED
    BY <1>1, <2>1 DEF LoopTypeOK, Reported
<1>3. CASE ~ FallbackToLegacyOnError
  <2>1. /\ status' = [err |-> TRUE, adapter |-> "xray", pool |-> 0, alive |-> status.alive]
        /\ phase' = "idle" /\ config' = NoConfig
    BY <1>3 DEF Abandon, End
  <2>2. LoopTypeOK'
    BY <1>1, <2>1 DEF LoopTypeOK
  <2> QED
    BY <1>1, <2>1, <2>2 DEF Reported
<1> QED
  BY <1>2, <1>3

(* A delivery that reports entries is what the pool holds after it, and      *)
(* another leaves the pool as it is.                                         *)
LEMMA DeliverFacts ==
  ASSUME UpdaterInv, UNCHANGED <<tick, stop>>,
         NEW S, S \subseteq Addrs \/ \E c \in Configs : S \subseteq NodesOf[c],
         NEW adapter \in {"xray", "xray_fallback", "legacy"},
         NEW alive \in SUBSET Nodes,
         Deliver(S, adapter, alive)
  PROVE  /\ LoopTypeOK'
         /\ phase' = "idle"
         /\ status'.adapter = adapter /\ status'.alive = alive
         /\ members' = IF S # {} THEN S ELSE members
         /\ status'.pool > 0 => members' = S /\ Cardinality(members') = status'.pool
<1> USE TypeParts DEF UpdaterInv
<1>1. /\ members' = IF S # {} THEN S ELSE members
      /\ status' = [err |-> FALSE, adapter |-> adapter,
                    pool |-> Cardinality(S), alive |-> alive]
      /\ phase' = "idle" /\ config' = NoConfig
  BY DEF Deliver, End
<1>2. Cardinality(S) \in Nat /\ (Cardinality(S) = 0 <=> S = {})
  BY FoundIsFinite
<1>3. S \subseteq Nodes \cup Addrs
  BY DEF Nodes
<1>4. LoopTypeOK'
  BY <1>1, <1>2, <1>3 DEF LoopTypeOK
<1> QED
  BY <1>1, <1>2, <1>4

(* Every step keeps what relates the run, the pool and the status.           *)
LEMMA LoopStep ==
  ASSUME UpdaterInv, Next
  PROVE  LoopInv'
<1> USE TypeParts, XrayAssumption DEF UpdaterInv, LoopInv
<1>1. CASE Tick \/ RunOnce \/ LoadSpecs \/ LoopExits \/ StopBegins
  <2>1. UNCHANGED <<xrayVars, members, status>>
    BY <1>1 DEF Tick, RunOnce, LoadSpecs, LoopExits, StopBegins
  <2>2. LoopTypeOK'
    BY <1>1 DEF Tick, RunOnce, LoadSpecs, LoopExits, StopBegins, LoopTypeOK
  <2>3. Coupled'
    BY <1>1 DEF Tick, RunOnce, LoadSpecs, LoopExits, StopBegins, Coupled, xrayVars
  <2>4. Stopping'
    BY <1>1 DEF Tick, RunOnce, LoadSpecs, LoopExits, StopBegins, Stopping, xrayVars
  <2>5. Reported'
    BY <1>1, <2>1 DEF Tick, RunOnce, LoadSpecs, LoopExits, StopBegins, Reported, xrayVars
  <2> QED
    BY <2>2, <2>3, <2>4, <2>5
<1>2. CASE LoadSpecsFails \/ FetchMetricsFails
  <2>1. Abandon /\ UNCHANGED xrayVars /\ phase # "probe"
    BY <1>2 DEF LoadSpecsFails, FetchMetricsFails
  <2> QED
    BY <2>1, AbandonFacts DEF Coupled, Stopping, xrayVars
<1>3. CASE EnsureUnchanged
  BY <1>3 DEF EnsureUnchanged, UpToDate, LoopTypeOK, Coupled, Stopping, Reported, xrayVars
<1>4. CASE EnsureReplaces
  <2>1. /\ UNCHANGED <<config, tick, members, status, stop>>
        /\ phase = "ensure" /\ phase' = "probe" /\ config \in Configs
        /\ Replace(config)
    BY <1>4 DEF EnsureReplaces, Coupled
  <2>2. ~ cancelled /\ ensuring' = config /\ UNCHANGED cancelled /\ proc' \in Pids
    BY <2>1 DEF Replace
  <2>3. LoopTypeOK' /\ Coupled' /\ Stopping'
    BY <2>1, <2>2 DEF LoopTypeOK, Coupled, Stopping
  <2>4. Reported'
    BY <2>1 DEF Reported
  <2> QED
    BY <2>3, <2>4
<1>5. CASE EnsureFails
  <2>1. /\ Abandon /\ phase = "ensure"
        /\ proc' = NoProc /\ UNCHANGED <<lastHash, ensuring, cancelled>>
    BY <1>5 DEF EnsureFails, ReplaceFails
  <2> QED
    BY <2>1, AbandonFacts DEF Coupled, Stopping
<1>6. CASE EnsureReady
  <2>1. /\ UNCHANGED <<config, tick, members, status, stop, proc, cancelled>>
        /\ phase = "probe" /\ phase' = "metrics"
        /\ ensuring' = NoConfig /\ lastHash' = ensuring
    BY <1>6 DEF EnsureReady, Ready
  <2>2. LoopTypeOK' /\ Coupled' /\ Stopping'
    BY <2>1 DEF LoopTypeOK, Coupled, Stopping
  <2>3. Reported'
    BY <2>1 DEF Reported
  <2> QED
    BY <2>2, <2>3
<1>7. CASE EnsureTimesOut
  <2>1. /\ Abandon
        /\ proc' = NoProc /\ ensuring' = NoConfig /\ UNCHANGED <<lastHash, cancelled>>
    BY <1>7 DEF EnsureTimesOut, NotReady
  <2> QED
    BY <2>1, AbandonFacts DEF Coupled, Stopping
<1>8. CASE FetchMetrics
  <2> PICK p \in Answering : \E alive \in SUBSET NodesOf[os[p].config] :
        Deliver(Included(alive), "xray", alive)
    BY <1>8 DEF FetchMetrics
  <2>1. PICK alive \in SUBSET NodesOf[os[p].config] :
          Deliver(Included(alive), "xray", alive)
    OBVIOUS
  <2>2. phase = "metrics" /\ UNCHANGED <<xrayVars, tick, stop>>
    BY <1>8 DEF FetchMetrics
  <2>3. os[p].config \in Configs
    BY DEF Answering, StartedWithConfig
  <2>4. alive \in SUBSET Nodes
    BY <2>3, UpdaterAssumption DEF Nodes
  <2>5. config \in Configs /\ ensuring = NoConfig /\ (proc # NoProc => lastHash = config)
    BY <2>2 DEF Coupled, LoopTypeOK, XrayTypeOK
  <2>6. Included(alive) = NodesOf[config] \cap alive
    BY DEF Included
  <2>7. Included(alive) \subseteq NodesOf[config]
    BY <2>6
  <2>8. /\ LoopTypeOK'
        /\ phase' = "idle"
        /\ status'.adapter = "xray" /\ status'.alive = alive
        /\ status'.pool > 0 =>
             members' = Included(alive) /\ Cardinality(members') = status'.pool
    BY <2>1, <2>2, <2>4, <2>5, <2>7, DeliverFacts
  <2>9. proc # NoProc => os[proc].config = config
    BY <2>5 DEF HashNamesProcess
  <2>10. Coupled' /\ Stopping'
    BY <2>2, <2>5, <2>8 DEF Coupled, Stopping, xrayVars
  <2>11. Reported'
    BY <2>2, <2>6, <2>8, <2>9 DEF Reported, xrayVars
  <2> QED
    BY <2>8, <2>10, <2>11
<1>9. CASE CheckLegacy
  <2>1. PICK found \in SUBSET Addrs : Deliver(found, LegacyAdapter, status.alive)
    BY <1>9 DEF CheckLegacy
  <2>2. phase = "legacy" /\ UNCHANGED <<xrayVars, tick, stop>>
    BY <1>9 DEF CheckLegacy
  <2>3. LegacyAdapter \in {"xray", "xray_fallback", "legacy"} /\ LegacyAdapter # "xray"
    BY DEF LegacyAdapter
  <2>4. status.alive \in SUBSET Nodes /\ found \subseteq Addrs
    BY DEF LoopTypeOK
  <2>5. /\ LoopTypeOK'
        /\ phase' = "idle"
        /\ status'.adapter = LegacyAdapter
        /\ status'.pool > 0 =>
             members' = found /\ Cardinality(members') = status'.pool
    <3>1. CASE XrayEnabled
      <4>1. LegacyAdapter = "xray_fallback"
        BY <3>1 DEF LegacyAdapter
      <4>2. Deliver(found, "xray_fallback", status.alive)
        BY <2>1, <4>1
      <4> QED
        BY <2>2, <2>4, <4>1, <4>2, DeliverFacts
    <3>2. CASE ~ XrayEnabled
      <4>1. LegacyAdapter = "legacy"
        BY <3>2 DEF LegacyAdapter
      <4>2. Deliver(found, "legacy", status.alive)
        BY <2>1, <4>1
      <4> QED
        BY <2>2, <2>4, <4>1, <4>2, DeliverFacts
    <3> QED
      BY <3>1, <3>2
  <2>6. Coupled' /\ Stopping'
    BY <2>2, <2>5 DEF Coupled, Stopping, xrayVars
  <2>7. Reported'
    BY <2>3, <2>5 DEF Reported
  <2> QED
    BY <2>5, <2>6, <2>7
<1>10. CASE LegacyFails
  <2>1. /\ UNCHANGED <<xrayVars, tick, members, stop>>
        /\ status' = [err |-> TRUE, adapter |-> LegacyAdapter, pool |-> 0, alive |-> status.alive]
        /\ phase = "legacy" /\ phase' = "idle" /\ config' = NoConfig
    BY <1>10 DEF LegacyFails, End
  <2>2. LoopTypeOK'
    BY <2>1 DEF LegacyAdapter, LoopTypeOK
  <2>3. Coupled' /\ Stopping'
    BY <2>1 DEF Coupled, Stopping, xrayVars
  <2>4. Reported'
    BY <2>1 DEF Reported
  <2> QED
    BY <2>2, <2>3, <2>4
<1>11. CASE ContextEnds
  <2>1. /\ UNCHANGED <<os, proc, lastHash, ensuring, phase, config, tick, members, status>>
        /\ stop' = "cancelled" /\ cancelled' = TRUE
    BY <1>11 DEF ContextEnds, Cancel
  <2> QED
    BY <2>1, ZenonT(60) DEF LoopTypeOK, Coupled, Stopping, Reported
<1>12. CASE StopXray
  <2>1. /\ UNCHANGED <<ensuring, cancelled, phase, config, tick, members, status>>
        /\ stop = "waiting" /\ stop' = "stopped"
        /\ ensuring = NoConfig /\ proc' = NoProc
    BY <1>12 DEF StopXray, Stop
  <2>2. LoopTypeOK' /\ Coupled' /\ Stopping'
    BY <2>1 DEF LoopTypeOK, Coupled, Stopping
  <2>3. Reported'
    BY <2>1 DEF Reported
  <2> QED
    BY <2>2, <2>3
<1>13. CASE System
  <2>1. /\ UNCHANGED <<proc, lastHash, ensuring, cancelled>>
        /\ UNCHANGED updaterVars
        /\ \A q \in Pids : os'[q].config = os[q].config
    BY <1>13, SystemFacts
  <2>2. LoopTypeOK' /\ Coupled' /\ Stopping'
    BY <2>1, ZenonT(60) DEF LoopTypeOK, Coupled, Stopping, updaterVars
  <2>3. proc \in Pids \cup {NoProc}
    BY DEF XrayTypeOK
  <2>4. Reported'
    BY <2>1, <2>3 DEF Reported, updaterVars
  <2> QED
    BY <2>2, <2>4
<1> QED
  BY <1>1, <1>2, <1>3, <1>4, <1>5, <1>6, <1>7, <1>8, <1>9, <1>10, <1>11, <1>12, <1>13
  DEF Next, Step

(* A step that changes no variable keeps the invariant.                      *)
LEMMA StutterInv ==
  ASSUME UpdaterInv, UNCHANGED vars
  PROVE  UpdaterInv'
<1>1. /\ UNCHANGED <<os, proc, lastHash, ensuring, cancelled>>
      /\ UNCHANGED <<phase, config, tick, members, status, stop>>
  BY DEF vars, xrayVars, updaterVars
<1>2. XrayTypeOK' /\ NoOrphan' /\ HashNamesProcess' /\ StartedWithConfig'
  BY <1>1, TypeParts
  DEF UpdaterInv, XrayTypeOK, NoOrphan, Running, HashNamesProcess, StartedWithConfig
<1>3. LoopTypeOK' /\ Coupled' /\ Stopping'
  BY <1>1, TypeParts, ZenonT(60) DEF UpdaterInv, LoopTypeOK, Coupled, Stopping
<1>4. Reported'
  BY <1>1 DEF UpdaterInv, Reported
<1> QED
  BY <1>2, <1>3, <1>4 DEF UpdaterInv, TypeOK, LoopTypeOK, Coupled

LEMMA InvHolds == Spec => []UpdaterInv
<1>1. Init => UpdaterInv
  BY InitInv
<1>2. UpdaterInv /\ [Next]_vars => UpdaterInv'
  <2>1. ASSUME UpdaterInv, Next
        PROVE  UpdaterInv'
    <3>1. XrayTypeOK' /\ NoOrphan' /\ HashNamesProcess' /\ StartedWithConfig'
      BY <2>1, XrayStep
    <3>2. LoopTypeOK' /\ Coupled' /\ Stopping' /\ Reported'
      BY <2>1, LoopStep DEF LoopInv
    <3> QED
      BY <3>1, <3>2 DEF UpdaterInv, TypeOK, LoopTypeOK, Coupled
  <2> QED
    BY <2>1, StutterInv
<1> QED
  BY <1>1, <1>2, PTL DEF Spec

-----------------------------------------------------------------------------
(* The types hold, whatever the sources, xray and the timing do              *)
(* (updater.go:112-298, manager.go:89-142).                                  *)
THEOREM UpdaterTypes == Spec => []TypeOK
<1>1. UpdaterInv => TypeOK
  BY DEF UpdaterInv
<1> QED
  BY <1>1, InvHolds, PTL

(* A running xray is the one the instance holds: no failed, repeated or      *)
(* interrupted start leaks a process (manager.go:97-142).                    *)
THEOREM NoProcessLeaks == Spec => []NoOrphan
<1>1. UpdaterInv => NoOrphan
  BY DEF UpdaterInv
<1> QED
  BY <1>1, InvHolds, PTL

(* The restart that an unchanged hash skips is not needed: the handle names  *)
(* a process of that configuration (manager.go:93-95, 126).                  *)
THEOREM HashIsOfProcess == Spec => []HashNamesProcess
<1>1. UpdaterInv => HashNamesProcess
  BY DEF UpdaterInv
<1> QED
  BY <1>1, InvHolds, PTL

(* After Stop no xray runs, and none is started by a run that outlived the   *)
(* deadline (updater.go:91-110): the handle is nil then, because a start     *)
(* needs a context that has not ended, and no process runs without a handle. *)
THEOREM StopIsFinal == Spec => []StoppedForGood
<1>1. UpdaterInv => StoppedForGood
  BY XrayAssumption DEF UpdaterInv, NoOrphan, Stopping, StoppedForGood
<1> QED
  BY <1>1, InvHolds, PTL

(* The status after a run that reports entries is the pool's                 *)
(* (updater.go:197-225, 261-287).                                            *)
THEOREM StatusIsOfPool == Spec => []StatusTellsPool
<1>1. UpdaterInv => StatusTellsPool
  BY DEF UpdaterInv, Reported, StatusTellsPool
<1> QED
  BY <1>1, InvHolds, PTL

(* A pool that had members keeps some (updater.go:212-216, 281-285).         *)
THEOREM PoolKeepsMembers == Spec => NeverEmptied
<1>1. ASSUME Next
      PROVE  members # {} => members' # {}
  BY <1>1 DEF Next, Step, Tick, RunOnce, LoadSpecs, LoadSpecsFails, EnsureUnchanged,
     EnsureReplaces, EnsureFails, EnsureReady, EnsureTimesOut, FetchMetrics,
     FetchMetricsFails, CheckLegacy, LegacyFails, ContextEnds, LoopExits, StopBegins,
     StopXray, System, Abandon, Deliver, updaterVars
<1>2. [Next]_vars => [members # {} => members' # {}]_vars
  BY <1>1
<1> QED
  BY <1>2, PTL DEF Spec, NeverEmptied

=============================================================================
