-------------------------------- MODULE Updater ---------------------------------
(***************************************************************************)
(* The update cycle, internal/orchestrator/updater.go: sources, the xray   *)
(* instance, its metrics, the fallback to plain SOCKS5 addresses, and what *)
(* each way out leaves in the pool and in the status; then Stop, which     *)
(* main calls when the program's context has ended.                        *)
(*                                                                         *)
(* Start's own first run is a tick that is there from the beginning; that  *)
(* main waits for it before it can call Stop is not used.  Runs never      *)
(* overlap, so the pool's updating flag is never found set and is left     *)
(* out.  The pool is the set of its keys: Pool has the order and the rest. *)
(* The configuration generated from the sources of a run is chosen by the  *)
(* environment.                                                            *)
(***************************************************************************)
EXTENDS XrayInstance, FiniteSets

CONSTANTS
  NodesOf,       \* configuration -> the node IDs it includes
  Addrs,         \* the plain SOCKS5 addresses of the legacy lists
  XrayEnabled,   \* adapters.xray.enabled
  FallbackToLegacyOnError,
  Faults         \* the environment's faults a run looks at: see AllFaults

AllFaults == {"load", "start", "slow", "metrics", "legacy", "die"}

ASSUME UpdaterAssumption ==
  /\ DOMAIN NodesOf = Configs
  /\ \A c \in Configs : IsFiniteSet(NodesOf[c]) /\ NodesOf[c] \cap Addrs = {}
  /\ IsFiniteSet(Addrs)
  /\ XrayEnabled \in BOOLEAN
  /\ FallbackToLegacyOnError \in BOOLEAN
  /\ Faults \subseteq AllFaults

VARIABLES
  phase,    \* where runOnce is; "idle" between runs, "exited" after the loop
  config,   \* genRelaxed of this run, while it is needed
  tick,     \* a tick waits in the ticker's channel, which holds one
  members,  \* the keys in the pool
  status,   \* [err, adapter, pool, alive]: LastUpdateErr, LastDetails.Adapter,
            \* LastPool, and the alive nodes of LastNodeHealthRelaxed
  stop      \* where main and Updater.Stop are

updaterVars == <<phase, config, tick, members, status, stop>>
vars == <<xrayVars, updaterVars>>

Nodes == UNION {NodesOf[c] : c \in Configs}

Init ==
  /\ XrayInit
  /\ phase = "idle"
  /\ config = NoConfig
  /\ tick = TRUE
  /\ members = {}
  /\ status = [err |-> FALSE, adapter |-> "", pool |-> 0, alive |-> {}]
  /\ stop = "running"

-----------------------------------------------------------------------------
(* The ways a run ends.                                                      *)

\* SetEnd.
End(err, adapter, size, alive) ==
  /\ status' = [err |-> err, adapter |-> adapter, pool |-> size, alive |-> alive]
  /\ phase' = "idle"
  /\ config' = NoConfig

\* Mutant: an update that found no one empties the pool.
Deliver_Empty(found, adapter, alive) ==
  /\ members' = found
  /\ End(FALSE, adapter, Cardinality(found), alive)

\* "pool empty; keeping existing"
Deliver(found, adapter, alive) ==
  /\ members' = IF found # {} THEN found ELSE members
  /\ End(FALSE, adapter, Cardinality(found), alive)

\* A step of the xray path failed: the legacy path, or the end of the run.
Abandon ==
  /\ IF FallbackToLegacyOnError
       THEN phase' = "legacy" /\ config' = NoConfig /\ UNCHANGED status
       ELSE End(TRUE, "xray", 0, status.alive)
  /\ UNCHANGED <<tick, members, stop>>

-----------------------------------------------------------------------------
(* runOnce.                                                                  *)

Tick ==
  /\ stop \in {"running", "cancelled"}  \* Stop stops the ticker
  /\ ~ tick /\ tick' = TRUE
  /\ UNCHANGED <<xrayVars, phase, config, members, status, stop>>

\* The loop takes a tick; when the context has ended as well it may still do so.
RunOnce ==
  /\ phase = "idle" /\ tick
  /\ tick' = FALSE
  /\ phase' = IF XrayEnabled THEN "load" ELSE "legacy"
  /\ UNCHANGED <<xrayVars, config, members, status, stop>>

\* loadUpstreamSpecs and Generate.  Sources in files are read in any case.
LoadSpecs ==
  /\ phase = "load"
  /\ config' \in Configs
  /\ phase' = "ensure"
  /\ UNCHANGED <<xrayVars, tick, members, status, stop>>

LoadSpecsFails ==
  /\ phase = "load"
  /\ "load" \in Faults \/ cancelled
  /\ Abandon
  /\ UNCHANGED xrayVars

EnsureUnchanged ==
  /\ phase = "ensure" /\ UpToDate(config)
  /\ phase' = "metrics"
  /\ UNCHANGED <<xrayVars, config, tick, members, status, stop>>

EnsureReplaces ==
  /\ phase = "ensure" /\ ~ UpToDate(config)
  /\ Replace(config)
  /\ phase' = "probe"
  /\ UNCHANGED <<config, tick, members, status, stop>>

EnsureFails ==
  /\ phase = "ensure" /\ ~ UpToDate(config)
  /\ "start" \in Faults \/ cancelled
  /\ ReplaceFails
  /\ Abandon

EnsureReady ==
  /\ phase = "probe"
  /\ Ready
  /\ phase' = "metrics"
  /\ UNCHANGED <<config, tick, members, status, stop>>

\* Mutant: only a process that has exited ends the wait.
EnsureTimesOut_NoTimeout ==
  /\ phase = "probe"
  /\ \A p \in Pids : os[p].state = "gone"
  /\ NotReady
  /\ Abandon

\* A process that serves the ports is seen within the timeout, unless slow.
EnsureTimesOut ==
  /\ phase = "probe"
  /\ "slow" \in Faults \/ cancelled \/ \A p \in Pids : os[p].state = "gone"
  /\ NotReady
  /\ Abandon

\* Mutant: everything that answers is delivered, included or not.
Included_All(alive) == alive

\* The entries of the pool: what is included and alive.
Included(alive) == NodesOf[config] \cap alive

\* Fetch: what a process on the port has observed of its nodes so far, then
\* SetRelaxedNodeHealth and the delivery.
FetchMetrics ==
  /\ phase = "metrics"
  /\ ~ cancelled
  /\ \E p \in Answering : \E alive \in SUBSET NodesOf[os[p].config] :
       Deliver(Included(alive), "xray", alive)
  /\ UNCHANGED <<xrayVars, tick, stop>>

FetchMetricsFails ==
  /\ phase = "metrics"
  /\ "metrics" \in Faults \/ cancelled \/ Answering = {}
  /\ Abandon
  /\ UNCHANGED xrayVars

LegacyAdapter == IF XrayEnabled THEN "xray_fallback" ELSE "legacy"

\* runOnceLegacy: the lists are fetched and every address is checked.
CheckLegacy ==
  /\ phase = "legacy"
  /\ \E found \in SUBSET Addrs : Deliver(found, LegacyAdapter, status.alive)
  /\ UNCHANGED <<xrayVars, tick, stop>>

LegacyFails ==
  /\ phase = "legacy"
  /\ "legacy" \in Faults \/ cancelled
  /\ End(TRUE, LegacyAdapter, 0, status.alive)
  /\ UNCHANGED <<xrayVars, tick, members, stop>>

-----------------------------------------------------------------------------
(* The end: main is told, calls Stop, and Stop waits for the loop or for its *)
(* own deadline before it stops xray.                                        *)

ContextEnds ==
  /\ stop = "running" /\ stop' = "cancelled"
  /\ Cancel
  /\ UNCHANGED <<phase, config, tick, members, status>>

LoopExits ==
  /\ phase = "idle" /\ cancelled
  /\ phase' = "exited"
  /\ UNCHANGED <<xrayVars, config, tick, members, status, stop>>

StopBegins ==
  /\ stop = "cancelled" /\ stop' = "waiting"
  /\ UNCHANGED <<xrayVars, phase, config, tick, members, status>>

\* The loop has exited, or the deadline has passed: both let Stop go on.
StopXray ==
  /\ stop = "waiting" /\ stop' = "stopped"
  /\ Stop
  /\ UNCHANGED <<phase, config, tick, members, status>>

System ==
  /\ \E p \in Pids :
       Bind(p) \/ Release(p) \/ KilledByContext(p) \/ ("die" \in Faults /\ Die(p))
  /\ UNCHANGED updaterVars

Step ==
  \/ RunOnce
  \/ LoadSpecs \/ LoadSpecsFails
  \/ EnsureUnchanged \/ EnsureReplaces \/ EnsureFails
  \/ EnsureReady \/ EnsureTimesOut
  \/ FetchMetrics \/ FetchMetricsFails
  \/ CheckLegacy \/ LegacyFails

Next ==
  \/ Tick
  \/ Step
  \/ ContextEnds \/ LoopExits \/ StopBegins \/ StopXray
  \/ System

Spec == Init /\ [][Next]_vars

\* The ticker ticks and the loop runs.  A started process binds the ports or
\* exits, a killed one goes; Stop ends with its deadline.
Fairness ==
  /\ WF_vars(Tick)
  /\ WF_vars(Step)
  /\ WF_vars(LoopExits)
  /\ WF_vars(StopBegins)
  /\ WF_vars(StopXray)
  /\ \A p \in Pids : WF_vars(Bind(p) /\ UNCHANGED updaterVars)
  /\ \A p \in Pids : WF_vars(Release(p) /\ UNCHANGED updaterVars)

FairSpec == Spec /\ Fairness

-----------------------------------------------------------------------------
(* Types.  i.mu is held exactly while a run waits for its process, whichever *)
(* way it leaves Ensure (manager.go:89-129).                                 *)
TypeOK ==
  /\ XrayTypeOK
  /\ phase = "probe" <=> ensuring # NoConfig
  /\ phase \in {"idle", "load", "ensure", "probe", "metrics", "legacy", "exited"}
  /\ config \in Configs \cup {NoConfig}
  /\ tick \in BOOLEAN
  /\ members \in SUBSET (Nodes \cup Addrs)
  /\ status \in [err : BOOLEAN, adapter : {"", "xray", "xray_fallback", "legacy"},
                 pool : Nat, alive : SUBSET Nodes]
  /\ stop \in {"running", "cancelled", "waiting", "stopped"}

(* Once Stop has returned no xray runs, nor is one started again, although   *)
(* the deadline may have cut the wait short and a run may still be going     *)
(* through Ensure (updater.go:91-110, manager.go:117).                       *)
StoppedForGood == stop = "stopped" => \A p \in Pids : ~ Running(p)

(* A pool that has had members keeps some: no failed source, no failed xray, *)
(* no fallback and no round of checks that finds everyone dead empties it    *)
(* (README.md:167; updater.go:212-216, 281-285).                             *)
NeverEmptied == [][members # {} => members' # {}]_vars

(* What the status reports is what the pool holds and xray was started for:  *)
(* after a run that reports entries the pool has as many, of one kind, and   *)
(* after an xray run they are the nodes shown as alive that are included in  *)
(* the configuration of the process the instance holds, although another     *)
(* process may have answered (updater.go:197-225, 261-287).                  *)
StatusTellsPool ==
  (phase \in {"idle", "exited"} /\ status.pool > 0) =>
    /\ Cardinality(members) = status.pool
    /\ IF status.adapter = "xray"
         THEN proc # NoProc =>
                members = NodesOf[os[proc].config] \cap status.alive
         ELSE members \subseteq Addrs

(* Every run ends, with the fallback or without, and so does the program     *)
(* (updater.go:112-129, 91-110).                                             *)
EveryRunEnds ==
  /\ phase # "idle" ~> phase \in {"idle", "exited"}
  /\ cancelled ~> stop = "stopped" /\ phase = "exited"

-----------------------------------------------------------------------------
(* What the documents say and the code does not do.                          *)

(* Every connection is routed to the node it selects (xray-adapter.md:16):   *)
(* between runs, a serving xray knows the nodes in the pool.                 *)
RoutedEntries ==
  \A p \in Pids :
    (phase = "idle" /\ p = proc /\ os[p].state = "serving") =>
      members \cap Nodes \subseteq NodesOf[os[p].config]

(* An update starts xray if it does not run (xray-adapter.md:26): one that   *)
(* has died is started again, or the program ends.                           *)
DeadXrayIsRestarted ==
  \A p \in Pids :
    (proc = p /\ os[p].state = "gone")
      ~> (proc # p \/ os[p].state # "gone" \/ cancelled)

=============================================================================
