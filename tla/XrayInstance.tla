------------------------------ MODULE XrayInstance ------------------------------
(***************************************************************************)
(* The xray process manager, internal/xray/manager.go, and the processes   *)
(* it starts.  Ensure and Stop exclude each other by i.mu; Ensure keeps it *)
(* while it waits for the new process, and the operating system moves on   *)
(* meanwhile: a killed process lets go of the ports in its own time, a     *)
(* process that finds them taken exits, any process may die.  No one waits *)
(* for a process: its end is never noticed.                                *)
(*                                                                         *)
(* The SOCKS port and the metrics port are bound and released together.    *)
(***************************************************************************)
EXTENDS Integers

CONSTANTS
  Configs,   \* the generated configurations, equal exactly if their hashes are
  NoConfig,  \* the hash before any, ""
  Pids,      \* the processes the system can hold at a time
  NoProc     \* the nil process handle

ASSUME XrayAssumption == NoConfig \notin Configs /\ NoProc \notin Pids

VARIABLES
  os,        \* pid -> [config, state] of the processes started so far
  proc,      \* i.proc
  lastHash,  \* i.lastHash
  ensuring,  \* the configuration Ensure waits to see ready: i.mu is held
  cancelled  \* the context of the program is

xrayVars == <<os, proc, lastHash, ensuring, cancelled>>

\* "closing" is a process that was killed and still holds its ports.
ProcState == {"starting", "serving", "closing", "gone"}

XrayInit ==
  /\ os = [p \in Pids |-> [config |-> NoConfig, state |-> "gone"]]
  /\ proc = NoProc
  /\ lastHash = NoConfig
  /\ ensuring = NoConfig
  /\ cancelled = FALSE

\* Something answers the readiness probe and the metrics client.
Answering == {p \in Pids : os[p].state \in {"serving", "closing"}}

Running(p) == os[p].state \in {"starting", "serving"}

\* The processes after a SIGKILL to p.
Killed(p) ==
  [q \in Pids |->
     IF q # p THEN os[q]
     ELSE [os[q] EXCEPT !.state = CASE @ = "serving" -> "closing"
                                    [] @ = "starting" -> "gone"
                                    [] OTHER -> @]]

-----------------------------------------------------------------------------
(* Ensure.                                                                   *)

UpToDate(c) == proc # NoProc /\ lastHash = c

\* Mutant: a process is started although the program is going down.
Replace_Cancelled(c) ==
  /\ \E p \in Pids :
       /\ Killed(proc)[p].state = "gone"
       /\ os' = [Killed(proc) EXCEPT ![p] = [config |-> c, state |-> "starting"]]
       /\ proc' = p
  /\ ensuring' = c
  /\ UNCHANGED <<lastHash, cancelled>>

\* The old process is killed, the new one started.  exec.Cmd.Start refuses when
\* its context has ended.
Replace(c) ==
  /\ ~ cancelled
  /\ \E p \in Pids :
       /\ Killed(proc)[p].state = "gone"
       /\ os' = [Killed(proc) EXCEPT ![p] = [config |-> c, state |-> "starting"]]
       /\ proc' = p
  /\ ensuring' = c
  /\ UNCHANGED <<lastHash, cancelled>>

\* The old process is killed, then the directory, the file or the start fails.
ReplaceFails ==
  /\ os' = Killed(proc)
  /\ proc' = NoProc
  /\ UNCHANGED <<lastHash, ensuring, cancelled>>

\* Mutant: the hash is not recorded.
Ready_NotRecorded ==
  /\ ensuring # NoConfig
  /\ Answering # {} /\ ~ cancelled
  /\ ensuring' = NoConfig
  /\ UNCHANGED <<os, proc, lastHash, cancelled>>

\* waitReady: both probes have answered, whichever process it was.
Ready ==
  /\ ensuring # NoConfig
  /\ Answering # {} /\ ~ cancelled
  /\ lastHash' = ensuring
  /\ ensuring' = NoConfig
  /\ UNCHANGED <<os, proc, cancelled>>

\* Mutant: the process that was not ready in time is left running.
NotReady_LeavesIt ==
  /\ ensuring # NoConfig
  /\ proc' = NoProc
  /\ ensuring' = NoConfig
  /\ UNCHANGED <<os, lastHash, cancelled>>

\* Mutant: this return does not unlock i.mu.
NotReady_StaysLocked ==
  /\ ensuring # NoConfig
  /\ os' = Killed(proc)
  /\ proc' = NoProc
  /\ UNCHANGED <<lastHash, ensuring, cancelled>>

\* waitReady: the start timeout, or the end of the program's context.
NotReady ==
  /\ ensuring # NoConfig
  /\ os' = Killed(proc)
  /\ proc' = NoProc
  /\ ensuring' = NoConfig
  /\ UNCHANGED <<lastHash, cancelled>>

-----------------------------------------------------------------------------
(* Stop, and the end of the context the processes were started with.         *)

\* Stop waits for i.mu.
Stop ==
  /\ ensuring = NoConfig
  /\ os' = Killed(proc)
  /\ proc' = NoProc
  /\ lastHash' = IF proc = NoProc THEN lastHash ELSE NoConfig
  /\ UNCHANGED <<ensuring, cancelled>>

Cancel ==
  /\ ~ cancelled
  /\ cancelled' = TRUE
  /\ UNCHANGED <<os, proc, lastHash, ensuring>>

-----------------------------------------------------------------------------
(* The operating system, and xray itself.                                    *)

Becomes(p, from, to) ==
  /\ os[p].state \in from
  /\ os' = [os EXCEPT ![p].state = to]
  /\ UNCHANGED <<proc, lastHash, ensuring, cancelled>>

\* The first to bind the ports serves, another exits.
Bind(p) ==
  Becomes(p, {"starting"}, IF Answering = {} THEN "serving" ELSE "gone")

Release(p) == Becomes(p, {"closing"}, "gone")

Die(p) == Becomes(p, {"starting", "serving"}, "gone")

\* exec.CommandContext kills what it started when the context ends.
KilledByContext(p) ==
  /\ cancelled /\ Running(p)
  /\ os' = Killed(p)
  /\ UNCHANGED <<proc, lastHash, ensuring, cancelled>>

-----------------------------------------------------------------------------
XrayTypeOK ==
  /\ os \in [Pids -> [config : Configs \cup {NoConfig}, state : ProcState]]
  /\ proc \in Pids \cup {NoProc}
  /\ lastHash \in Configs \cup {NoConfig}
  /\ ensuring \in Configs \cup {NoConfig}
  /\ cancelled \in BOOLEAN

(* No process is leaked: one that runs and was not killed is the one the     *)
(* instance holds, so that the next Ensure or Stop ends it, after any        *)
(* failed, repeated or interrupted start (manager.go:97-100, 117-124,        *)
(* 131-142).                                                                 *)
NoOrphan == \A p \in Pids : Running(p) => p = proc

(* The handle never names a process of another configuration than the one    *)
(* Ensure recorded for it, so that an unchanged hash may skip the restart    *)
(* although a failed start leaves the old hash behind (manager.go:93-95,     *)
(* 116-126).                                                                 *)
HashNamesProcess ==
  proc # NoProc => os[proc].config = IF ensuring = NoConfig THEN lastHash ELSE ensuring

=============================================================================
