---------------------------------- MODULE Pool ----------------------------------
(***************************************************************************)
(* The upstream pool of internal/pool/pool.go: the entries a request is    *)
(* dispatched to, the index from an entry's key to its position, and the   *)
(* round-robin cursor.  Every operation holds p.mu from its first line to  *)
(* its last, so each is one action; the callers' own steps, and the clock, *)
(* are in the modules that extend this one.                                *)
(*                                                                         *)
(* An entry is its key and its health; address, credentials and latency    *)
(* decide nothing here.  Times are positive integers, 0 is Go's zero time. *)
(***************************************************************************)
EXTENDS Integers, Sequences

CONSTANTS
  Keys,         \* the keys an upstream can have (Entry.Key())
  None,         \* "no entry": what Next and Get return with ok = false
  BaseBackoff,  \* selection.failure_backoff_seconds
  MaxBackoff    \* selection.max_backoff_seconds

\* applyDefaults replaces a backoff that is not positive.  Nothing orders
\* BaseBackoff and MaxBackoff.
ASSUME PoolAssumption ==
  /\ None \notin Keys
  /\ BaseBackoff \in Nat \ {0}
  /\ MaxBackoff \in Nat \ {0}

\* What validate accepts for selection.strategy.
Strategies == {"round_robin", "random"}

VARIABLES
  entries,  \* the sequence of entries, as the updater delivered it
  index,    \* key -> position in entries
  rr        \* the cursor, kept modulo Len(entries): all that Next reads of it

poolVars == <<entries, index, rr>>

ZeroTime == 0

Entry == [key : Keys, failures : Nat, until : Nat]

Fresh(k) == [key |-> k, failures |-> 0, until |-> ZeroTime]

PoolInit ==
  /\ entries = <<>>
  /\ index = [k \in {} |-> 0]
  /\ rr = 0

-----------------------------------------------------------------------------
(* Two readings of "not disabled at time t".  They differ at t = until.      *)

\* Next: disabledUntil.IsZero() || now.After(disabledUntil)
Eligible(e, t) == e.until = ZeroTime \/ t > e.until

\* Get, Active: not (!disabledUntil.IsZero() && now.Before(disabledUntil))
Usable(e, t) == e.until = ZeroTime \/ t >= e.until

-----------------------------------------------------------------------------
(* Update: new entries with a clean record, a new index, the cursor at 0.    *)

\* Mutant: an index built before the list was turned round.
LastPosition_Reversed(list, k) ==
  Len(list) + 1 - (CHOOSE i \in DOMAIN list : list[i] = k)

LastPosition(list, k) ==
  CHOOSE i \in DOMAIN list :
    list[i] = k /\ \A j \in DOMAIN list : list[j] = k => j <= i

KeysOf(list) == {list[i] : i \in DOMAIN list}

\* Mutant: the index of the last update is kept for the keys it had.
Update_OldIndex(list) ==
  /\ entries' = [i \in DOMAIN list |-> Fresh(list[i])]
  /\ index' = [k \in KeysOf(list) |-> IF k \in DOMAIN index THEN index[k]
                                      ELSE LastPosition(list, k)]
  /\ rr' = 0

\* Mutant: an upstream that stays keeps its record.
Update_KeepsRecords(list) ==
  /\ entries' = [i \in DOMAIN list |->
                   IF list[i] \in DOMAIN index THEN entries[index[list[i]]]
                   ELSE Fresh(list[i])]
  /\ index' = [k \in KeysOf(list) |-> LastPosition(list, k)]
  /\ rr' = 0

Update(list) ==
  /\ entries' = [i \in DOMAIN list |-> Fresh(list[i])]
  /\ index' = [k \in KeysOf(list) |-> LastPosition(list, k)]
  /\ rr' = 0

-----------------------------------------------------------------------------
(* Next: k is the key of the entry it returns, or None.                      *)

\* Mutant: the cursor is read and not advanced.
Start_Stuck == rr % Len(entries)

Start == (rr + 1) % Len(entries)

\* The i-th position the round-robin scan looks at.
Scan(i) == ((Start + i) % Len(entries)) + 1

\* Mutant: the scan stops one entry short.
RoundRobin_Short(t, k) ==
  /\ rr' = Start
  /\ \/ \E i \in 0 .. Len(entries) - 2 :
          /\ Eligible(entries[Scan(i)], t)
          /\ \A j \in 0 .. i - 1 : ~ Eligible(entries[Scan(j)], t)
          /\ k = entries[Scan(i)].key
     \/ /\ \A i \in 0 .. Len(entries) - 2 : ~ Eligible(entries[Scan(i)], t)
        /\ k = None

RoundRobin(t, k) ==
  /\ rr' = Start
  /\ \/ \E i \in 0 .. Len(entries) - 1 :
          /\ Eligible(entries[Scan(i)], t)
          /\ \A j \in 0 .. i - 1 : ~ Eligible(entries[Scan(j)], t)
          /\ k = entries[Scan(i)].key
     \/ /\ \A i \in 0 .. Len(entries) - 1 : ~ Eligible(entries[Scan(i)], t)
        /\ k = None

\* Len(entries) draws with replacement: they may all hit disabled entries.
Random(t, k) ==
  /\ UNCHANGED rr
  /\ \/ \E i \in DOMAIN entries : Eligible(entries[i], t) /\ k = entries[i].key
     \/ (\E i \in DOMAIN entries : ~ Eligible(entries[i], t)) /\ k = None

NextEntry(strategy, t, k) ==
  /\ UNCHANGED <<entries, index>>
  /\ \/ entries = <<>> /\ k = None /\ UNCHANGED rr
     \/ entries # <<>> /\ strategy = "round_robin" /\ RoundRobin(t, k)
     \/ entries # <<>> /\ strategy = "random" /\ Random(t, k)

-----------------------------------------------------------------------------
(* The read-only lookups.                                                    *)

\* Get: the key of the entry it returns, or None.
Get(key, t) ==
  IF key \in DOMAIN index /\ Usable(entries[index[key]], t)
    THEN entries[index[key]].key
    ELSE None

\* Active: the positions of the entries it copies, which are in pool order.
Active(t) == {i \in DOMAIN entries : Usable(entries[i], t)}

-----------------------------------------------------------------------------
(* Health reports.  A key that is no longer in the pool is ignored.          *)

\* Mutant: the doubling is not capped.
Backoff_Uncapped(failures) == BaseBackoff * 2 ^ (failures - 1)

\* The backoff doubles with every failure after the first and is capped; the
\* cap is first applied to the second failure.
Backoff(failures) ==
  LET Doubled == BaseBackoff * 2 ^ (failures - 1)
  IN  IF failures = 1 THEN BaseBackoff
      ELSE IF Doubled \in BaseBackoff .. MaxBackoff THEN Doubled
      ELSE MaxBackoff

SetHealth(key, failures, until) ==
  /\ entries' = IF key \in DOMAIN index
                  THEN [entries EXCEPT ![index[key]] =
                          [@ EXCEPT !.failures = failures, !.until = until]]
                  ELSE entries
  /\ UNCHANGED <<index, rr>>

\* Mutant: the failures are forgotten, the penalty is not.
MarkSuccess_StillDisabled(key) == SetHealth(key, 0, entries[index[key]].until)

MarkSuccess(key) == SetHealth(key, 0, ZeroTime)

\* Mutant: the penalty is taken off the time instead of added to it.
MarkFailure_Backwards(key, t) ==
  LET failures == entries[index[key]].failures + 1
  IN  SetHealth(key, failures, t - Backoff(failures))

MarkFailure(key, t) ==
  LET failures == entries[index[key]].failures + 1
  IN  SetHealth(key, failures, t + Backoff(failures))

-----------------------------------------------------------------------------
(* What every user of the pool may rely on, and hands over in turn.          *)

\* The keys of an update: runOnceLegacy drops repeated addresses, Deduplicate
\* repeated node IDs.
DistinctKeys(list) ==
  \A i, j \in DOMAIN list : list[i] = list[j] => i = j

PoolTypeOK ==
  /\ entries \in Seq(Entry)
  /\ DOMAIN index \subseteq Keys
  /\ index \in [DOMAIN index -> Nat]
  /\ rr \in Nat

(* The index and the entries describe the same upstreams: every key leads to *)
(* the entry that carries it and every entry is reached, so that Get and the *)
(* health reports touch the entry Next handed out (pool.go:67-77, 116-120,   *)
(* 145-149, 156-161).                                                        *)
IndexAgrees ==
  /\ \A k \in DOMAIN index : index[k] \in DOMAIN entries /\ entries[index[k]].key = k
  /\ \A i \in DOMAIN entries :
       entries[i].key \in DOMAIN index /\ index[entries[i].key] = i

(* An entry is disabled exactly while failures are counted against it: no    *)
(* order of late successes, late failures and updates leaves an upstream     *)
(* disabled with a clean record, or enabled for good with a bad one          *)
(* (pool.go:149-150, 161-172).                                               *)
HealthAgrees ==
  \A i \in DOMAIN entries :
    (entries[i].failures = 0) <=> (entries[i].until = ZeroTime)

=============================================================================
