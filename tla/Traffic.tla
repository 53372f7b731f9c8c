------------------------------- MODULE Traffic -------------------------------
(***************************************************************************)
(* Traffic accounting and quota of nft-forward: the collector               *)
(* (internal/traffic), which turns nft named counters into the persistent   *)
(* totals of SQLite, and the quota half of internal/policy sync, which adds *)
(* to a snapshot of the collector's memory what the counters have gained    *)
(* since.                                                                   *)
(*                                                                         *)
(* The two run concurrently with the traffic and share only the collector's *)
(* lock, held for one read or one publication, and the database.  Totals    *)
(* and daily rows are written by one transaction with one increment, so     *)
(* only totals appear.  Bytes are counted in small units.                   *)
(***************************************************************************)
EXTENDS Integers

CONSTANTS
    Rules,         \* rule IDs
    Limit,         \* quota of each rule, 0 when it has none
    PartialReads,  \* may a counter listing miss some of the counters?
    Up, Down,      \* the two counters of a rule, nff_filter_up_<id> and _down_<id>
    MaxBytes,      \* bound: bytes a rule ever carries
    MaxFaults      \* bound: failed calls, crashes and outside changes

ASSUME DirAssumption == Up # Down
ASSUME LimitAssumption == Limit \in [Rules -> Nat]
ASSUME BoundAssumption == MaxBytes \in Nat /\ MaxFaults \in Nat /\ PartialReads \in BOOLEAN

Dirs == {Up, Down}
Names == Rules \X Dirs
CountersOf(R) == R \X Dirs

VARIABLES
    enabled,    \* DB: the enabled rules
    reset,      \* DB: quota_reset_baseline of each rule
    total,      \* DB: traffic_totals, per direction
    base,       \* DB: counter_state, Absent for a counter with no row
    table,      \* kernel: does table inet nff_filter exist?
    counter,    \* kernel: the named counters, Absent for one that does not exist
    blocked,    \* kernel: rules in the quota-block set
    col,        \* memory of the collector: ready, committed, base
    tick,       \* locals of the Tick in progress
    pol,        \* locals of the policy sync in progress
    quotaTotals,\* memory of policy: totals the last sync computed, Absent if none
    req,        \* a quota reset a client has asked for: the total it read
    forwarded,  \* history: bytes that really went through each direction
    disturbed,  \* history: counters destroyed with the bytes they held
    faults      \* environment: injected failures so far

db == <<enabled, reset, total, base>>
kernel == <<table, counter, blocked>>
env == <<forwarded, disturbed, faults>>
vars == <<db, kernel, col, tick, pol, quotaTotals, req, env>>

Absent == -1
Bytes == Nat \cup {Absent}
Readings == [Names -> Bytes]
NoReading == [n \in Names |-> Absent]
\* stale (history): the totals are older than the baselines beside them.
Memory == [ready : BOOLEAN, committed : [Rules -> Nat], base : Readings, error : BOOLEAN,
           stale : BOOLEAN]
TickState == [pc : {"idle", "read", "committed"}, read : Readings]
SyncState == [pc : {"idle", "fallback", "read", "struct", "elems"}, rules : SUBSET Rules,
              reset : [Rules -> Nat], ready : BOOLEAN, committed : [Rules -> Nat],
              base : Readings, stale : BOOLEAN, used : [Rules -> Nat]]

NoTick == [pc |-> "idle", read |-> NoReading]
NoSync == [pc |-> "idle", rules |-> {}, reset |-> [r \in Rules |-> 0], ready |-> FALSE,
           committed |-> [r \in Rules |-> 0], base |-> NoReading, stale |-> FALSE,
           used |-> [r \in Rules |-> 0]]
NoMemory == [ready |-> FALSE, committed |-> [r \in Rules |-> 0], base |-> NoReading,
             error |-> FALSE, stale |-> FALSE]

TypeOK ==
    /\ enabled \subseteq Rules /\ blocked \subseteq Rules /\ disturbed \subseteq Names
    /\ reset \in [Rules -> Nat]
    /\ total \in [Names -> Nat] /\ forwarded \in [Names -> Nat]
    /\ base \in Readings /\ counter \in Readings /\ table \in BOOLEAN
    /\ col \in Memory /\ tick \in TickState /\ pol \in SyncState
    /\ quotaTotals \in [Rules -> Bytes] /\ req \in [Rules -> Bytes]
    /\ faults \in Nat

Init ==
    /\ enabled = {} /\ blocked = {} /\ table = FALSE
    /\ reset = [r \in Rules |-> 0]
    /\ total = [n \in Names |-> 0] /\ forwarded = [n \in Names |-> 0]
    /\ base = NoReading /\ counter = NoReading
    /\ col = NoMemory /\ tick = NoTick /\ pol = NoSync
    /\ quotaTotals = [r \in Rules |-> Absent] /\ req = [r \in Rules |-> Absent]
    /\ disturbed = {} /\ faults = 0

Fault == faults < MaxFaults /\ faults' = faults + 1

\* Both directions of a rule.
Sum(f, r) == f[<<r, Up>>] + f[<<r, Down>>]
Totals == [r \in Rules |-> Sum(total, r)]

-----------------------------------------------------------------------------
(* The collector's Tick: list the counters, compare with counter_state,     *)
(* commit increments and new baselines in one transaction, reload the       *)
(* totals and publish.                                                      *)

\* nft list counters.  A missing table is an empty listing that may be used, but
\* when the table is there, a baseline is stored and nothing was listed, the
\* round is abandoned.
Listings == {[n \in Names |-> IF n \in missed THEN Absent ELSE counter[n]] :
               missed \in IF PartialReads THEN SUBSET Names ELSE {{}}}
Suspicious(read) == table /\ base # NoReading /\ read = NoReading

TickRead ==
    /\ tick.pc = "idle"
    /\ \E read \in Listings : ~Suspicious(read) /\ tick' = [pc |-> "read", read |-> read]
    /\ UNCHANGED <<db, kernel, col, pol, quotaTotals, req, env>>

TickAbandon ==
    /\ tick.pc = "idle"
    /\ \E read \in Listings : Suspicious(read)
    /\ col' = [col EXCEPT !.error = TRUE]
    /\ UNCHANGED <<db, kernel, tick, pol, quotaTotals, req, env>>

\* The increment of one counter: everything it holds when it is new or has
\* been reset since the baseline was stored.
IncrementAgain(cur, prev) == IF cur = Absent THEN 0 ELSE cur
IncrementKnown(cur, prev) ==
    IF cur = Absent \/ prev = Absent THEN 0 ELSE IF cur < prev THEN cur ELSE cur - prev
Increment(cur, prev) ==
    IF cur = Absent THEN 0 ELSE IF prev = Absent \/ cur < prev THEN cur ELSE cur - prev

TickCommit ==
    /\ tick.pc = "read"
    /\ total' = [n \in Names |-> total[n] + Increment(tick.read[n], base[n])]
    /\ base' = tick.read
    /\ tick' = [tick EXCEPT !.pc = "committed"]
    /\ UNCHANGED <<enabled, reset, kernel, col, pol, quotaTotals, req, env>>

\* The counters or the baselines cannot be read, or the transaction fails and is
\* rolled back.
TickFails ==
    /\ tick.pc \in {"idle", "read"} /\ Fault
    /\ tick' = NoTick
    /\ col' = [col EXCEPT !.error = TRUE]
    /\ UNCHANGED <<db, kernel, pol, quotaTotals, req, forwarded, disturbed>>

\* Publication under the collector's lock; when the totals cannot be reloaded
\* the old ones are kept beside the new baselines.
Publish(committed) ==
    /\ tick.pc = "committed"
    /\ col' = [ready |-> TRUE, committed |-> committed, base |-> tick.read, error |-> FALSE,
               stale |-> committed # Totals]
    /\ tick' = NoTick
    /\ UNCHANGED <<db, kernel, pol, quotaTotals, req, forwarded, disturbed>>
TickPublish == Publish(Totals) /\ UNCHANGED faults
TickPublishStale == Publish(col.committed) /\ Fault

-----------------------------------------------------------------------------
(* The policy sync, as far as quotas go.  Its rule set is the table's, or   *)
(* the candidate set of a client that enables or disables one rule; its     *)
(* reset baselines those of the table, or with one a client asks to reset.  *)

RuleSets == {enabled} \cup {enabled \cup {r} : r \in Rules} \cup {enabled \ {r} : r \in Rules}
Baselines == {reset} \cup {[reset EXCEPT ![r] = req[r]] : r \in {q \in Rules : req[q] # Absent}}
SnapshotTorn(R, baseline) ==
    [NoSync EXCEPT !.pc = IF col.ready THEN "read" ELSE "fallback", !.rules = R, !.reset = baseline,
                   !.ready = col.ready, !.committed = col.committed, !.base = base,
                   !.stale = col.stale]
Snapshot(R, baseline) ==
    [NoSync EXCEPT !.pc = IF col.ready THEN "read" ELSE "fallback", !.rules = R, !.reset = baseline,
                   !.ready = col.ready, !.committed = col.committed, !.base = col.base,
                   !.stale = col.stale]
PolicySnap ==
    /\ pol.pc = "idle"
    /\ \E R \in RuleSets, baseline \in Baselines : pol' = Snapshot(R, baseline)
    /\ UNCHANGED <<db, kernel, col, tick, quotaTotals, req, env>>

\* Before the collector's first round the totals come from the database.
PolicyFallback ==
    /\ pol.pc = "fallback"
    /\ pol' = [pol EXCEPT !.pc = "read", !.committed = Totals]
    /\ UNCHANGED <<db, kernel, col, tick, quotaTotals, req, env>>

\* LiveDelta.Used: a counter below its baseline adds nothing here.
GainSigned(cur, prev) == (IF cur = Absent THEN 0 ELSE cur) - (IF prev = Absent THEN 0 ELSE prev)
Gain(cur, prev) == LET from == IF prev = Absent THEN 0 ELSE prev
                   IN IF cur > from THEN cur - from ELSE 0
Gains(r) == IF pol.ready THEN Gain(counter[<<r, Up>>], pol.base[<<r, Up>>])
                           + Gain(counter[<<r, Down>>], pol.base[<<r, Down>>])
            ELSE 0
UsedUnlocked(r) == col.committed[r] + Gains(r)
Used(r) == pol.committed[r] + Gains(r)

\* nft list ruleset: the counters are read after the snapshot was taken.
PolicyRead ==
    /\ pol.pc = "read"
    /\ pol' = [NoSync EXCEPT !.pc = "struct", !.rules = pol.rules, !.reset = pol.reset,
                             !.used = [r \in Rules |-> Used(r)]]
    /\ UNCHANGED <<db, kernel, col, tick, quotaTotals, req, env>>

\* The structure: missing counters are declared, those of rules that are no
\* longer enabled deleted, the others kept with what they hold.
Rebuilt(n) == IF n \notin CountersOf(pol.rules) THEN Absent
              ELSE IF counter[n] = Absent THEN 0 ELSE counter[n]
PolicyStruct ==
    /\ pol.pc = "struct"
    /\ table' = TRUE
    /\ counter' = [n \in Names |-> Rebuilt(n)]
    /\ disturbed' = disturbed \cup {n \in Names : counter[n] # Absent /\ Rebuilt(n) # counter[n]}
    /\ pol' = [pol EXCEPT !.pc = "elems"]
    /\ UNCHANGED <<db, blocked, col, tick, quotaTotals, req, forwarded, faults>>

\* The quota-block set is made equal to what this round decided; the round's
\* totals are published, and a client's change is committed.
ExceededLate(r) == Limit[r] > 0 /\ pol.used[r] - pol.reset[r] > Limit[r]
Exceeded(r) == Limit[r] > 0 /\ pol.used[r] - pol.reset[r] >= Limit[r]
Decided == {r \in pol.rules : Exceeded(r)}
Published == [r \in Rules |-> IF r \in pol.rules THEN pol.used[r] ELSE Absent]
PolicyElems ==
    /\ pol.pc = "elems"
    /\ blocked' = Decided /\ quotaTotals' = Published
    /\ enabled' = pol.rules
    /\ req' = [r \in Rules |-> IF pol.reset[r] # reset[r] THEN Absent ELSE req[r]]
    /\ reset' = pol.reset
    /\ pol' = NoSync
    /\ UNCHANGED <<total, base, table, counter, col, tick, env>>

\* A query, a listing or one of the two nft batches fails, or nft is killed
\* after the kernel took the batch, or the client's change cannot be stored.
PolicyFails ==
    /\ pol.pc # "idle" /\ Fault
    /\ pol' = NoSync
    /\ \/ UNCHANGED <<blocked, quotaTotals>>
       \/ pol.pc = "elems" /\ blocked' = Decided /\ quotaTotals' \in {quotaTotals, Published}
    /\ UNCHANGED <<db, table, counter, col, tick, req, forwarded, disturbed>>

\* A client resets a quota: the handler reads Lifetime before any lock.
LifetimeTwice(r) == Totals[r] + IF quotaTotals[r] # Absent THEN quotaTotals[r] ELSE 0
Lifetime(r) == IF quotaTotals[r] # Absent THEN quotaTotals[r] ELSE Totals[r]
ResetRequest(r) ==
    /\ req' = [req EXCEPT ![r] = Lifetime(r)]
    /\ UNCHANGED <<db, kernel, col, tick, pol, quotaTotals, env>>

-----------------------------------------------------------------------------
(* The environment.                                                        *)

\* A packet of an enabled rule; the quota drop precedes the counters.
Packet(n) ==
    /\ counter[n] # Absent /\ n[1] \notin blocked /\ Sum(forwarded, n[1]) < MaxBytes
    /\ counter' = [counter EXCEPT ![n] = @ + 1]
    /\ forwarded' = [forwarded EXCEPT ![n] = @ + 1]
    /\ UNCHANGED <<db, table, blocked, col, tick, pol, quotaTotals, req, disturbed, faults>>

\* Every counter goes, with the set of blocked rules: a reboot, or an outside
\* nft delete table.
LoseTable ==
    /\ counter' = NoReading /\ blocked' = {} /\ table' = FALSE
    /\ disturbed' = disturbed \cup {n \in Names : counter[n] # Absent}

Forget == col' = NoMemory /\ tick' = NoTick /\ pol' = NoSync
          /\ quotaTotals' = [r \in Rules |-> Absent] /\ req' = [r \in Rules |-> Absent]

TableLoss == Fault /\ LoseTable /\ UNCHANGED <<db, col, tick, pol, quotaTotals, req, forwarded>>
Crash     == Fault /\ Forget /\ UNCHANGED <<db, kernel, forwarded, disturbed>>
Reboot    == Fault /\ Forget /\ LoseTable /\ UNCHANGED <<db, forwarded>>

-----------------------------------------------------------------------------
Collector == TickRead \/ TickCommit \/ TickPublish
CollectorFails == TickAbandon \/ TickFails \/ TickPublishStale
PolicySync == PolicySnap \/ PolicyFallback \/ PolicyRead \/ PolicyStruct \/ PolicyElems

Next ==
    \/ Collector \/ CollectorFails \/ PolicySync \/ PolicyFails
    \/ \E r \in Rules : ResetRequest(r)
    \/ \E n \in Names : Packet(n)
    \/ TableLoss \/ Crash \/ Reboot

Spec == Init /\ [][Next]_vars

\* Two ticker loops, each of which finishes a round it has begun.
FairSpec == Spec /\ WF_vars(Collector) /\ WF_vars(PolicySync)

-----------------------------------------------------------------------------
(* Properties.                                                             *)

\* No byte is billed twice, whatever resets, crashes and rebuilds come between
\* two rounds of the collector.
NoOverbilling == \A n \in Names : total[n] <= forwarded[n]

\* While its counter has never been destroyed, a direction is billed exactly:
\* what is stored and what the next round will add make what went through,
\* across crashes, failed rounds and restarts.
ExactBilling ==
    \A n \in Names \ disturbed :
        total[n] + Increment(counter[n], base[n]) = forwarded[n]

\* The real-time total of a sync never exceeds what the rule has carried, in any
\* order of its snapshot, its reading and the collector's commit.
NeverOvercharged ==
    \A r \in Rules : pol.used[r] <= Sum(forwarded, r) /\ quotaTotals[r] <= Sum(forwarded, r)

\* collector.go:418-420: what a sync finds in the collector's memory always goes
\* together, so the total it reads leaves nothing out either, in any order of
\* snapshot, commit, publication and reading: it is exactly what went through, once
\* a first round has been published, unless the rule's counters have been destroyed
\* or the totals could not be reloaded for that snapshot.
Intact(r) == <<r, Up>> \notin disturbed /\ <<r, Down>> \notin disturbed
RealtimeExact ==
    [][PolicyRead /\ pol.ready /\ ~pol.stale =>
         \A r \in Rules : Intact(r) => pol'.used[r] = Sum(forwarded, r)]_vars

\* A rule is blocked, and a reset baseline stored, only for bytes it has carried.
BlockedOnlyWhenUsed == \A r \in blocked : Sum(forwarded, r) >= Limit[r]
ResetWithinTraffic == \A r \in Rules : reset[r] <= Sum(forwarded, r)

\* A rule over its quota does get blocked, as long as it stays enabled, its
\* counters are not destroyed and nobody resets it.
Over(r) == Limit[r] > 0 /\ Sum(forwarded, r) >= Limit[r]
Excused(r) == \/ r \notin enabled \/ reset[r] > 0 \/ req[r] # Absent
              \/ ~Intact(r)
QuotaEnforced == \A r \in Rules : Over(r) ~> (r \in blocked \/ Excused(r))

\* collector.go:313-316: a listing that is empty while a baseline is stored was
\* read in part, because a deleted rule leaves the other counters listed.
AbandonsOnlyPartialReads == [][TickAbandon => PartialReads]_vars
=============================================================================
