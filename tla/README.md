# Formal models of nft-forward

nft-forward forwards TCP/UDP ports with nftables. Users manage rules through a
web panel; the rules live in SQLite, the forwarding happens in the kernel, and a
Go daemon keeps the two together while it meters traffic, enforces quotas and
limits the number of client addresses per rule. This directory has TLA+ models
of that daemon, TLC runs over small instances, and TLAPS proofs for all
instances.

Paths below are relative to the repository; `service.go` without a directory is
named together with its package (`rulesvc/service.go`, `policy/service.go`).

## 1. The system

### 1.1 Components, their state and operations

| component | state it keeps | operations that change state |
|---|---|---|
| rule mutation, `internal/rulesvc` | `mu`; nothing else in memory | `Create`, `Update`, `SetEnabled`, `UpdatePolicy`, `Delete`, `RefreshDNS` |
| rule table, `internal/forward/store.go`, `rule.go` | SQLite table `rules` | `CreateTx`, `UpdateTx`, `UpdateResolvedBatch`, `SoftDeleteTx`, `HardDelete` |
| port allocation, `internal/forward/allocator.go` | none | `Allocate` (used by `Create` with port 0) |
| policy enforcement, `internal/policy/service.go` | `runMu`, `ipStates`, `flows`, `states`, `quotaTotals`, `lastStructSig`, status fields | `Reconcile`, `ApplyRules`, both through `sync`/`applyNFT` |
| slot admission, `internal/policy/ipslot.go` | `Slots`, `Rejected`, `Observed` of a rule | `NodeIPState.Reconcile`, `AllowSet` |
| traffic collector, `internal/traffic` | `committed`, `counterBase`, rates, error; SQLite `traffic_totals`, `traffic_daily`, `counter_state` | `Tick`, `LiveSnapshot` |
| nft generation and drift, `internal/nft` | none; the kernel's tables `nff_nat4`, `nff_nat6`, `nff_filter` are its medium | `GenStructScript`, `StructSig`, `DetectDrift`, `GenElementScript`, `Apply` |
| name resolution, `internal/resolve` | last good addresses, stored in the row | `Resolve` |
| connection tracking, `internal/connection` | none | `ReadConntrack`, `BuildIndex`, `LocalIPs` |
| startup, `internal/service` | contexts and tickers, the stage of the service | `Serve`: first enforcement with retries, collector, policy, DNS and SSE loops, `Shutdown` |
| the pool, `internal/database` | the one connection (`SetMaxOpenConns(1)`) | every statement and transaction |
| HTTP API and SSE, `internal/api` | subscribers with their channels, `lastSnapKey` | handlers, subscription, `publishSnapshot`, `PublishSnapshotTick` |
| login throttling, `internal/api/login.go` | table of failures per source | `loginThrottle`, `loginRecordFail`, `loginRecordSuccess` |
| configuration, `internal/config`, `internal/fsx` | `panel.json` on disk | `LoadStrict`, `Save`, `Migrate`, `WriteFileAtomic` |
| provisioning, `internal/provision`, `install.sh` | the port, token and path in that file | `EnsurePanelPort`, `EnsureToken`, `EnsureEntryPath`, `SetPanelPortChecked`, the installer's restart and rollback |
| panel in the browser, `internal/webui` | what it shows | event stream, polls of `/api/summary` |

### 1.2 How they interact

    API handlers ──► rulesvc ──(mu)──► store (SQLite)
                        │ Hold/ApplyRules (runMu)
    DNS loop ───────────┤
                        ▼
    policy loop ──► policy.sync ──► applyNFT ──► nft ──► kernel
                     ▲     ▲                              │ counters, sets
        LiveSnapshot │     │ conntrack listing            ▼
                  collector ◄──────────────────────── nft list counters

* Every change of a rule holds two locks: `rulesvc.Service.mu`, which serialises
  calls, and `policy.Service.runMu`, taken by `Hold()`, which keeps the 500 ms
  `Reconcile` out of a half-done change. `mu` is taken before `runMu`.
* `sync` loads the rules given to it (by a call, by a rollback, or by
  `Reconcile` from the table) in two nft transactions: the structure, only when
  `StructSig` or `DetectDrift` says so, and the elements of the sets.
* The collector runs beside all of this, without `runMu`. Collector and policy
  share the kernel's counters and a snapshot (`LiveSnapshot`).
* `RefreshDNS` takes `mu` for a snapshot, resolves without any lock, and takes
  both locks to compare and apply.
* Under the two locks lies a third: the pool's only connection. A statement takes
  it and gives it back; a transaction (the batch of `RefreshDNS`, the commit of
  the collector) keeps it until it ends.
* A change of a rule builds and sends a snapshot to the event streams while it
  holds its locks; a ticker, each new stream and each poll build snapshots of
  their own, without any lock.
* Commands (`config-ensure-all`, `panel-port-set`) are processes of their own.
  They share `panel.json` and the database with the running panel, and no lock.

### 1.3 What is hard here

* two stores and no common transaction: a call must leave both changed or
  neither, when any of its steps fails, including the rollback;
* crashes, reboots, nft being killed after the kernel has taken a batch, and
  other programs changing the tables, all of which only the next round repairs;
* a DNS answer that arrives after its rule has been edited or deleted;
* counters that vanish or restart, listings taken while counters are being
  rebuilt, and a snapshot that is older than the counters read beside it;
* admission that mixes established and provisional holders in one pass, with a
  limit that may change;
* slots that live in memory and elements that live in the kernel, with a
  conntrack that may be unusable for any number of rounds;
* a memory of flows, keyed by tuples that are used again, whose byte counts are
  the only sign of life, read from a file that may be torn or damaged;
* nested waiting for two mutexes and one connection, with failures at each step;
* a file that is replaced while power may fail, and a port that is checked by one
  process, written by it and taken into use by another;
* snapshots that overtake each other, channels that are full, streams that never
  end.

`PROJECT.json` lists these as hazards, each at its line, with the properties
that cover it or the reason why none does yet.

### 1.4 What makes each component correct

* rule mutation: table and kernel agree whenever no call is in progress; a
  failed call changes neither; a deleted rule never forwards again; no two rules
  share a socket; a rule never points at the address of another domain; every
  call ends.
* collector: no byte is billed twice; while the counter survives, none is lost.
* quota: a rule is not blocked before it has used its quota, and is blocked
  after; a reset subtracts no more than what was used.
* admission: no more slots than the limit; established clients keep their slots
  and are not kept out by addresses that only send SYNs.
* element sync: the allow sets are the slots; updating them interrupts nobody
  who holds a slot; nothing changes while conntrack cannot be used.
* flow memory: a client is online exactly while it has a flow that has carried
  something within the window; the memory does not outgrow the table; the host
  is not its own client.
* locks and connection: everyone who waits gets his turn.
* panel: commands never give it the port of a rule, now or after its next start;
  what a command told the user stays true; a damaged file is left alone; an open panel comes to show the truth; a
  stop ends.

## 2. The modules

| module | models | lines of code it stands for |
|---|---|---|
| `RuleSvc` | calls of rulesvc, RefreshDNS, Reconcile: table and chains, both locks | `rulesvc/service.go`, `forward/store.go`, the structure half of `policy` `sync`/`applyNFT` |
| `RuleTable` | the promise of rulesvc: a call is one step of table and kernel | the table of `forward/store.go` as callers see it |
| `Traffic` | collector's `Tick`, quota half of `sync`, quota reset | `traffic/collector.go`, quota parts of `policy/service.go` |
| `IPSlot` | `NodeIPState.Reconcile`, one action per phase and address | `policy/ipslot.go` |
| `EnforceSync` | slots, allow sets and structure through rounds, calls and rollbacks | slot half of `policy` `sync`/`applyNFT`, `nft/elements.go` |
| `SlotContract`, `Admission` | what a round of admission promises the sync around it | `policy/ipslot.go` as `sync` relies on it |
| `Flows` | conntrack's table, its reading, the flow memory, the host's own addresses | `connection/*.go`; `touchFlow`, `gcFlows`, `selfIPSet`, `buildActiveCandidates` of `policy/service.go` |
| `Pool` | who waits for `mu`, `runMu` and the connection, on every path through calls, rounds, batches, ticks and their failures | `rulesvc/service.go`, `sync`, `Tick`, `store.go`, `database/db.go` |
| `Live` | snapshots on their way to a panel; start and stop of the service | `service/service.go`, `api/server.go`, `handlers.go`, `app.js` |
| `Provision` | `panel.json`, the commands that write it, the running panel and its rules' ports | `provision.go`, `config.go`, `fsx.go`, `allocator.go`, `install.sh` |
| `MC...` | constants, small instances and symmetry for TLC | |
| `...Proofs` (eight) | the theorems about the module they are named for | |

The modules look at one daemon from different sides. Where two meet, the meeting
is either checked or stated:

* `IPSlot` is the detail of the step `Admit` of `EnforceSync`. Both are tied to
  `SlotContract!Admitted`: `EnforceSync` admits any set that is `Admitted`, and
  `IPSlot` implements `Admission`, whose only decision is to choose such a set
  (`KeepsPromise`, a run and a theorem).
* `RuleTable` has one step per call, without locks, rows written ahead, syncs or
  rollbacks; `RuleSvc` implements it (`CallsAtomic`, a run and a theorem). What a
  user sees of a call under way is the table and kernel from before it (`Shown`,
  `Ruled`), until its last write; `Pending` says which part is not yet shown.
* `Flows` finds the addresses that `IPSlot` calls `active`; `IPSlot` takes any.
* `RuleSvc` abstracts from the set elements `EnforceSync` is about, and
  `EnforceSync` from who asks for a sync; `Traffic` takes "the rules of a sync" as
  any set, which is how it sees what `RuleSvc` does.
* `RuleSvc` gives its processes the locks as soon as they are free and the
  connection always; that nobody waits for ever, and the one case in which
  everybody does, is the subject of `Pool`, which keeps of every process only at
  which step it is and what it holds.
* `Flows` assumes disjoint sockets, which is `PortsDisjoint` of `RuleSvc`.

### 2.1 RuleSvc

State: `db` is the rule table (an ID is `free`, `live` or `gone`; soft and hard
deletion both make it `gone`, as AUTOINCREMENT never reuses an ID); `plane` is
what the kernel holds per rule, abstracted to the tuple of `StructSig`; `mu`,
`runMu` hold their owner; `ctx[p]` has the program counter and the locals of the
call of process `p` (`next` the candidate rules, `prev` those read under the
locks); `dns` has the locals `RefreshDNS` carries between its phases.

Actions: `AcquireMu`, then `LoadCreate`/`LoadUpdate`/`LoadPolicy`/`LoadDelete`
(`hold`, `ListActive`, checks, candidate) or `Reject`; `InsertRow` (only `Create`
writes first); `SyncStruct`, `SyncElems` and their failures; `CommitRow`;
`HardDelete`; after a failure the same two sync steps with `prev`. `RefreshDNS`
is `DnsSnapshot`, `DnsClear`, `DnsResolve`, `DnsLock`, `DnsLoad`; the loop of
`Reconcile` is `ReconcileStart` and the sync steps. `Crash` loses every lock and
local and, with a reboot, the kernel's tables. `Tamper` is somebody else's nft.

Abstractions: a set of sockets for protocol and port; a domain's address is a
generation number (`ZoneChange` raises it), so an answer can be recognised as
old; names, traffic, elements and field validation are left out. `clock` counts
the seconds `updated_at` is written with.

### 2.2 Traffic

`total`, `base` are `traffic_totals` and `counter_state`; `counter` the named
counters; `col` the collector's memory; `tick` and `pol` the locals of the round
and the sync in progress; `quotaTotals` what policy publishes. `forwarded` is
the ground truth no program sees. `Packet` counts one unit through a counter.
`Tick` is read, commit, publish, with the places where each may fail; policy is
snapshot (and the fallback to SQLite before the collector is ready), read,
structure (counters of rules that went are deleted, those of new ones created),
elements (the block set). Rates and daily rows are left out: the first decide
nothing, the second are written with the totals by the same transaction. `stale`
in `col` and `pol` is history: whether the totals published are older than the
baselines beside them, because they could not be read again after the commit.

### 2.3 IPSlot

One rule. A round takes an arbitrary listing: `active` are addresses with an
established flow, `cand` those with only a SYN. `Start` releases and ranks,
one step per address admits in the order of the code's sort (`Precedes`), and
`Finish` drops old observations. `limit` may change between rounds and `Forget`
is a rule that is switched off.

### 2.4 EnforceSync

`chain` and `allow` are the kernel, `slots` and `sig` the daemon's memory,
`sync` the locals of the one sync in progress (`runMu`). A sync is `Admit`
(conntrack, nft state, slots; all before the kernel has accepted anything),
`SkipStruct` or `Rebuild`, `Elements`, and for a call `Commit`; each can fail,
and a failed call goes on with the rollback. `Tamper` and `Crash` can strike
between any two steps. `suspect` says what has gone wrong since the last sync
that succeeded, so that a property can say "unless".

### 2.5 Flows

`conn` is the kernel's table: an entry per connection that may exist, with its
state and byte count. A sync is one step, as all of this runs under `runMu` on
one reading (`Readings`: missing, torn, or whole with at most one damaged line,
each kind of damage where `parseLine` looks for it). `flows` is the memory, keyed
as in the code by rule, protocol, source and source port; `self` the cached
addresses of the host. A sync with a usable reading touches, collects and judges
(`SyncUsable`); one without drops what rules it no longer has had (`SyncFrozen`);
calls do either with a candidate set of rules. Connections open, carry bytes,
close and are reopened on the same tuple. `fresh`, `quiet` and `aliased` are
history: which flows have news no usable sync has been shown, for how long a flow
has been silent, and which ones found an entry of a predecessor.

### 2.6 Provision

`file` is the configuration as programs read it, `disk` as it is after a loss of
power; `op` the one command that runs, with the stages of `WriteFileAtomic`
(temporary file, fsync, rename, fsync of the directory) as steps; `panel` the
port the running panel has; `rules` the ports of its rules. `announced` is what a
command has told the user. Commands may fail, be killed, or lose power at any
step; the file may be damaged and repaired by hand. One command runs at a time
(the installer is one script); the panel creates and deletes rules whenever it
runs, against the guards it had at its start. A write that fails at the flush of
the directory has renamed the file already, and the command reports an error
(`Abort` at `"dirsync"`); that of a command that was killed reaches the disk
before the next one runs (`Die`). Two variables are history: `unsynced` says that
such a flush has failed since the user was last told everything, `unguarded` holds
the rules that were created on a port the panel may have after its next start
(`Claimed`: in the file, on disk, or in a command's hands) and that none of its
guards covers.

### 2.7 Live

`build` has, for every goroutine that builds snapshots, its step and what it has
read: rules first, states after that, as `buildFullSnapshot` does. Publishers set
`lastKey` and send in two steps and may overtake each other; a full channel drops
the message. A stream sends its first packet before it subscribes. `view` is what
each panel shows. The service starts (`"first"` with its retries, then
`"workers"`) and crashes. A signal (`Signal`) sets `term` at any stage: a first
round under the cancelled context fails and is the last, the `select` of `Serve`
then cancels the workers and calls `Shutdown` (`Close`), and that returns when no
request is active (`Drained`; an open stream is one) or, `Expire`, when its 10 s
are over. Heartbeats and the content of snapshots are left out.

### 2.8 Pool

`at` is the step of every process, `todo` what follows its sync, `mu`, `runMu`
and `conn` the holders. A statement is a step that is possible while no
transaction has the connection. Every early return, failure and rollback of a
call, a round, a DNS batch and a collector round is a path; requests may be given
up while they wait, rollbacks time out after 20 s, the loops' contexts end only
with the process.

## 3. The runs

| run | asks | instance | states |
|---|---|---|---|
| `RuleSvcCalls` | do table and kernel agree, are sockets exclusive, deletions final, failed calls undone? is a late answer ever stored on the wrong rule? does the service implement `RuleTable`? | 2 failures; 2 rules on literals, 4 socket sets of which one is reserved; or 1 rule on 2 domains and a literal, 1 change of each zone, 2 seconds | 725 k |
| `RuleSvcHeal` | is every divergence repaired? | 1 ID, 1 failure, a row left by an older release | 28 k |
| `TrafficSafe` | is anything billed twice or not at all? is the total the quota is judged by exact? | 1 rule, quota 2, 2 bytes, 2 failures | 3.2 M |
| `TrafficLive` | is the quota enforced? | 1 rule, quota 1, 1 failure | 215 k |
| `IPSlotRounds` | starvation, provisional slots, established clients, the promise to the sync | 3 addresses, limits 1 and 2, clock 0..1 | 212 k |
| `EnforceRounds` | allow sets, holders, freeze, convergence | 1 rule, 2 addresses, limits none and 1, 3 failures | 61 k |
| `FlowRounds` | who is online? | 1 rule, a TCP and a UDP flow of one address that the host may take, windows 0 and 1, 1 byte | 289 k |
| `PanelPort` | who can bring panel and rules onto one port, and does the user keep what he was told? | 4 ports, 2 failures, deaths or edits | 1.4 M |
| `PanelTold` | the same without the exception for the flush: a counterexample, section 6 | 4 ports, 1 failure | |
| `PoolRounds` | does everyone who waits get his turn? | 1 request, the three loops, 2 failures | 15 k |
| `PoolStart` | the same without the exception: a counterexample, section 6 | 1 failure | |
| `LiveRounds` | does a panel come to show the truth, do calls and stops end? | 1 panel, 2 contents, a channel for 1, 1 change, 1 failure | 337 k |

Why the bounds are enough. `RuleSvcCalls` is the union of two instances, which its
constraint `Bounded` cuts out of their product: two rules on literals are what a
conflict over a socket needs, and the socket sets `{tcp}`, `{udp}`, `{tcp, udp}`
have every kind of overlap; one rule can go from a domain to the other and back,
or to a literal, while an answer is under way and the second goes by. Two failures
are a failed apply with a failed rollback, or with a crash in the rollback. One
client is enough: a second that waits for `mu` has done nothing that shows. A
batch of two answers, and two rules of which one has a domain, are left to the
proofs of section 5, where all seven properties are theorems. Rules, domains and
the two sockets of a port are interchangeable, as nothing compares them.
Two bytes and two failures in `TrafficSafe` let a counter
be lost below and above its baseline with a byte counted on either side, and the
reset of a quota fall between any two steps; `Up` and `Down` are interchangeable.
Three addresses with a limit of 1 or 2 are the fewest with a holder, one who is
displaced and one who waits, above and below a lowered limit; with windows of
0 and 1 the clock 0..1 tells expired from fresh. One rule is enough for
`EnforceSync` because rules meet only in the batch, whose failure is a failure of
each; two addresses are one to stay and one to go. In `FlowRounds` the memory of
one key does not touch that of another, so one flow of each kind is what the
windows can tell apart; one byte and a reopened connection, whose count starts
from zero, give every relation of a count to the one remembered; `SelfTTL` 1
gives a reading that is fresh, stale and expired. The ports of `PanelPort` have
one that is ephemeral, one that is not, one that is guarded and the 8090 of old.
Two failures there are a flush or a death that leaves file and disk apart and a
loss of power that tells them apart.
In `PoolRounds` one request is enough, as `mu` serialises them and a second waits
where the first does; two failures are one that starts a rollback and one that
hits it, and restarts are not bounded. In `LiveRounds` the table begins with one of the
two contents, which are only ever compared; a channel of one is full after one message; one failure is one read, break, failed round, crash or signal,
and one attempt is enough of the first rounds, since their number only delays the
workers.

Deadlock is checked in all runs: the loops can always take another step.

Each property of a passing run has a mutant: a plausible bug in a definition
(a dropped rollback, an inverted order, a missing reset, a comparison off by one)
with which the same run finds the property violated. The mutated forms stand
before the definitions they replace (`FailedNoUndo`, `SnapshotTorn`, ...).

## 4. Fairness

* `mu` and `runMu` are `sync.Mutex`, which hands the lock in FIFO order to a
  goroutine that has waited 1 ms. A waiter therefore gets it if it becomes free
  again and again: strong fairness on the steps that take a lock (`LoadCall`,
  `DnsLock`, `DnsLoad`, `ReconcileStart`, `BeginRound`).
* A goroutine that has what it needs runs on: weak fairness on the steps under
  the locks (each nft call and each query has a timeout, so it returns).
* The 500 ms loop and the collector's ticker run as long as the service does
  (`service.go` `runCollector`, `runPolicy`): their first step is fair.
* `Pool`: strong fairness on the steps of every process that has begun something,
  as `database/sql` hands a connection that is given back to a waiter drawn at
  random, and a mutex to one that has waited; nobody need begin anything.
* `Live`: publishers and polls run on, tickers tick, the goroutine of `Serve` goes
  on (its rounds end, the `select` sees the signal, the timer of `Shutdown` fires),
  and the first view of a panel polls. Nobody need read a stream, start the
  process or connect.
* Nothing is assumed of requests, of the DNS, of failures and of the
  environment. Failures are bounded by `MaxFaults`, so liveness says what happens
  once they stop, from whatever state they leave.

## 5. The proofs

All theorems hold for every value of the constants that meets the named
assumptions of the module, and no bound of the runs matters to them.

**RuleSvcProofs.** `IInv == TypeOK /\ Locks /\ Sound /\ Ties /\ Planes`. The
properties speak of the times when no call is in progress; the invariant says
what a call in the middle of its work has in its hands: `Locks`, who holds which
lock at which step; `Sound`, that every rule set in use is free of conflicts and
of wrong addresses; `Ties`, how `next` and `prev` differ from the table;
`Planes`, which of them the kernel holds at each step. From it: `TypeCorrect`,
`Enforced`, `AddressSound`, and for steps `RollbackExact`.

`Atomic` is the refinement: with `Shown` for the table and `Ruled` for the kernel,
every step of `RuleSvc` is one step of `RuleTable` or a stutter. A call takes
effect at its last write (`CommitRow`, the end of a `Create`, a failed call's
clean-up); locks, candidates, syncs, rollbacks, `Reconcile` and the phases of a
refresh are stutters, and the row a `Create` has written early does not show.

What `IInv` says of addresses is false of a table with leftover resolve columns,
where `DnsClear` can race an edit (section 6). So `Enforced`, `AddressSound`,
`RollbackExact` and `Atomic` assume `LegacyIds = {}`; TLC finds each of the four
violated without it. What an installation with such rows may rely on is proved from a weaker invariant, `KInv == TypeOK /\ Locks /\ Remembered`,
which says only what the locks protect and that a call remembers the table it
read: `DeletedForGood`, without hypothesis; `PortsStaySafe`, that sockets stay
disjoint if those of the inherited rows were (`PortsSafe` for a new one); and
`OnceTidy`, that from any state on that has no leftover columns, no call and no
refresh in progress (`Tidy`), all of `Enforced`, `AddressSound` and `RollbackExact`
hold.

**TrafficProofs.** A reading under way must not be worth more than what has been
forwarded: `Billed` and `InFlight` say so of `total` with the increment the next
commit will add. `Rising` orders the readings of a counter that survived,
`ColSnap`/`PolSnap` tie the snapshots of collector and policy to it. Everything
that happens to a counter is a `CounterStep`, and one lemma about the increment
is applied to each. `NeverOverbilled`, `BilledExactly`, `RealtimeSound`,
`RealtimeComplete`, `BlockedJustly`, `RoundsJust`, `ResetSound` assume
`PartialReads = FALSE`, as section 6 shows they must; `TypeCorrect` does not.
`RealtimeComplete` adds that the real-time
total leaves nothing out: a snapshot that is not `stale` is `Whole` from its
publication to its reading, as an intact counter gains exactly what passes
(`Together`). `BlockedJustly` compares with the traffic since the rule's first byte;
that a blocked rule has used its quota since its stored baseline is false between
rounds (TLC: nft takes the blocks of a round that was to lower the baseline, and
the round then fails), and `RoundsJust` proves it of every round carried through.

**IPSlotProofs.** In the middle of a round: `Turned`, an established address that
still has a provisional slot has its turn to come; `Served`, one that has had its
turn and no slot found all slots formal; `Young`, provisional slots are within
their TTL. Theorems: `TypeCorrect`, `Bounded`, `Starvationless`,
`ProvisionalShort`, `EstablishedSafe`, `ExcessNeverGrows`, and `PromiseKept`: with
the slots of a round hidden until it is over, every step of `IPSlot` is one of
`Admission` or a stutter, because the number of slots never exceeds both the limit
and what there was at the start of the round.

**EnforceSyncProofs.** The invariant follows one sync: what it has read is what
the kernel holds unless somebody has tampered since (`ReadTrue`), the chain is
the wanted one after the structure (`Built`), the candidate rules are in force
after the elements (`Applied`), and in a freeze the replayed slots are what is
already there (`Replaying`). Theorems: `TypeCorrect`, `LimitsEnforced`,
`HoldersSafe`, `FreezeHolds`. `KernelFits` carries the limit from the slots to the
kernel: while nothing fails, neither batch leaves more addresses passing than the
limit applied, or than passed before. Its strengthening `Bounded` holds only of
slots no failed call has touched, so it is tied to `suspect = {}`, and the
exception is real (section 6).

**FlowsProofs.** A judgement at a sync is right when the memory is: `QuietMemory`
says that a live flow without news has an entry with its very byte count and an
age no less than its silence, and no more unless the entry is older than the
connection; `NewsMemory` that a flow with news is told by its count; `SynMemory`
that a handshake has no entry but an older one. They hold if no two connections
share a key (`DistinctKeys`, assumed by the two properties themselves); they
survive frozen rounds since the flows of rules that are left out become new.
`SelfKnown` says that a cached reading younger than the last change is true.
Theorems: `TypeCorrect`, `BusyOnline`, `IdleOffline`, `Collected`, `SelfExcluded`.

**ProvisionProofs.** `Staged` says what a stage of a write has on disk and what it
is about to put there, and that file and disk are the same whenever none is under
way, unless a flush has failed (`unsynced`); `Telling` that, as long as none has,
what was told is in the file, on the disk and in what is being written, but for a
change the user asked for; `Apart`, that the rules on a port of `Claimed` or on the
panel's own are all `unguarded`: a command that picks or accepts a port has read
the rules first, a rule created after that counts as unguarded, and no failure,
rollback, death or loss of power leads to a port that was not claimed. Theorems:
`TypeCorrect`, `Announced`, `PanelApart`, `NeverOverwritten`, none with a
hypothesis.

**PoolProofs.** `Roles` gives every process its steps, `MuHeld`, `RunMuHeld` and
`ConnHeld` say at which of them it has which lock. From it `LockOrder`: whoever
holds one of `mu`, `runMu` and the connection waits, if at all, for a later one,
so no circle of waiters can close, except that a DNS batch may wait for itself;
and `OnlyRestartHelps`: there it stays until the process is restarted. `NoStandstill` draws the
conclusion: unless a batch waits for itself, at most three links of "waits for what
that one holds" lead from whoever waits to somebody who can move. Together
with `PoolStart` this is the deadlock of section 6 in general, and the proof that
there is no other. `TypeCorrect` besides.

**LiveProofs.** `TypeCorrect`, with the bound of every channel; and
`NothingOlderReturns`, the lasting half of `CatchesUp`: when panels show the truth
and neither a builder nor a channel has anything older (`Settled`), it stays so
until something changes or fails, in whatever order publishers, streams and polls
go on. That this is reached is the other half, and liveness.

Only model-checked: the liveness properties (`Heals`, `QuotaEnforced`,
`Converges`, `OthersReturn`, `CatchesUp`, `CallsNeverWait`, `StopEnds`), which the
prover cannot treat. Every invariant of a run, and every property of steps, is a
theorem.

## 6. Where code and comments disagree

Two have a run that shows them.

1. `PoolStart`. Until the collector has published its first round, `sync` reads
   the totals with `s.db` (`policy/service.go:404`), also when `RefreshDNS` calls it
   from inside the transaction of `UpdateResolvedBatch` (`forward/store.go:177`),
   which holds the only connection (`database/db.go:109`). The context of
   `RefreshDNS` has no deadline: the query waits for ever, with `mu` and `runMu`
   held, so that every call, every round and the collector, whose first round
   would end the reason for the query, wait as well. It takes a first `Tick` that
   fails and a domain whose address has changed since it was stored. It also
   happens when the batch reads "not ready" just before the collector publishes,
   and a collector that is restarted after its last rule was disabled never
   becomes ready (below). `service/service.go:103` says only that quotas are
   judged by SQLite's totals for some hundred milliseconds.
2. `PanelTold`. `WriteFileAtomic` renames the file and returns what the flush of the
   directory returns (`fsx/fsx.go:52-55`, `66-86`). When that fails,
   `panel-port-set` exits with an error, and `change_panel_port` of the installer
   tells the user that the port was not changed (`install.sh:626-628`) and rolls
   nothing back, while `panel.json` holds the new port, which the next start of the
   panel takes. `install.sh:624` and `provision.go:217` say that nothing is written
   on failure. `AnnouncedKept`, that nothing else makes what was told untrue, holds.

Known besides, each with the way to reproduce it:

* `RefreshDNS` (`rulesvc/service.go:481`) empties the resolve columns of
  IP-literal rules outside the lock. A rule edited meanwhile to a domain loses
  the address `Update` has just stored, and the next reconcile drops its DNAT
  until a later refresh. `AddrMatchesHost`
  in the instance of `RuleSvcHeal.cfg`, which has such a row.
* A `Create` that fails to apply and then fails to remove its row
  (`rulesvc/service.go:244`) returns an error and leaves an enabled rule.
  `FailedCallLeavesNoRow` of `RuleSvc`.
* A listing that misses some, but not all, counters (`traffic/collector.go:315`)
  is committed, their baselines are dropped and the next round bills what they
  hold again. `NoOverbilling` with `PartialReads = TRUE` in `TrafficSafe.cfg`.
* Disabling the last enabled rule leaves the table, no counter and a stored
  baseline: every later round is abandoned as a partial read and reports an
  error, until a rule is enabled again. `AbandonsOnlyPartialReads` of `Traffic`
  with one rule.
* `sync` forgets the slots of a rule that a call disables (`policy/service.go:492`)
  before nft has accepted; when the rollback runs with conntrack unusable, the
  empty state is replayed and the clients in use are thrown out of the allow
  set. `FrozenNeverEvicts` of `EnforceSync`.
* `flowKey` (`policy/service.go:700`) has no destination address: of two connections
  from one client port to two addresses of the host, a new one is hidden by what
  the other has carried, and two idle ones with different counts never go
  offline. `FlowRounds.cfg` with `Tuple <- TwinFlows` and without `DistinctKeys =>`.
* A panel on a view that does not poll (`Polling = FALSE`, `StreamSpec` of
  `MCLive`) may go on showing an old state: a change between its first packet and
  its subscription, a dropped message, or snapshots sent in the wrong order are
  repaired only by the next change. `api/server.go:381` says that every change is
  pushed.
* The guards of a panel against its own port are those of its start
  (`service.go:59`): while `panel-port-set` is between its check and the restart, or
  after one that died with the new port in the file, the running panel accepts a
  rule on the new port (`rulesvc/service.go:211-233`), and its next start meets it.
  `PanelAlone` in `PanelPort.cfg`; `OnlyUnguardedCollide` says that this is the only
  way.

Small things met on the way, without a property:

* `updated_at` has a resolution of one second, so an edit within the second of
  the previous write is not noticed by `RefreshDNS` (`rulesvc/service.go:547`);
  `AddrMatchesHost` still holds, as the domain is compared too.
* When the totals cannot be reloaded after a commit, the new baselines are
  published beside the old totals (`collector.go:425`), and real-time usage is
  low by one round until the next. `collector.go:418-420` says that snapshots always
  go together; `RealtimeExact` leaves these out (`stale`).
* Bytes a counter has counted since the last round are lost when it is deleted
  and created again (`collector.go:346`); `ExactBilling` excludes such counters.
* Slots that a failed call handed out under the limit it asked for stay in memory
  (`policy/service.go:467`), and its rollback puts them into the
  kernel under the old, lower limit: until their flows end, more addresses pass
  than the rule allows. `KernelFits` begins after such a failure is mended.
* A lowered limit evicts no established holder (`ipslot.go:173`): hence "no more
  than the limit or than there were" in `SlotContract`.
* A holder whose flows have closed keeps its formal slot while it sends SYNs
  (`ipslot.go:116`), without a TTL, where `ipslot.go:111` says that it is
  released at once.
* The TTL of a provisional slot is tested before establishment
  (`ipslot.go:121`): a client that established just after the last round in time
  is released and admitted anew, if there is room.
* The victim of a preemption may have established since its slot was given: the
  provisional flag is brought up to date only at its own turn (`ipslot.go:197`).
* A reopened connection that has carried exactly as many bytes as the one before
  it is not noticed until it carries more: `BusyStaysOnline` leaves it out
  (`aliased`). Without `nf_conntrack_acct` every flow looks so; the installer
  switches it on (`install.sh:186-201`).
* `tcpStates` (`conntrack.go:206`) lists `SYN_RECV2` where Linux prints `SYN_SENT2`;
  `local.go:11` takes IPv6 text to be canonical, where `/proc/net/nf_conntrack`
  prints it in full.
* A port 8090 that was asked for is taken back by the next
  `config-ensure-all` (`config.go:381`). The port a rollback writes is not checked.
* An event stream never ends by itself, so a stop with an open panel takes the
  whole 10 s of `Shutdown` and then leaves it; a read of the rules that fails makes
  a snapshot without rules (`handlers.go:63`); and since totals are part of
  `snapshotStructKey`, any traffic makes the ticker push.

## 7. Not modelled

Parsing and formatting (`nft -j` output, JSON, targets; of conntrack lines only
what each kind of damage does), field validation, rates and daily statistics,
views and routing of the API, presentation in the panel, menus and self-tests of
the command line: data and I/O without an order of events to get wrong. The login
throttle is a table of counters under one lock that nothing else depends on.
Drift detection is taken to be exact: a kernel chain differs from the wanted one
if and only if it is noticed; the packets' way through the generated chains is
not followed. The merge of A and AAAA answers is left out: a rule has one address.
The random tries of `pickPort` and `Allocate` and the probing of sockets are a
choice among the ports they may return. `s.states` is changed by `sync` without
`s.mu` (`policy/service.go:495`) while handlers read it under `s.mu`: a data race
listed as a hazard only.

## 8. Plan

Done: rules and their abstract promise, traffic, slots, sync; the admission
refinement; flows, provisioning, snapshots, locks and connection; the proofs of
section 5. What would come next:

1. `Resolve`: the merge of A and AAAA results with the last good ones, per family,
   so that a rule keeps each of its addresses when one query fails.
2. `Forwarding`: packets through the generated chains: replies of limited rules
   pass, SYNs pass, blocked rules carry nothing; drift of every kind of object is
   noticed (`MissingObjects`, `DetectDrift`) and the repaired chain is the wanted.
3. `LoginThrottle`: the table at its limit, and failures of many sources.

Theorems to come: that no holder is interrupted across a call that fails while
conntrack can be used; that two callers of the service see their calls in one
order; that every object the script creates is one drift detection looks for.
