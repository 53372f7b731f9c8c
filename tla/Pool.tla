--------------------------------- MODULE Pool ---------------------------------
(***************************************************************************)
(* Who waits for whom: the mutation service's mu, the policy's runMu and the *)
(* one connection of the database pool (SetMaxOpenConns(1)), which a statement *)
(* takes for its duration and a transaction until it ends.  What the holders   *)
(* do to table and kernel is in RuleSvc, what the collector counts in Traffic. *)
(***************************************************************************)
EXTENDS Naturals

CONSTANTS
    Clients,      \* API requests
    Dns,          \* the RefreshDNS loop
    Reconciler,   \* the Reconcile loop, and Serve's first enforcement
    Collector,    \* the collector loop, and Serve's first Tick
    None,
    MaxFaults     \* bound: failing statements, transactions and nft runs

ASSUME ProcAssumption ==
    /\ {Dns, Reconciler, Collector, None} \cap Clients = {}
    /\ Dns # Reconciler /\ Dns # Collector /\ Reconciler # Collector
    /\ None \notin {Dns, Reconciler, Collector}
ASSUME BoundAssumption == MaxFaults \in Nat

VARIABLES
    stage,  \* Serve: "first" enforcement, first "tick", "workers"
    at,     \* the step of each process
    todo,   \* what follows the sync of each process
    mu,     \* holder of rulesvc.Service.mu
    runMu,  \* holder of policy.Service.runMu
    conn,   \* the transaction that has the connection
    ready,  \* Collector.ready
    faults

locks == <<mu, runMu, conn>>
vars == <<stage, at, todo, locks, ready, faults>>

Procs == Clients \cup {Dns, Reconciler, Collector}
Statements == {"poll", "snapshot", "clear", "read", "insert", "totals", "write", "cleanup",
               "notify", "begin", "baselines", "record", "committed"}
Steps == Statements \cup {"idle", "lockFirst", "resolve", "lock", "hold", "sync", "nft",
                          "commit", "counters", "recorded", "publish"}
\* "write" after the sync of an edit, "notify" after that of a Create, "commit" after
\* that of a DNS batch, "done" after that of a round and of a rollback.
Todos == {"none", "write", "notify", "commit", "done"}

TypeOK ==
    /\ stage \in {"first", "tick", "workers"}
    /\ at \in [Procs -> Steps] /\ todo \in [Procs -> Todos]
    /\ mu \in Clients \cup {Dns, None} /\ runMu \in Clients \cup {Dns, Reconciler, None}
    /\ conn \in {Dns, Collector, None}
    /\ ready \in BOOLEAN /\ faults \in 0..MaxFaults

Idle == [p \in Procs |-> "idle"]
NoTodo == [p \in Procs |-> "none"]
Init ==
    /\ stage = "first" /\ at = Idle /\ todo = NoTodo
    /\ mu = None /\ runMu = None /\ conn = None /\ ready = FALSE /\ faults = 0

-----------------------------------------------------------------------------
Fault == faults < MaxFaults /\ faults' = faults + 1
NoFault == UNCHANGED faults
At(p, s) == at[p] = s
\* A statement that is run: it waits for the connection, unless that is its own
\* transaction's, and has given it back when the step is over.
Run(p, s) == At(p, s) /\ conn = None

Keep == UNCHANGED <<stage, locks, ready>>
Goto(p, s) == at' = [at EXCEPT ![p] = s] /\ UNCHANGED todo
Sync(p, then) == at' = [at EXCEPT ![p] = "sync"] /\ todo' = [todo EXCEPT ![p] = then]

\* The deferred unlocks, and the rollback of a transaction; Serve goes on when its
\* first enforcement and its first Tick have ended, however they did.
Without(lock, p) == IF lock = p THEN None ELSE lock
Return(p) ==
    /\ at' = [at EXCEPT ![p] = "idle"] /\ todo' = [todo EXCEPT ![p] = "none"]
    /\ mu' = Without(mu, p) /\ runMu' = Without(runMu, p) /\ conn' = Without(conn, p)
    /\ stage' = IF stage = "first" /\ p = Reconciler THEN "tick"
                ELSE IF stage = "tick" /\ p = Collector THEN "workers" ELSE stage
    /\ UNCHANGED ready

-----------------------------------------------------------------------------
(* The locks, and what every holder does under them.                        *)

TakeMu(p) ==
    /\ at[p] \in {"lock", "lockFirst"} /\ mu = None /\ mu' = p
    /\ Goto(p, IF At(p, "lock") THEN "hold" ELSE "snapshot")
    /\ UNCHANGED <<stage, runMu, conn, ready>> /\ NoFault
Hold(p) ==
    /\ At(p, "hold") /\ runMu = None /\ runMu' = p /\ Goto(p, "read")
    /\ UNCHANGED <<stage, mu, conn, ready>> /\ NoFault

\* sync: the totals from SQLite until the collector is ready, then nft.
NeedsTotals == ~ready
EnterSync(p) ==
    /\ At(p, "sync") /\ Goto(p, IF NeedsTotals THEN "totals" ELSE "nft")
    /\ Keep /\ NoFault
Totals(p) == Run(p, "totals") /\ Goto(p, "nft") /\ Keep /\ NoFault
Nft(p) ==
    /\ At(p, "nft") /\ NoFault
    /\ IF todo[p] = "done" THEN Return(p) ELSE Goto(p, todo[p]) /\ Keep

\* A sync that failed: Create removes its row, then every call syncs the old rules,
\* a DNS batch inside its transaction.
SyncFailed(p) ==
    CASE todo[p] = "done" -> Return(p)
      [] todo[p] = "notify" -> Goto(p, "cleanup") /\ Keep
      [] OTHER -> Sync(p, "done") /\ Keep
NftFails(p) == At(p, "nft") /\ Fault /\ SyncFailed(p)
\* A rollback has 20 s.
UndoTimeout(p) ==
    /\ At(p, "totals") /\ todo[p] = "done" /\ p # Reconciler
    /\ SyncFailed(p) /\ NoFault

-----------------------------------------------------------------------------
(* Requests: a snapshot, a reset of a quota, whose total may be read first,  *)
(* or any other call of the mutation service.                               *)

Request(c) == At(c, "idle") /\ \E s \in {"poll", "lock"} : Goto(c, s) /\ Keep /\ NoFault
Poll(c) == Run(c, "poll") /\ NoFault /\ (Return(c) \/ (Goto(c, "lock") /\ Keep))
\* Not found, a conflict, a bad value; a Create; anything else.
Read(c) ==
    /\ Run(c, "read") /\ NoFault
    /\ \/ Return(c)
       \/ Goto(c, "insert") /\ Keep
       \/ Sync(c, "write") /\ Keep
Insert(c) == Run(c, "insert") /\ Sync(c, "notify") /\ Keep /\ NoFault
Write(c) == Run(c, "write") /\ Goto(c, "notify") /\ Keep /\ NoFault
Cleanup(c) == Run(c, "cleanup") /\ Sync(c, "done") /\ Keep /\ NoFault
\* fire: a snapshot is built while the locks are held.
Notify(p) == Run(p, "notify") /\ Return(p) /\ NoFault

\* Reconcile.
StartRoundUnderMu == At(Reconciler, "idle") /\ Goto(Reconciler, "lock") /\ Keep /\ NoFault
StartRound ==
    /\ At(Reconciler, "idle") /\ stage \in {"first", "workers"}
    /\ Goto(Reconciler, "hold") /\ Keep /\ NoFault
ReadRound == Run(Reconciler, "read") /\ Sync(Reconciler, "done") /\ Keep /\ NoFault

-----------------------------------------------------------------------------
(* RefreshDNS: a snapshot under mu, clearing and resolving without it, and a  *)
(* transaction around the sync under both locks.                            *)

StartDns == At(Dns, "idle") /\ stage = "workers" /\ Goto(Dns, "lockFirst") /\ Keep /\ NoFault
Snapshot ==
    /\ Run(Dns, "snapshot") /\ mu' = None /\ NoFault
    /\ \E s \in {"clear", "resolve", "idle"} : Goto(Dns, s)
    /\ UNCHANGED <<stage, runMu, conn, ready>>
Clear == Run(Dns, "clear") /\ (\E s \in {"resolve", "idle"} : Goto(Dns, s)) /\ Keep /\ NoFault
Resolve == At(Dns, "resolve") /\ Goto(Dns, "lock") /\ Keep /\ NoFault
\* Nothing left of the answers, or a batch.
ReadBatch == Run(Dns, "read") /\ NoFault /\ (Return(Dns) \/ (Goto(Dns, "begin") /\ Keep))
\* Only a batch that changes an address is applied.
Begin ==
    /\ Run(Dns, "begin") /\ conn' = Dns /\ NoFault
    /\ Sync(Dns, "commit") \/ Goto(Dns, "commit")
    /\ UNCHANGED <<stage, mu, runMu, ready>>
Applied == todo[Dns] = "commit"
EndBatch(next) ==
    IF Applied THEN next /\ conn' = None /\ UNCHANGED <<stage, mu, runMu, ready>> ELSE Return(Dns)
Commit == At(Dns, "commit") /\ NoFault /\ EndBatch(Goto(Dns, "notify"))
CommitFails == At(Dns, "commit") /\ Fault /\ EndBatch(Sync(Dns, "done"))

-----------------------------------------------------------------------------
(* The collector's Tick.                                                    *)

StartTick ==
    /\ At(Collector, "idle") /\ stage \in {"tick", "workers"}
    /\ Goto(Collector, "counters") /\ Keep /\ NoFault
Counters == At(Collector, "counters") /\ Goto(Collector, "baselines") /\ Keep /\ NoFault
\* A listing that looks incomplete ends the round.
Baselines ==
    /\ Run(Collector, "baselines") /\ NoFault
    /\ Return(Collector) \/ (Goto(Collector, "record") /\ Keep)
Record ==
    /\ Run(Collector, "record") /\ conn' = Collector /\ Goto(Collector, "recorded")
    /\ UNCHANGED <<stage, mu, runMu, ready>> /\ NoFault
GivenBackLate == conn
GivenBack == None
Recorded ==
    /\ At(Collector, "recorded") /\ conn' = GivenBack /\ Goto(Collector, "committed")
    /\ UNCHANGED <<stage, mu, runMu, ready>> /\ NoFault
RecordFails == At(Collector, "recorded") /\ Fault /\ Return(Collector)
\* loadTotals, whose error does not keep the round from being published.
Committed == Run(Collector, "committed") /\ Goto(Collector, "publish") /\ Keep /\ NoFault
Publish ==
    /\ At(Collector, "publish") /\ ready' = TRUE
    /\ at' = [at EXCEPT ![Collector] = "idle"]
    /\ stage' = IF stage = "tick" THEN "workers" ELSE stage
    /\ UNCHANGED <<todo, locks>> /\ NoFault

-----------------------------------------------------------------------------
(* Failures and restarts.                                                   *)

\* A statement fails when its turn has come, or while it waits when the request it
\* belongs to is given up; the contexts of the loops end with the process.
Aborted(p) == p \in Clients /\ todo[p] # "done"
StatementFails(p) ==
    /\ at[p] \in Statements \cup {"counters"} /\ Fault
    /\ conn = None \/ Aborted(p) \/ At(p, "counters")
    /\ CASE At(p, "totals") -> SyncFailed(p)
         [] At(p, "write") \/ At(p, "cleanup") -> Sync(p, "done") /\ Keep
         [] At(p, "clear") -> Goto(p, "resolve") /\ Keep
         [] At(p, "committed") -> Goto(p, "publish") /\ Keep
         [] OTHER -> Return(p)

\* The service is stopped, or dies, and starts again.
Restart ==
    /\ stage' = "first" /\ at' = Idle /\ todo' = NoTodo
    /\ mu' = None /\ runMu' = None /\ conn' = None /\ ready' = FALSE /\ NoFault

-----------------------------------------------------------------------------
Syncing(p) == EnterSync(p) \/ Totals(p) \/ Nft(p) \/ NftFails(p) \/ UndoTimeout(p) \/ StatementFails(p)
Of(p) ==
    \/ p \in Clients /\ (Poll(p) \/ Read(p) \/ Insert(p) \/ Write(p) \/ Cleanup(p))
    \/ p = Reconciler /\ ReadRound
    \/ p = Dns /\ (Snapshot \/ Clear \/ Resolve \/ ReadBatch \/ Begin \/ Commit \/ CommitFails)
    \/ p = Collector /\ (Counters \/ Baselines \/ Record \/ Recorded \/ RecordFails
                         \/ Committed \/ Publish)
Step(p) == TakeMu(p) \/ Hold(p) \/ Notify(p) \/ Syncing(p) \/ Of(p)
Start == (\E c \in Clients : Request(c)) \/ StartRound \/ StartDns \/ StartTick
Next == (\E p \in Procs : Step(p)) \/ Start \/ Restart

Spec == Init /\ [][Next]_vars
\* A mutex is handed to whoever has waited a millisecond, and a connection that is
\* given back to one of those who wait, drawn at random: no one is passed over for
\* ever (SF).  What needs no lock goes on.  Nothing need ever start.
FairSpec == Spec /\ \A p \in Procs : SF_vars(Step(p))

-----------------------------------------------------------------------------
(* Properties.                                                             *)

\* The DNS batch holds the connection its own sync waits for, and its context ends
\* with the process.
WaitsForItself == At(Dns, "totals") /\ conn = Dns /\ todo[Dns] # "done"

\* Whoever takes mu, runMu or the connection, in whatever order they fail: everyone
\* who waits gets his turn and returns.  The one exception is a DNS batch before
\* the collector's first good round (policy/service.go:402-405, store.go:177-205).
OthersReturn == \A p \in Procs : ~At(p, "idle") ~> At(p, "idle") \/ WaitsForItself

\* The first sentence alone: until the collector is ready, syncs take the totals from
\* SQLite (service.go:101-103) and go on.
EveryoneReturns == \A p \in Procs : ~At(p, "idle") ~> At(p, "idle")
=============================================================================
