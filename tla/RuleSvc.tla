------------------------------- MODULE RuleSvc -------------------------------
(***************************************************************************)
(* The rule-mutation pipeline of nft-forward: internal/rulesvc (Create,     *)
(* Update, UpdatePolicy, Delete, RefreshDNS), the rule table of             *)
(* internal/forward/store.go, and the structural half of the enforcement    *)
(* path internal/policy sync/applyNFT with its periodic Reconcile.          *)
(*                                                                         *)
(* Two stores have to agree: the SQLite rule table db and the rules         *)
(* loaded in the kernel, plane.  Every writer runs under two locks: mu      *)
(* (rulesvc.Service.mu) and runMu (policy.Service.runMu, taken by hold()).  *)
(* What the kernel holds for a rule is abstracted to one "chain" record,    *)
(* the tuple StructSig is built from; set elements are not represented.     *)
(***************************************************************************)
EXTENDS Naturals, FiniteSets

CONSTANTS
    Ids,         \* rule IDs; AUTOINCREMENT, so never reused
    Sockets,     \* (protocol, port) pairs
    Listens,     \* what one rule may listen on: sets of sockets
    Guarded,     \* GuardPorts: sockets of the panel and of SSH
    Literals,    \* targets that are IP literals (with their target port)
    Hosts,       \* targets that are domain names
    Clients,     \* API requests that may run concurrently
    Dns,         \* the background RefreshDNS loop
    Reconciler,  \* the 500 ms Reconcile loop
    None,
    LegacyIds,   \* rows an older release left with stale resolve columns
    MaxFaults,   \* bound: failed calls, crashes and outside changes
    MaxClock,    \* bound: seconds of wall clock
    MaxZone      \* bound: times a domain's address changes

ASSUME TableAssumption ==
    /\ \A l \in Listens : l \subseteq Sockets /\ l # {}
    /\ Literals \cap Hosts = {}
    /\ None \notin Literals \cup Hosts
    /\ LegacyIds \subseteq Ids
    /\ \A i, j \in LegacyIds : i = j

ASSUME ProcAssumption ==
    /\ Dns \notin Clients /\ Reconciler \notin Clients /\ Dns # Reconciler
    /\ None \notin Clients \cup {Dns, Reconciler}

ASSUME BoundAssumption == MaxFaults \in Nat /\ MaxClock \in Nat /\ MaxZone \in Nat

VARIABLES
    db,        \* the rules table of SQLite
    plane,     \* what the kernel holds for each rule
    mu,        \* holder of rulesvc.Service.mu
    runMu,     \* holder of policy.Service.runMu
    ctx,       \* the call each process is executing
    dns,       \* locals of RefreshDNS between its three phases
    zone,      \* environment: the address generation each domain has now
    clock,     \* environment: time.Now().Unix()
    faults,    \* environment: injected failures so far
    suspect    \* history: what no successful sync has put right yet, "plane" the
               \* kernel's rules, "row" a row a failed Create could not remove

vars == <<db, plane, mu, runMu, ctx, dns, zone, clock, faults, suspect>>
env == <<zone, clock>>

Procs == Clients \cup {Dns, Reconciler}

-----------------------------------------------------------------------------
(* Rows of the rules table and the chains they ask for.                    *)

\* A resolved address, named by the domain it answers and its generation; an
\* IP literal is its own address.
Addr == [host : Hosts \cup Literals \cup {None}, gen : Nat]
NoAddr == [host |-> None, gen |-> 0]

Row == [st     : {"free", "live", "gone"},
        listen : Listens \cup {{}},
        on     : BOOLEAN,
        lim    : BOOLEAN,
        target : Hosts \cup Literals \cup {None},
        addr   : Addr,
        rev    : Nat]
Blank == [st |-> "free", listen |-> {}, on |-> FALSE, lim |-> FALSE,
          target |-> None, addr |-> NoAddr, rev |-> 0]
GoneBare == [st |-> "gone"]
Gone == [Blank EXCEPT !.st = "gone"]

Tables == [Ids -> Row]
NoTable == [i \in Ids |-> Blank]

\* DialV4/DialV6: a literal is dialled as it is, a domain by its last address.
Dial(r) == IF r.target \in Hosts THEN r.addr
           ELSE [host |-> r.target, gen |-> 0]

Chain == [up : BOOLEAN, listen : Listens \cup {{}}, dial : Addr, lim : BOOLEAN]
Down == [up |-> FALSE, listen |-> {}, dial |-> NoAddr, lim |-> FALSE]

\* The chain of an enabled rule, as StructSig spells it; an enabled rule whose
\* domain has no address keeps its counters, with NoAddr to dial.
ChainOf(r) == IF r.st = "live" /\ r.on
              THEN [up |-> TRUE, listen |-> r.listen, dial |-> Dial(r), lim |-> r.lim]
              ELSE Down
Desired(t) == [i \in Ids |-> ChainOf(t[i])]

\* CheckPort: reserved ports, and every other undeleted rule, enabled or not.
NoConflictEnabled(t, i, l) ==
    /\ l \cap Guarded = {}
    /\ \A j \in Ids \ {i} : t[j].st = "live" /\ t[j].on => t[j].listen \cap l = {}
NoConflict(t, i, l) ==
    /\ l \cap Guarded = {}
    /\ \A j \in Ids \ {i} : t[j].st = "live" => t[j].listen \cap l = {}

-----------------------------------------------------------------------------
(* Calls.  ctx[p].next is the candidate rule set, ctx[p].prev the rule set  *)
(* read under the locks, ctx[p].ids the rows the call will write.           *)

Pcs == {"idle", "locked", "insert", "apply", "elems", "commit", "cleanup",
        "undo", "undoElems", "clear", "resolve"}
Kinds == {"none", "create", "update", "delete", "dns", "reconcile"}
Call == [pc : Pcs, kind : Kinds, ids : SUBSET Ids, next : Tables, prev : Tables]
IdleCall == [pc |-> "idle", kind |-> "none", ids |-> {}, next |-> NoTable, prev |-> NoTable]

\* The steps at which a process holds runMu.
Holding == {"insert", "apply", "elems", "commit", "cleanup", "undo", "undoElems"}

Job == [id : Ids, host : Hosts, rev : Nat, addr : Addr]
NoDns == [clear |-> {}, jobs |-> {}, done |-> {}]

TypeOK ==
    /\ db \in Tables
    /\ plane \in [Ids -> Chain]
    /\ mu \in Clients \cup {Dns, None}
    /\ runMu \in Procs \cup {None}
    /\ ctx \in [Procs -> Call]
    /\ dns \in [clear : SUBSET Ids, jobs : SUBSET Job, done : SUBSET Job]
    /\ zone \in [Hosts -> Nat] /\ clock \in Nat
    /\ faults \in Nat /\ suspect \subseteq {"plane", "row"}

\* An upgraded installation may hold one IP-literal rule that still carries
\* resolve columns; anything else starts empty.  The service starts with no
\* sync behind it.
LegacyRow(l, t, h) == [Blank EXCEPT !.st = "live", !.on = TRUE, !.listen = l,
                                    !.target = t, !.addr = [host |-> h, gen |-> 1]]
Init ==
    /\ \/ LegacyIds = {} /\ db = NoTable
       \/ \E l \in Listens, t \in Literals, h \in Hosts :
            db = [i \in Ids |-> IF i \in LegacyIds THEN LegacyRow(l, t, h) ELSE Blank]
    /\ plane = Desired(db)
    /\ mu = None /\ runMu = None
    /\ ctx = [p \in Procs |-> IdleCall]
    /\ dns = NoDns
    /\ zone = [h \in Hosts |-> 1] /\ clock = 1
    /\ faults = 0 /\ suspect = {}

-----------------------------------------------------------------------------
(* Helpers of the actions.                                                 *)

\* One injected failure, of the budget the model has.
Fault == faults < MaxFaults /\ faults' = faults + 1
NoFault == UNCHANGED faults

Goto(p, pc) == ctx' = [ctx EXCEPT ![p].pc = pc]
Begin(p, pc, kind, ids, next) ==
    ctx' = [ctx EXCEPT ![p] = [pc |-> pc, kind |-> kind, ids |-> ids,
                               next |-> next, prev |-> db]]

\* The deferred unlocks: whatever the process holds is released on return.
Return(p) ==
    /\ ctx' = [ctx EXCEPT ![p] = IdleCall]
    /\ runMu' = IF runMu = p THEN None ELSE runMu
    /\ mu' = IF mu = p THEN None ELSE mu
    /\ dns' = IF p = Dns THEN NoDns ELSE dns

KeepLocks == UNCHANGED <<mu, runMu, dns>>
KeepStores == UNCHANGED <<db, plane, suspect>>
KeepEnv == UNCHANGED env

-----------------------------------------------------------------------------
(* The API calls, up to the point where each starts to apply.  The address  *)
(* a call stores was resolved before mu was taken, so it may be any the     *)
(* domain has had.                                                          *)

AcquireMu(c) ==
    /\ ctx[c].pc = "idle" /\ mu = None
    /\ mu' = c /\ Goto(c, "locked")
    /\ UNCHANGED <<runMu, dns>> /\ KeepStores /\ KeepEnv /\ NoFault

\* hold() and ListActive, then the checks; a call that fails them returns.
Load(c, kind, ids, next) ==
    /\ ctx[c].pc = "locked" /\ runMu = None
    /\ runMu' = c
    /\ Begin(c, IF kind = "create" THEN "insert" ELSE "apply", kind, ids, next)
    /\ UNCHANGED <<mu, dns>> /\ KeepStores /\ KeepEnv /\ NoFault

Resolved(t, g) == IF t \in Hosts THEN [host |-> t, gen |-> g] ELSE NoAddr
Answer(t) == IF t \in Hosts THEN 1 .. zone[t] ELSE {0}

NewRow(l, b, t, g) == [st |-> "live", listen |-> l, on |-> b, lim |-> FALSE,
                       target |-> t, addr |-> Resolved(t, g), rev |-> clock]
LoadCreate(c) ==
    \E i \in Ids, l \in Listens, b \in BOOLEAN, t \in Hosts \cup Literals :
        \E g \in Answer(t) :
            /\ db[i].st = "free" /\ NoConflict(db, i, l)
            /\ Load(c, "create", {i}, [db EXCEPT ![i] = NewRow(l, b, t, g)])

\* load: an ID that is not among the undeleted rows is ErrNotFound.
Found(i) == db[i].st = "live"

\* A new target is resolved anew, or has its resolve columns emptied.
NewAddrAlways(r, t, g) == Resolved(t, g)
NewAddr(r, t, g) == IF t = r.target THEN r.addr ELSE Resolved(t, g)
EditedRow(r, l, b, t, g) ==
    [r EXCEPT !.listen = l, !.on = b, !.target = t, !.addr = NewAddr(r, t, g)]
LoadUpdate(c) ==
    \E i \in Ids, l \in Listens, b \in BOOLEAN, t \in Hosts \cup Literals :
        \E g \in Answer(t) :
            /\ Found(i) /\ NoConflict(db, i, l)
            /\ Load(c, "update", {i}, [db EXCEPT ![i] = EditedRow(db[i], l, b, t, g)])

LoadPolicy(c) ==
    \E i \in Ids, b \in BOOLEAN :
        /\ Found(i)
        /\ Load(c, "update", {i}, [db EXCEPT ![i] = [db[i] EXCEPT !.lim = b]])

LoadDelete(c) ==
    \E i \in Ids :
        /\ Found(i)
        /\ Load(c, "delete", {i}, [db EXCEPT ![i] = Gone])

\* Not found, port taken, invalid policy, or the list cannot be read.
Reject(c) ==
    /\ ctx[c].pc = "locked" /\ runMu = None
    /\ Return(c) /\ KeepStores /\ KeepEnv /\ NoFault

\* Create writes its row first: the kernel objects are named after the ID.
InsertRow(c) ==
    /\ ctx[c].pc = "insert"
    /\ UNCHANGED <<plane, suspect>> /\ KeepEnv
    /\ \/ \E i \in ctx[c].ids :
             /\ db' = [db EXCEPT ![i] = [ctx[c].next[i] EXCEPT !.rev = clock]]
             /\ Goto(c, "apply") /\ KeepLocks /\ NoFault
       \/ Return(c) /\ Fault /\ UNCHANGED db

-----------------------------------------------------------------------------
(* sync, run by any process that holds runMu: the structure in one nft      *)
(* transaction, then the set elements in a second one.                      *)

\* A call applies the candidate set, a rollback the set read at its start.
ApplyingNext(p) == ctx[p].next
Applying(p) == IF ctx[p].pc \in {"apply", "elems"} THEN ctx[p].next ELSE ctx[p].prev
FailedNoUndo(p) == IF ctx[p].kind = "create" /\ ctx[p].pc \in {"apply", "elems"}
                   THEN "cleanup" ELSE "return"
Failed(p) == IF ctx[p].pc \in {"undo", "undoElems"} \/ ctx[p].kind = "reconcile"
             THEN "return"
             ELSE IF ctx[p].kind = "create" THEN "cleanup" ELSE "undo"
Fail(p) == IF Failed(p) = "return" THEN Return(p) ELSE Goto(p, Failed(p)) /\ KeepLocks

\* Signature or drift differ: rebuild.  Neither does: the kernel already
\* holds what was asked for.
RebuiltOnEdit(p) == IF ctx[p].kind = "reconcile" THEN plane ELSE Desired(Applying(p))
Rebuilt(p) == Desired(Applying(p))
SyncStruct(p) ==
    /\ ctx[p].pc \in {"apply", "undo"}
    /\ plane' = Rebuilt(p)
    /\ suspect' = IF ctx[p].pc = "apply" THEN {} ELSE suspect \ {"plane"}
    /\ Goto(p, IF ctx[p].pc = "apply" THEN "elems" ELSE "undoElems")
    /\ KeepLocks /\ KeepEnv /\ NoFault /\ UNCHANGED db

\* The state cannot be read, nft -c or nft -f fails, or nft is killed by its
\* timeout after the kernel has committed the batch.
SyncStructFails(p) ==
    /\ ctx[p].pc \in {"apply", "undo"}
    /\ Fault /\ plane' \in {plane, Rebuilt(p)}
    /\ suspect' = suspect \cup {"plane"}
    /\ Fail(p) /\ KeepEnv /\ UNCHANGED db

SyncElems(p) ==
    /\ ctx[p].pc \in {"elems", "undoElems"}
    /\ IF ctx[p].pc = "undoElems" \/ ctx[p].kind \in {"create", "reconcile"}
       THEN Return(p)
       ELSE Goto(p, "commit") /\ KeepLocks
    /\ KeepStores /\ KeepEnv /\ NoFault

SyncElemsFails(p) ==
    /\ ctx[p].pc \in {"elems", "undoElems"}
    /\ Fault /\ Fail(p) /\ KeepStores /\ KeepEnv

\* The UPDATE of UpdateTx and SoftDeleteTx, or the COMMIT of a DNS batch,
\* which writes the resolve columns only and leaves updated_at alone.
Written(p, i) == CASE ctx[p].kind = "update" -> [ctx[p].next[i] EXCEPT !.rev = clock]
                   [] ctx[p].kind = "delete" -> Gone
                   [] OTHER -> [db[i] EXCEPT !.addr = ctx[p].next[i].addr]
ChangedNever(ids, next, prev) == \E i \in ids : next[i].addr # next[i].addr
Changed(ids, next, prev) == \E i \in ids : next[i].addr # prev[i].addr

\* A failed write rolls the kernel back, unless the batch changed no address
\* and never applied.
CommitRow(p) ==
    /\ ctx[p].pc = "commit"
    /\ UNCHANGED <<plane, suspect>> /\ KeepEnv
    /\ \/ /\ db' = [i \in Ids |-> IF i \in ctx[p].ids THEN Written(p, i) ELSE db[i]]
          /\ Return(p) /\ NoFault
       \/ /\ Fault /\ UNCHANGED db
          /\ IF p = Dns /\ ~Changed(ctx[p].ids, ctx[p].next, ctx[p].prev)
             THEN Return(p)
             ELSE Goto(p, "undo") /\ KeepLocks

\* A Create that could not apply removes its row, or only logs that it could not.
HardDelete(c) ==
    /\ ctx[c].pc = "cleanup"
    /\ Goto(c, "undo") /\ KeepLocks /\ KeepEnv /\ UNCHANGED plane
    /\ \/ /\ db' = [i \in Ids |-> IF i \in ctx[c].ids THEN Gone ELSE db[i]]
          /\ NoFault /\ UNCHANGED suspect
       \/ Fault /\ suspect' = suspect \cup {"row"} /\ UNCHANGED db

-----------------------------------------------------------------------------
(* RefreshDNS: snapshot under mu, clear and resolve without it, then load,  *)
(* compare and apply under both locks.                                      *)

DnsSnapshot ==
    /\ ctx[Dns].pc = "idle" /\ mu = None
    /\ LET live  == {i \in Ids : db[i].st = "live"}
           clear == {i \in live : db[i].target \notin Hosts /\ db[i].addr # NoAddr}
           jobs  == {[id |-> i, host |-> db[i].target, rev |-> db[i].rev, addr |-> db[i].addr] :
                       i \in {j \in live : db[j].target \in Hosts}}
       IN /\ clear # {} \/ jobs # {}
          /\ dns' = [clear |-> clear, jobs |-> jobs, done |-> {}]
          /\ Goto(Dns, IF clear # {} THEN "clear" ELSE "resolve")
    /\ UNCHANGED <<db, plane, suspect, mu, runMu>> /\ KeepEnv /\ NoFault

\* UpdateResolved empties one row's resolve columns; an error is only logged.
DnsClear ==
    /\ ctx[Dns].pc = "clear"
    /\ \E i \in dns.clear :
         /\ \/ /\ db' = IF db[i].st = "live" THEN [db EXCEPT ![i].addr = NoAddr] ELSE db
               /\ NoFault
            \/ Fault /\ UNCHANGED db
         /\ IF dns.clear # {i}
            THEN dns' = [dns EXCEPT !.clear = @ \ {i}] /\ UNCHANGED ctx
            ELSE IF dns.jobs = {}
            THEN dns' = NoDns /\ ctx' = [ctx EXCEPT ![Dns] = IdleCall]
            ELSE dns' = [dns EXCEPT !.clear = {}] /\ Goto(Dns, "resolve")
    /\ UNCHANGED <<plane, suspect, mu, runMu>> /\ KeepEnv

\* One goroutine per job: a failed lookup keeps the last-known-good address.
DnsResolve ==
    /\ ctx[Dns].pc = "resolve"
    /\ \E j \in dns.jobs :
         \E a \in {j.addr, [host |-> j.host, gen |-> zone[j.host]]} :
             dns' = [dns EXCEPT !.jobs = @ \ {j}, !.done = @ \cup {[j EXCEPT !.addr = a]}]
    /\ UNCHANGED <<ctx, mu, runMu>> /\ KeepStores /\ KeepEnv /\ NoFault

DnsLock ==
    /\ ctx[Dns].pc = "resolve" /\ dns.jobs = {} /\ mu = None
    /\ mu' = Dns /\ Goto(Dns, "locked")
    /\ UNCHANGED <<runMu, dns>> /\ KeepStores /\ KeepEnv /\ NoFault

\* An answer whose rule has gone, or has another target or updated_at, is dropped.
UsableIfLive(j) == db[j.id].st = "live"
Usable(j) == db[j.id].st = "live" /\ db[j.id].target = j.host /\ db[j.id].rev = j.rev

DnsLoad ==
    /\ ctx[Dns].pc = "locked" /\ runMu = None
    /\ LET keep == {j \in dns.done : Usable(j)}
           ids  == {j.id : j \in keep}
           next == [i \in Ids |-> IF i \in ids
                                  THEN [db[i] EXCEPT !.addr = (CHOOSE j \in keep : j.id = i).addr]
                                  ELSE db[i]]
       IN IF ids = {}
          THEN Return(Dns)
          ELSE /\ runMu' = Dns /\ UNCHANGED <<mu, dns>>
               /\ Begin(Dns, IF Changed(ids, next, db) THEN "apply" ELSE "commit", "dns", ids, next)
    /\ KeepStores /\ KeepEnv /\ NoFault

\* ListActive, BEGIN or one UPDATE of the batch fails: nothing has been applied.
DnsLoadFails ==
    /\ ctx[Dns].pc = "locked" /\ runMu = None
    /\ Return(Dns) /\ Fault /\ KeepStores /\ KeepEnv

(* Reconcile: the same sync over the rows of the moment, without mu.        *)
ReconcileStart ==
    /\ ctx[Reconciler].pc = "idle" /\ runMu = None
    /\ runMu' = Reconciler /\ UNCHANGED <<mu, dns>>
    /\ Begin(Reconciler, "apply", "reconcile", {}, db)
    /\ KeepStores /\ KeepEnv /\ NoFault

-----------------------------------------------------------------------------
(* The environment.                                                        *)

\* The process dies anywhere; a reboot also empties the kernel.
Crash ==
    /\ Fault
    /\ ctx' = [p \in Procs |-> IdleCall] /\ mu' = None /\ runMu' = None /\ dns' = NoDns
    /\ plane' \in {plane, [i \in Ids |-> Down]}
    /\ suspect' = suspect \cup {"plane"}
    /\ UNCHANGED db /\ KeepEnv

\* Someone else's nft command removes a rule's chain or repoints it.
Tamper ==
    /\ Fault
    /\ \E i \in Ids, t \in Literals :
         /\ plane[i].up
         /\ plane' = [plane EXCEPT ![i] = IF t = @.dial.host THEN Down
                                         ELSE [@ EXCEPT !.dial = [host |-> t, gen |-> 0]]]
    /\ suspect' = suspect \cup {"plane"}
    /\ UNCHANGED <<db, ctx, mu, runMu, dns>> /\ KeepEnv

Tick ==
    /\ clock < MaxClock /\ clock' = clock + 1
    /\ UNCHANGED <<zone, ctx, mu, runMu, dns>> /\ KeepStores /\ NoFault

ZoneChange ==
    /\ \E h \in Hosts : zone[h] < MaxZone /\ zone' = [zone EXCEPT ![h] = @ + 1]
    /\ UNCHANGED <<clock, ctx, mu, runMu, dns>> /\ KeepStores /\ NoFault

-----------------------------------------------------------------------------
LoadCall(c) == LoadCreate(c) \/ LoadUpdate(c) \/ LoadPolicy(c) \/ LoadDelete(c)
Sync(p) == SyncStruct(p) \/ SyncStructFails(p) \/ SyncElems(p) \/ SyncElemsFails(p)

ClientStep(c) == LoadCall(c) \/ Reject(c) \/ InsertRow(c) \/ HardDelete(c)
DnsStep == DnsClear \/ DnsResolve \/ DnsLock \/ DnsLoad \/ DnsLoadFails
Environment == Crash \/ Tamper \/ Tick \/ ZoneChange

Next ==
    \/ \E c \in Clients : AcquireMu(c) \/ ClientStep(c)
    \/ \E p \in Procs : Sync(p)
    \/ \E p \in Clients \cup {Dns} : CommitRow(p)
    \/ DnsSnapshot \/ DnsStep \/ ReconcileStart \/ Environment

Spec == Init /\ [][Next]_vars

\* sync.Mutex hands the lock over in FIFO order to a goroutine that has waited
\* 1 ms, so a waiter cannot be passed over forever (SF); a goroutine that holds
\* what it needs keeps running (WF).  Requests, DNS rounds and the environment
\* owe nothing.
Fairness ==
    /\ \A c \in Clients : SF_vars(LoadCall(c) \/ Reject(c)) /\ WF_vars(InsertRow(c) \/ HardDelete(c))
    /\ \A p \in Procs : WF_vars(Sync(p))
    /\ \A p \in Clients \cup {Dns} : WF_vars(CommitRow(p))
    /\ WF_vars(DnsClear \/ DnsResolve) /\ SF_vars(DnsLock) /\ SF_vars(DnsLoad)
    /\ SF_vars(ReconcileStart)
FairSpec == Spec /\ Fairness

-----------------------------------------------------------------------------
(* Properties.                                                             *)

\* Between calls the kernel forwards exactly the enabled rows of the table,
\* unless a failure the code can only log is still waiting for a good sync
\* (service.go "API success is strictly DB = nft").
EnforcedMatchesDB == runMu = None /\ suspect = {} => plane = Desired(db)

\* No two live rows, enabled or not, share a socket or take a reserved one,
\* and neither do two rules the kernel holds, in the middle of a call either.
Disjoint(ports) ==
    \A i \in Ids : /\ ports[i] \cap Guarded = {}
                   /\ \A j \in Ids \ {i} : ports[i] \cap ports[j] = {}
Ports(t) == [i \in Ids |-> IF t[i].st = "live" THEN t[i].listen ELSE {}]
PlanePorts == [i \in Ids |-> IF plane[i].up THEN plane[i].listen ELSE {}]
PortsDisjoint == Disjoint(Ports(db)) /\ Disjoint(PlanePorts)

\* A live rule on a domain always has an address, and one that answered this
\* very domain: never what an earlier target of the rule resolved to.
AddrMatchesHost ==
    \A i \in Ids : db[i].st = "live" /\ db[i].target \in Hosts => db[i].addr.host = db[i].target

\* A row once deleted stays deleted, and the kernel never starts forwarding for
\* it again, whoever syncs and from whatever rule set.
StaysDown ==
    \A i \in Ids : db[i].st = "gone" =>
      db'[i].st = "gone" /\ (plane'[i].up => plane[i].up)
DeletedStaysDown == [][StaysDown]_vars

\* An API call that gives up leaves both stores as it found them: the live rows
\* and, unless the rollback failed as well, the kernel's rules.
Live(t) == [i \in {j \in Ids : t[j].st = "live"} |-> t[i]]
GivesUp(c) == ctx[c].pc \in {"insert", "undoElems"} /\ ctx'[c].pc = "idle"
Undone ==
    \A c \in Clients : GivesUp(c) /\ suspect' = {} =>
      Live(db') = Live(ctx[c].prev) /\ plane' = Desired(ctx[c].prev)
FailedCallUndone == [][Undone]_vars

\* rulesvc's package comment: when any step fails, table and kernel both go
\* back to the state before the change.
FailedCallLeavesNoRow ==
    [][\A c \in Clients : GivesUp(c) => Live(db') = Live(ctx[c].prev)]_vars

\* Calls are atomic, as rulesvc's package comment says of them (service.go:1-7): of
\* the table without the row of a Create in progress, and of the kernel between
\* calls, every step is one that RuleTable allows.  A Create shows when it has ended,
\* or its row has been left behind.
Pending == {i \in Ids : \E c \in Clients : /\ ctx[c].kind = "create" /\ i \in ctx[c].ids
                                         /\ ctx[c].pc \in {"apply", "elems", "cleanup"}}
Shown == [i \in Ids |-> IF i \in Pending \/ db[i].st = "free" THEN Blank
                        ELSE [db[i] EXCEPT !.rev = 0]]
Ruled == IF runMu = None THEN plane ELSE Desired(Shown)
Promise == INSTANCE RuleTable WITH table <- Shown, kernel <- Ruled, trusted <- (suspect = {}),
                                   Demand <- Desired
CallsAtomic == Promise!Spec

\* Whatever separates table and kernel (a crash, a failed rollback, an outside
\* change, a DNS clear) is put right.
Heals == plane # Desired(db) ~> plane = Desired(db)
=============================================================================
