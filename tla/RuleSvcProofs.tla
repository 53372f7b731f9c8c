---------------------------- MODULE RuleSvcProofs ----------------------------
(***************************************************************************)
(* Theorems about RuleSvc, for any number of rules, clients and faults.     *)
(*                                                                         *)
(* The properties of RuleSvc say little of the middle of a call, so IInv    *)
(* adds what holds there: who has which lock, that every rule set a call    *)
(* works with is a good one, how those sets differ from the table, and      *)
(* which of them the kernel holds at each step.  KInv is the part of it that  *)
(* also holds of an installation which inherited rows.                        *)
(***************************************************************************)
EXTENDS RuleSvc, TLAPS

Held(p) == ctx[p].pc \in Holding
Writers == Clients \cup {Dns}

\* A process is in a locked step exactly when it holds the lock, and its kind
\* of call fits the step.
Fits(p) ==
    /\ p \in Clients => ctx[p].kind \in {"create", "update", "delete"}
    /\ p = Dns => ctx[p].kind = "dns"
    /\ p = Reconciler => ctx[p].kind = "reconcile" /\ ctx[p].pc \in {"apply", "elems"}
    /\ ctx[p].pc \in {"insert", "cleanup"} => ctx[p].kind = "create"
    /\ ctx[p].pc = "commit" => ctx[p].kind # "create"
Locks ==
    /\ \A p \in Procs : Held(p) <=> runMu = p
    /\ \A p \in Writers : Held(p) \/ ctx[p].pc = "locked" => mu = p
    /\ \A p \in Procs : Held(p) => Fits(p)
    /\ \A c \in Clients : ctx[c].pc \notin {"clear", "resolve"}

\* A good rule set: resolve columns on domain rules only, each filled in for the
\* rule's own domain, and no socket used twice.
Matched(r) == IF r.target \in Hosts THEN r.addr.host = r.target ELSE r.addr = NoAddr
Good(t) ==
    /\ \A i \in Ids : t[i].st = "live" => Matched(t[i])
    /\ Disjoint(Ports(t))
Sound ==
    /\ Good(db) /\ Disjoint(PlanePorts)
    /\ dns.clear = {} /\ ctx[Dns].pc # "clear"
    /\ \A j \in dns.jobs \cup dns.done : j.addr.host = j.host
    /\ \A p \in Procs : Held(p) => Good(ctx[p].next) /\ Good(ctx[p].prev)

\* What a call asks for: how its candidate set differs from the rule set read
\* at its start.
Asked(kind, ids, next, prev) ==
    /\ \A i \in Ids \ ids : next[i] = prev[i]
    /\ kind \in {"create", "update", "delete"} => \E i \in ids : ids = {i}
    /\ kind = "create" => \A i \in ids : prev[i].st = "free" /\ next[i].st = "live"
    /\ kind \in {"update", "dns"} => \A i \in ids : prev[i].st = "live" /\ next[i].st = "live"
    /\ kind = "delete" => \A i \in ids : prev[i].st = "live" /\ next[i] = Gone
    /\ kind = "update" => \A i \in ids : next[i].target = prev[i].target => next[i].addr = prev[i].addr
    /\ kind = "dns" => \A i \in ids : /\ prev[i].target \in Hosts
                                     /\ next[i] = [prev[i] EXCEPT !.addr = next[i].addr]
    /\ kind = "reconcile" => ids = {}

\* The table is still the one the call read, but for the row a Create inserted.
Created(p, i) ==
    /\ ctx[p].pc = "insert" => db[i] = ctx[p].prev[i]
    /\ ctx[p].pc \in {"apply", "elems", "cleanup"} =>
         db[i] = [ctx[p].next[i] EXCEPT !.rev = db[i].rev]
    /\ ctx[p].pc \in {"undo", "undoElems"} => "row" \in suspect \/ db[i] = Gone
Tied(p) ==
    /\ Asked(ctx[p].kind, ctx[p].ids, ctx[p].next, ctx[p].prev)
    /\ \A i \in Ids \ ctx[p].ids : db[i] = ctx[p].prev[i]
    /\ \A i \in ctx[p].ids : IF ctx[p].kind = "create" THEN Created(p, i)
                             ELSE db[i] = ctx[p].prev[i]
Ties == \A p \in Procs : Held(p) => Tied(p)

\* Which rule set the kernel holds, as long as nothing is suspect.
PlaneAt(p) ==
    /\ ctx[p].pc \in {"insert", "apply", "undoElems"} => plane = Desired(ctx[p].prev)
    /\ ctx[p].pc \in {"elems", "commit"} => plane = Desired(ctx[p].next)
Planes ==
    suspect = {} => /\ runMu = None => plane = Desired(db)
                    /\ \A p \in Procs : PlaneAt(p)

IInv == TypeOK /\ Locks /\ Sound /\ Ties /\ Planes

-----------------------------------------------------------------------------
(* Type correctness.                                                       *)

\* Every rule set asks for a well-formed chain per rule.
LEMMA DesiredType == ASSUME NEW t \in Tables PROVE Desired(t) \in [Ids -> Chain]
<1> SUFFICES ASSUME NEW i \in Ids PROVE ChainOf(t[i]) \in Chain
  BY DEF Desired
<1>1. t[i] \in Row
  BY DEF Tables
<1>2. Dial(t[i]) \in Addr
  BY <1>1, TableAssumption DEF Dial, Row, Addr
<1> QED
  BY <1>1, <1>2 DEF ChainOf, Chain, Row, Down, NoAddr, Addr

LEMMA BlankType == Blank \in Row /\ Gone \in Row /\ NoAddr \in Addr
  BY DEF Blank, Gone, NoAddr, Row, Addr

LEMMA IdleType == IdleCall \in Call /\ NoTable \in Tables
  BY BlankType DEF IdleCall, Call, NoTable, Tables, Pcs, Kinds

\* Returning gives the locks and the call record back and touches no store.
LEMMA ReturnType ==
    ASSUME TypeOK, NEW p \in Procs, Return(p)
    PROVE  /\ ctx' \in [Procs -> Call] /\ mu' \in Clients \cup {Dns, None}
           /\ runMu' \in Procs \cup {None}
           /\ dns' \in [clear : SUBSET Ids, jobs : SUBSET Job, done : SUBSET Job]
  BY IdleType DEF TypeOK, Return, NoDns

\* Moving to another step keeps the call record well formed.
LEMMA GotoType ==
    ASSUME TypeOK, NEW p \in Procs, NEW pc \in Pcs, Goto(p, pc)
    PROVE  ctx' \in [Procs -> Call]
  BY DEF TypeOK, Goto, Call

LEMMA BeginType ==
    ASSUME TypeOK, NEW p \in Procs, NEW pc \in Pcs, NEW kind \in Kinds,
           NEW ids \in SUBSET Ids, NEW next \in Tables, Begin(p, pc, kind, ids, next)
    PROVE  ctx' \in [Procs -> Call]
  BY DEF TypeOK, Begin, Call

LEMMA InitType == Init => TypeOK
<1> SUFFICES ASSUME Init PROVE TypeOK
  OBVIOUS
<1>1. db \in Tables
  <2>1. CASE db = NoTable
    BY <2>1, IdleType
  <2>2. ASSUME NEW l \in Listens, NEW t \in Literals, NEW h \in Hosts,
               db = [i \in Ids |-> IF i \in LegacyIds THEN LegacyRow(l, t, h) ELSE Blank]
        PROVE  db \in Tables
    <3>1. LegacyRow(l, t, h) \in Row
      BY DEF LegacyRow, Blank, Row, Addr
    <3> QED
      BY <2>2, <3>1, BlankType DEF Tables
  <2> QED
    BY <2>1, <2>2 DEF Init
<1>2. plane \in [Ids -> Chain]
  BY <1>1, DesiredType DEF Init
<1> QED
  BY <1>1, <1>2, IdleType DEF Init, TypeOK, NoDns

\* Sockets stay apart when rules are removed, and when one row is replaced by one
\* whose sockets are free.
LEMMA ApartSub ==
    ASSUME NEW t, NEW u, Disjoint(Ports(t)),
           \A i \in Ids : u[i].st = "live" => t[i].st = "live" /\ u[i].listen = t[i].listen
    PROVE  Disjoint(Ports(u))
<1>1. \A i \in Ids : Ports(u)[i] \subseteq Ports(t)[i]
  BY DEF Ports
<1> QED
  BY <1>1 DEF Disjoint

LEMMA ApartRow ==
    ASSUME NEW t \in Tables, Disjoint(Ports(t)), NEW i \in Ids, NEW r \in Row,
           r.st = "live" => NoConflict(t, i, r.listen)
    PROVE  Disjoint(Ports([t EXCEPT ![i] = r]))
<1> DEFINE u == [t EXCEPT ![i] = r]
<1>1. u[i] = r /\ \A j \in Ids \ {i} : u[j] = t[j]
  BY DEF Tables
<1> HIDE DEF u
<1>2. \A j \in Ids \ {i} : Ports(u)[j] = Ports(t)[j]
  BY <1>1 DEF Ports
<1>3. Ports(u)[i] \cap Guarded = {} /\ \A j \in Ids \ {i} : Ports(u)[i] \cap Ports(u)[j] = {}
  BY <1>1 DEF Ports, NoConflict
<1>4. Disjoint(Ports(u))
  BY <1>2, <1>3 DEF Disjoint
<1> QED
  BY <1>4 DEF u

\* A rule set stays good when rules are removed from it, and when one row is
\* replaced by a matched one whose sockets are free.
LEMMA GoodSub ==
    ASSUME NEW t, NEW u, Good(t),
           \A i \in Ids : u[i].st = "live" =>
             /\ t[i].st = "live" /\ u[i].listen = t[i].listen
             /\ u[i].target = t[i].target /\ u[i].addr = t[i].addr
    PROVE  Good(u)
<1>1. \A i \in Ids : u[i].st = "live" => Matched(u[i])
  BY DEF Good, Matched
<1>2. Disjoint(Ports(u))
  BY ApartSub DEF Good
<1> QED
  BY <1>1, <1>2 DEF Good

LEMMA GoodRow ==
    ASSUME NEW t \in Tables, Good(t), NEW i \in Ids, NEW r \in Row,
           r.st = "live" => Matched(r) /\ NoConflict(t, i, r.listen)
    PROVE  Good([t EXCEPT ![i] = r])
<1> DEFINE u == [t EXCEPT ![i] = r]
<1>1. u[i] = r /\ \A j \in Ids \ {i} : u[j] = t[j]
  BY DEF Tables
<1> HIDE DEF u
<1>2. \A j \in Ids : u[j].st = "live" => Matched(u[j])
  BY <1>1 DEF Good
<1>3. Disjoint(Ports(u))
  BY ApartRow DEF Good, u
<1> QED
  BY <1>2, <1>3 DEF Good, u

\* The sockets of a live row of a good rule set are free but for the row itself.
LEMMA OwnPorts ==
    ASSUME NEW t, Good(t), NEW i \in Ids, t[i].st = "live"
    PROVE  NoConflict(t, i, t[i].listen)
  BY DEF Good, Disjoint, Ports, NoConflict

\* A client's call loads with a candidate set that differs from the table as
\* its kind allows, and that is good when the table is.
Asks(c, kind, ids, next) ==
    /\ Load(c, kind, ids, next)
    /\ Asked(kind, ids, next, db)
    /\ Good(db) => Good(next)
    /\ Disjoint(Ports(db)) => Disjoint(Ports(next))

LEMMA LoadCallFacts ==
    ASSUME TypeOK, NEW c \in Clients, LoadCall(c)
    PROVE  \E kind \in {"create", "update", "delete"}, ids \in SUBSET Ids, next \in Tables :
             Asks(c, kind, ids, next)
<1> USE DEF TypeOK
<1>0. ASSUME NEW t \in Hosts \cup Literals, NEW g \in Answer(t) PROVE Resolved(t, g) \in Addr
  BY BlankType DEF Resolved, Addr, Answer
<1>1. CASE LoadCreate(c)
  <2>1. PICK i \in Ids, l \in Listens, b \in BOOLEAN, t \in Hosts \cup Literals :
          \E g \in Answer(t) : /\ db[i].st = "free" /\ NoConflict(db, i, l)
                              /\ Load(c, "create", {i}, [db EXCEPT ![i] = NewRow(l, b, t, g)])
    BY <1>1 DEF LoadCreate
  <2>2. PICK g \in Answer(t) : /\ db[i].st = "free" /\ NoConflict(db, i, l)
                              /\ Load(c, "create", {i}, [db EXCEPT ![i] = NewRow(l, b, t, g)])
    BY <2>1
  <2> DEFINE r    == NewRow(l, b, t, g)
             next == [db EXCEPT ![i] = r]
  <2>3. r \in Row /\ r.st = "live" /\ r.listen = l
    BY <1>0 DEF NewRow, Row
  <2>4. Matched(r)
    BY DEF NewRow, Resolved, Matched
  <2> HIDE DEF r
  <2>5. next \in Tables /\ next[i] = r /\ \A j \in Ids \ {i} : next[j] = db[j]
    BY <2>3 DEF Tables
  <2>6. (Good(db) => Good(next)) /\ (Disjoint(Ports(db)) => Disjoint(Ports(next)))
    BY <2>2, <2>3, <2>4, GoodRow, ApartRow
  <2> HIDE DEF next
  <2>7. Asked("create", {i}, next, db)
    BY <2>2, <2>3, <2>5 DEF Asked
  <2>8. Asks(c, "create", {i}, next)
    BY <2>2, <2>6, <2>7 DEF Asks, next, r
  <2> QED
    BY <2>8, <2>5, Zenon
<1>2. CASE LoadUpdate(c)
  <2>1. PICK i \in Ids, l \in Listens, b \in BOOLEAN, t \in Hosts \cup Literals :
          \E g \in Answer(t) :
            /\ Found(i) /\ NoConflict(db, i, l)
            /\ Load(c, "update", {i}, [db EXCEPT ![i] = EditedRow(db[i], l, b, t, g)])
    BY <1>2 DEF LoadUpdate
  <2>2. PICK g \in Answer(t) :
            /\ Found(i) /\ NoConflict(db, i, l)
            /\ Load(c, "update", {i}, [db EXCEPT ![i] = EditedRow(db[i], l, b, t, g)])
    BY <2>1
  <2> DEFINE r    == EditedRow(db[i], l, b, t, g)
             next == [db EXCEPT ![i] = r]
  <2>3. db[i] \in Row /\ db[i].st = "live"
    BY <2>2 DEF Tables, Found
  <2>4. r \in Row /\ r.st = "live" /\ r.listen = l /\ r.target = t /\ r.addr = NewAddr(db[i], t, g)
    <3>1. NewAddr(db[i], t, g) \in Addr
      BY <1>0, <2>3 DEF NewAddr, Row
    <3> QED
      BY <2>3, <3>1 DEF EditedRow, Row
  <2> HIDE DEF r
  <2>5. Good(db) => Matched(r)
    BY <2>3, <2>4 DEF NewAddr, Resolved, Matched, Good
  <2>6. next \in Tables /\ next[i] = r /\ \A j \in Ids \ {i} : next[j] = db[j]
    BY <2>4 DEF Tables
  <2>7. (Good(db) => Good(next)) /\ (Disjoint(Ports(db)) => Disjoint(Ports(next)))
    BY <2>2, <2>4, <2>5, GoodRow, ApartRow
  <2> HIDE DEF next
  <2>8. Asked("update", {i}, next, db)
    BY <2>3, <2>4, <2>6 DEF Asked, NewAddr
  <2>9. Asks(c, "update", {i}, next)
    BY <2>2, <2>7, <2>8 DEF Asks, next, r
  <2> QED
    BY <2>9, <2>6, Zenon
<1>3. CASE LoadPolicy(c)
  <2>1. PICK i \in Ids, b \in BOOLEAN :
          Found(i) /\ Load(c, "update", {i}, [db EXCEPT ![i] = [db[i] EXCEPT !.lim = b]])
    BY <1>3 DEF LoadPolicy
  <2> DEFINE r    == [db[i] EXCEPT !.lim = b]
             next == [db EXCEPT ![i] = r]
  <2>2. db[i] \in Row /\ db[i].st = "live"
    BY <2>1 DEF Tables, Found
  <2>3. /\ r \in Row /\ r.st = "live" /\ r.listen = db[i].listen
        /\ r.target = db[i].target /\ r.addr = db[i].addr
    BY <2>2 DEF Row
  <2> HIDE DEF r
  <2>4. next \in Tables /\ next[i] = r /\ \A j \in Ids \ {i} : next[j] = db[j]
    BY <2>3 DEF Tables
  <2> HIDE DEF next
  <2>5. (Good(db) => Good(next)) /\ (Disjoint(Ports(db)) => Disjoint(Ports(next)))
    BY <2>2, <2>3, <2>4, GoodSub, ApartSub
  <2>6. Asked("update", {i}, next, db)
    BY <2>2, <2>3, <2>4 DEF Asked
  <2>7. Asks(c, "update", {i}, next)
    BY <2>1, <2>5, <2>6 DEF Asks, next, r
  <2> QED
    BY <2>7, <2>4, Zenon
<1>4. CASE LoadDelete(c)
  <2>1. PICK i \in Ids : Found(i) /\ Load(c, "delete", {i}, [db EXCEPT ![i] = Gone])
    BY <1>4 DEF LoadDelete
  <2> DEFINE next == [db EXCEPT ![i] = Gone]
  <2>2. next \in Tables /\ next[i] = Gone /\ \A j \in Ids \ {i} : next[j] = db[j]
    BY BlankType DEF Tables
  <2> HIDE DEF next
  <2>3. (Good(db) => Good(next)) /\ (Disjoint(Ports(db)) => Disjoint(Ports(next)))
    BY <2>2, GoodSub, ApartSub DEF Gone, Blank
  <2>4. Asked("delete", {i}, next, db)
    BY <2>1, <2>2 DEF Asked, Found
  <2>5. Asks(c, "delete", {i}, next)
    BY <2>1, <2>3, <2>4 DEF Asks, next
  <2> QED
    BY <2>5, <2>2, Zenon
<1> QED
  BY <1>1, <1>2, <1>3, <1>4 DEF LoadCall

\* Every step keeps the type invariant.
LEMMA NextType == TypeOK /\ [Next]_vars => TypeOK'
<1> SUFFICES ASSUME TypeOK, [Next]_vars PROVE TypeOK'
  OBVIOUS
<1> USE DEF TypeOK
<1>1. ASSUME NEW c \in Clients, AcquireMu(c) PROVE TypeOK'
  <2>1. ctx' \in [Procs -> Call]
    BY <1>1, GotoType DEF AcquireMu, Procs, Pcs
  <2> QED
    BY <1>1, <2>1 DEF AcquireMu, KeepStores, KeepEnv, NoFault, env
<1>3. ASSUME NEW c \in Clients, LoadCall(c) PROVE TypeOK'
  <2>1. PICK kind \in {"create", "update", "delete"}, ids \in SUBSET Ids, next \in Tables :
          Asks(c, kind, ids, next)
    BY <1>3, LoadCallFacts
  <2>2. Begin(c, IF kind = "create" THEN "insert" ELSE "apply", kind, ids, next)
    BY <2>1 DEF Asks, Load
  <2>3. (IF kind = "create" THEN "insert" ELSE "apply") \in Pcs /\ kind \in Kinds /\ c \in Procs
    BY DEF Pcs, Kinds, Procs
  <2>4. ctx' \in [Procs -> Call]
    BY <2>2, <2>3, BeginType
  <2> QED
    BY <2>1, <2>4 DEF Asks, Load, KeepStores, KeepEnv, NoFault, env, Procs
<1>4. ASSUME NEW c \in Clients, Reject(c) PROVE TypeOK'
  BY <1>4, ReturnType DEF Reject, KeepStores, KeepEnv, NoFault, env, Procs
<1>5. ASSUME NEW c \in Clients, InsertRow(c) PROVE TypeOK'
  <2>0. c \in Procs
    BY DEF Procs
  <2>1. CASE Return(c) /\ Fault /\ UNCHANGED db
    BY <1>5, <2>0, <2>1, ReturnType DEF InsertRow, KeepEnv, env, Fault
  <2>2. CASE ~(Return(c) /\ Fault /\ UNCHANGED db)
    <3>1. PICK i \in ctx[c].ids : db' = [db EXCEPT ![i] = [ctx[c].next[i] EXCEPT !.rev = clock]]
      BY <1>5, <2>2 DEF InsertRow
    <3>2. ctx[c].next \in Tables /\ ctx[c].ids \subseteq Ids
      BY <2>0 DEF Call
    <3>3. [ctx[c].next[i] EXCEPT !.rev = clock] \in Row
      <4>1. ctx[c].next[i] \in Row
        BY <3>1, <3>2 DEF Tables
      <4> QED
        BY <4>1 DEF Row
    <3>4. db' \in Tables
      BY <3>1, <3>2, <3>3 DEF Tables
    <3>5. ctx' \in [Procs -> Call]
      BY <1>5, <2>0, <2>2, GotoType DEF InsertRow, Pcs
    <3> QED
      BY <1>5, <2>2, <3>4, <3>5 DEF InsertRow, KeepEnv, env, KeepLocks, NoFault
  <2> QED
    BY <2>1, <2>2
<1>6. ASSUME NEW p \in Procs, Sync(p) PROVE TypeOK'
  <2>1. Applying(p) \in Tables
    BY DEF Applying, Call
  <2>2. Rebuilt(p) \in [Ids -> Chain]
    BY <2>1, DesiredType DEF Rebuilt
  <2>3. Failed(p) = "return" \/ Failed(p) \in Pcs
    BY DEF Failed, Pcs
  <2>4. ASSUME Fail(p) PROVE /\ ctx' \in [Procs -> Call] /\ mu' \in Clients \cup {Dns, None}
                             /\ runMu' \in Procs \cup {None}
                             /\ dns' \in [clear : SUBSET Ids, jobs : SUBSET Job, done : SUBSET Job]
    BY <2>3, <2>4, ReturnType, GotoType DEF Fail, KeepLocks
  <2>5. CASE SyncStruct(p)
    <3>1. ctx' \in [Procs -> Call]
      BY <2>5, GotoType DEF SyncStruct, Pcs
    <3> QED
      BY <2>2, <2>5, <3>1 DEF SyncStruct, KeepLocks, KeepEnv, env, NoFault
  <2>6. CASE SyncStructFails(p)
    BY <2>2, <2>4, <2>6 DEF SyncStructFails, KeepEnv, env, Fault
  <2>7. CASE SyncElems(p)
    <3>1. CASE Return(p)
      BY <2>7, <3>1, ReturnType DEF SyncElems, KeepStores, KeepEnv, env, NoFault
    <3>2. CASE Goto(p, "commit") /\ KeepLocks
      <4>1. ctx' \in [Procs -> Call]
        BY <3>2, GotoType DEF Pcs
      <4> QED
        BY <2>7, <3>2, <4>1 DEF SyncElems, KeepLocks, KeepStores, KeepEnv, env, NoFault
    <3> QED
      BY <2>7, <3>1, <3>2 DEF SyncElems
  <2>8. CASE SyncElemsFails(p)
    BY <2>4, <2>8 DEF SyncElemsFails, KeepStores, KeepEnv, env, Fault
  <2> QED
    BY <1>6, <2>5, <2>6, <2>7, <2>8 DEF Sync
<1>7. ASSUME NEW p \in Clients \cup {Dns}, CommitRow(p) PROVE TypeOK'
  <2>0. p \in Procs
    BY DEF Procs
  <2>1. ctx[p].next \in Tables /\ ctx[p].ids \subseteq Ids
    BY <2>0 DEF Call
  <2>2. \A i \in Ids : Written(p, i) \in Row
    <3> SUFFICES ASSUME NEW i \in Ids PROVE Written(p, i) \in Row
      OBVIOUS
    <3>1. ctx[p].next[i] \in Row /\ db[i] \in Row
      BY <2>1 DEF Tables
    <3>2. [ctx[p].next[i] EXCEPT !.rev = clock] \in Row
      BY <3>1 DEF Row
    <3>3. [db[i] EXCEPT !.addr = ctx[p].next[i].addr] \in Row
      BY <3>1 DEF Row
    <3> QED
      BY <3>2, <3>3, BlankType DEF Written
  <2>3. db' \in Tables
    <3>1. CASE db' = [i \in Ids |-> IF i \in ctx[p].ids THEN Written(p, i) ELSE db[i]]
      BY <2>1, <2>2, <3>1 DEF Tables
    <3>2. CASE UNCHANGED db
      BY <3>2
    <3> QED
      BY <1>7, <3>1, <3>2 DEF CommitRow
  <2>4. /\ ctx' \in [Procs -> Call] /\ mu' \in Clients \cup {Dns, None}
        /\ runMu' \in Procs \cup {None}
        /\ dns' \in [clear : SUBSET Ids, jobs : SUBSET Job, done : SUBSET Job]
    <3>1. CASE Return(p)
      BY <2>0, <3>1, ReturnType
    <3>2. CASE Goto(p, "undo") /\ KeepLocks
      BY <2>0, <3>2, GotoType DEF Pcs, KeepLocks
    <3> QED
      BY <1>7, <3>1, <3>2 DEF CommitRow
  <2> QED
    BY <1>7, <2>3, <2>4 DEF CommitRow, KeepEnv, env, Fault, NoFault
<1>8. ASSUME NEW c \in Clients, HardDelete(c) PROVE TypeOK'
  <2>1. ctx' \in [Procs -> Call]
    BY <1>8, GotoType DEF HardDelete, Procs, Pcs
  <2>2. db' \in Tables
    BY <1>8, BlankType DEF HardDelete, Tables
  <2>3. suspect' \subseteq {"plane", "row"} /\ faults' \in Nat
    BY <1>8 DEF HardDelete, Fault, NoFault
  <2> QED
    BY <1>8, <2>1, <2>2, <2>3 DEF HardDelete, KeepLocks, KeepEnv, env
<1>9. CASE DnsSnapshot
  <2> DEFINE live == {i \in Ids : db[i].st = "live"}
             clr  == {i \in live : db[i].target \notin Hosts /\ db[i].addr # NoAddr}
             jobs == {[id |-> i, host |-> db[i].target, rev |-> db[i].rev, addr |-> db[i].addr] :
                        i \in {j \in live : db[j].target \in Hosts}}
  <2>1. clr \subseteq Ids /\ jobs \subseteq Job
    BY DEF Tables, Row, Job
  <2>2. dns' = [clear |-> clr, jobs |-> jobs, done |-> {}]
    BY <1>9 DEF DnsSnapshot
  <2>3. ctx' \in [Procs -> Call]
    BY <1>9, GotoType DEF DnsSnapshot, Procs, Pcs
  <2> HIDE DEF clr, jobs
  <2> QED
    BY <1>9, <2>1, <2>2, <2>3 DEF DnsSnapshot, KeepEnv, env, NoFault
<1>10. CASE DnsClear
  <2>1. PICK i \in dns.clear :
          /\ db' = db \/ db' = [db EXCEPT ![i].addr = NoAddr]
          /\ \/ dns' = [dns EXCEPT !.clear = @ \ {i}] /\ UNCHANGED ctx
             \/ dns' = NoDns /\ ctx' = [ctx EXCEPT ![Dns] = IdleCall]
             \/ dns' = [dns EXCEPT !.clear = {}] /\ Goto(Dns, "resolve")
    BY <1>10 DEF DnsClear
  <2>2. db' \in Tables
    <3>1. i \in Ids /\ [db[i] EXCEPT !.addr = NoAddr] \in Row
      <4>1. db[i] \in Row
        BY DEF Tables
      <4> QED
        BY <4>1, BlankType DEF Row
    <3> QED
      BY <2>1, <3>1 DEF Tables
  <2>3. dns' \in [clear : SUBSET Ids, jobs : SUBSET Job, done : SUBSET Job]
    BY <2>1 DEF NoDns
  <2>4. ctx' \in [Procs -> Call]
    BY <2>1, GotoType, IdleType DEF Procs, Pcs
  <2> QED
    BY <1>10, <2>2, <2>3, <2>4 DEF DnsClear, KeepEnv, env, Fault, NoFault
<1>11. CASE DnsResolve
  <2>0. PICK j \in dns.jobs : \E a \in {j.addr, [host |-> j.host, gen |-> zone[j.host]]} :
          dns' = [dns EXCEPT !.jobs = @ \ {j}, !.done = @ \cup {[j EXCEPT !.addr = a]}]
    BY <1>11 DEF DnsResolve
  <2>1. PICK a \in {j.addr, [host |-> j.host, gen |-> zone[j.host]]} :
          dns' = [dns EXCEPT !.jobs = @ \ {j}, !.done = @ \cup {[j EXCEPT !.addr = a]}]
    BY <2>0
  <2>2. [j EXCEPT !.addr = a] \in Job
    BY <2>1 DEF Job, Addr
  <2> QED
    BY <1>11, <2>1, <2>2 DEF DnsResolve, KeepStores, KeepEnv, env, NoFault
<1>12. CASE DnsLock
  <2>1. ctx' \in [Procs -> Call]
    BY <1>12, GotoType DEF DnsLock, Procs, Pcs
  <2> QED
    BY <1>12, <2>1 DEF DnsLock, KeepStores, KeepEnv, env, NoFault
<1>13. CASE DnsLoad
  <2> DEFINE keep == {j \in dns.done : Usable(j)}
             ids  == {j.id : j \in keep}
             next == [i \in Ids |-> IF i \in ids
                        THEN [db[i] EXCEPT !.addr = (CHOOSE j \in keep : j.id = i).addr]
                        ELSE db[i]]
  <2>1. ids \subseteq Ids
    BY DEF Job
  <2>2. next \in Tables
    <3>1. ASSUME NEW i \in ids PROVE (CHOOSE j \in keep : j.id = i).addr \in Addr
      BY <3>1 DEF Job
    <3> DEFINE addr(i) == (CHOOSE j \in keep : j.id = i).addr
    <3>2. ASSUME NEW i \in Ids PROVE next[i] \in Row
      <4>1. db[i] \in Row /\ (i \in ids => addr(i) \in Addr)
        BY <3>1 DEF Tables
      <4> HIDE DEF ids, keep, addr
      <4>2. [db[i] EXCEPT !.addr = addr(i)] \in Row \/ i \notin ids
        BY <4>1 DEF Row
      <4> QED
        BY <4>1, <4>2 DEF addr
    <3> HIDE DEF ids, keep
    <3> QED
      BY <3>2 DEF Tables
  <2>3. CASE Return(Dns)
    BY <1>13, <2>3, ReturnType DEF DnsLoad, KeepStores, KeepEnv, env, NoFault, Procs
  <2>4. CASE /\ runMu' = Dns /\ UNCHANGED <<mu, dns>>
             /\ Begin(Dns, IF Changed(ids, next, db) THEN "apply" ELSE "commit", "dns", ids, next)
    <3> HIDE DEF ids, next
    <3>1. ctx' \in [Procs -> Call]
      BY <2>1, <2>2, <2>4, BeginType DEF Procs, Pcs, Kinds
    <3> QED
      BY <1>13, <2>4, <3>1 DEF DnsLoad, KeepStores, KeepEnv, env, NoFault, Procs
  <2> QED
    BY <1>13, <2>3, <2>4 DEF DnsLoad
<1>14. CASE DnsLoadFails
  BY <1>14, ReturnType DEF DnsLoadFails, KeepStores, KeepEnv, env, Fault, Procs
<1>15. CASE ReconcileStart
  <2>1. ctx' \in [Procs -> Call]
    BY <1>15, BeginType DEF ReconcileStart, Procs, Pcs, Kinds
  <2> QED
    BY <1>15, <2>1 DEF ReconcileStart, KeepStores, KeepEnv, env, NoFault, Procs
<1>16. CASE Crash
  <2>1. [i \in Ids |-> Down] \in [Ids -> Chain]
    BY BlankType DEF Down, Chain
  <2> QED
    BY <1>16, <2>1, IdleType DEF Crash, Fault, NoDns, KeepEnv, env
<1>17. CASE Tamper
  <2>1. PICK i \in Ids, t \in Literals :
          plane' = [plane EXCEPT ![i] = IF t = @.dial.host THEN Down
                                        ELSE [@ EXCEPT !.dial = [host |-> t, gen |-> 0]]]
    BY <1>17 DEF Tamper
  <2>2. Down \in Chain /\ [host |-> t, gen |-> 0] \in Addr
    BY BlankType DEF Down, Chain, Addr
  <2>3. plane' \in [Ids -> Chain]
    BY <2>1, <2>2 DEF Chain
  <2> QED
    BY <1>17, <2>3 DEF Tamper, Fault, KeepEnv, env
<1>18. CASE Tick \/ ZoneChange
  <2>1. clock' \in Nat
    BY <1>18 DEF Tick, ZoneChange
  <2>2. zone' \in [Hosts -> Nat]
    BY <1>18 DEF Tick, ZoneChange
  <2> QED
    BY <1>18, <2>1, <2>2 DEF Tick, ZoneChange, KeepStores, NoFault
<1>19. CASE UNCHANGED vars
  BY <1>19 DEF vars
<1> QED
  BY <1>1, <1>3, <1>4, <1>5, <1>6, <1>7, <1>8, <1>9, <1>10, <1>11, <1>12, <1>13, <1>14, <1>15,
     <1>16, <1>17, <1>18, <1>19
  DEF Next, ClientStep, DnsStep, Environment

\* Every variable has its type in every state: tables of rows, a chain per
\* rule, locks held by processes that take them.
THEOREM TypeCorrect == Spec => []TypeOK
  BY InitType, NextType, PTL DEF Spec

-----------------------------------------------------------------------------
(* The inductive invariant.  Most steps of a call do one of four things to   *)
(* its control state: return, move on under the lock, take the lock, or      *)
(* move without it.  A lemma for each says what is left to show of the       *)
(* stores, and the steps of Next then show just that.                       *)

\* Rows that ask for the same chains make rule sets that do.
LEMMA SameChains ==
    ASSUME NEW t, NEW u, \A i \in Ids : ChainOf(t[i]) = ChainOf(u[i])
    PROVE  Desired(t) = Desired(u)
  BY DEF Desired

\* A new updated_at changes nothing in the kernel.
LEMMA RevChain ==
    ASSUME NEW r \in Row, NEW x, NEW s, s = [r EXCEPT !.rev = x]
    PROVE  ChainOf(s) = ChainOf(r)
  BY DEF Row, ChainOf, Dial

\* The kernel holds the sockets of the rule set it was built from, at most.
LEMMA DesiredPorts ==
    ASSUME NEW t \in Tables, Good(t), plane' = Desired(t)
    PROVE  Disjoint(PlanePorts)'
<1>1. \A i \in Ids : plane'[i].up => t[i].st = "live" /\ plane'[i].listen = t[i].listen
  BY DEF Desired, ChainOf, Down
<1>2. \A i \in Ids : PlanePorts'[i] \subseteq Ports(t)[i]
  BY <1>1 DEF PlanePorts, Ports
<1> QED
  BY <1>2 DEF Good, Disjoint

\* What ties a call to the table outlives the steps of others.
LEMMA SameTie ==
    ASSUME NEW p, Tied(p), UNCHANGED db, suspect \subseteq suspect', ctx'[p] = ctx[p]
    PROVE  Tied(p)'
<1>1. Asked(ctx[p].kind, ctx[p].ids, ctx[p].next, ctx[p].prev)'
  BY DEF Tied, Asked
<1>2. \A i \in ctx[p].ids : Created(p, i) => Created(p, i)'
  BY DEF Created
<1> QED
  BY <1>1, <1>2 DEF Tied

\* Who has which lock after each of the four.
LEMMA ReturnLocks ==
    ASSUME TypeOK, Locks, NEW p \in Procs, Return(p), Held(p) \/ runMu = None
    PROVE  Locks' /\ runMu' = None /\ \A q \in Procs : ~Held(q)'
<1>1. ctx' = [ctx EXCEPT ![p] = IdleCall] /\ ctx'[p] = IdleCall
      /\ \A q \in Procs \ {p} : ctx'[q] = ctx[q]
  BY DEF Return, TypeOK
<1>2. runMu' = None
  BY DEF Return, Locks
<1>3. \A q \in Procs : ~Held(q)'
  BY <1>1, ProcAssumption DEF Held, IdleCall, Locks, Return, Holding, Procs
<1>4. \A q \in Procs : Held(q)' <=> runMu' = q
  BY <1>2, <1>3, ProcAssumption DEF Procs
<1>5. \A q \in Writers : ctx'[q].pc = "locked" => mu' = q
  BY <1>1, ProcAssumption DEF Locks, Return, Writers, Procs, IdleCall
<1>6. \A c \in Clients : ctx'[c].pc \notin {"clear", "resolve"}
  BY <1>1 DEF Locks, Procs, IdleCall
<1> QED
  BY <1>2, <1>3, <1>4, <1>5, <1>6 DEF Locks, Writers, Procs

LEMMA GotoLocks ==
    ASSUME TypeOK, Locks, NEW p \in Procs, NEW pc \in Holding, Held(p), Goto(p, pc), KeepLocks, Fits(p)'
    PROVE  Locks' /\ runMu' = p /\ runMu' # None /\ \A q \in Procs : Held(q)' <=> q = p
<1>1. ctx'[p].pc = pc /\ \A q \in Procs \ {p} : ctx'[q] = ctx[q]
  BY DEF Goto, TypeOK, Call
<1>2. \A q \in Procs : Held(q)' <=> q = p
  BY <1>1, ProcAssumption DEF Held, Locks
<1>3. runMu' = p /\ runMu' # None
  BY ProcAssumption DEF KeepLocks, Locks, Procs
<1>4. p \in Writers => mu' = p
  BY DEF KeepLocks, Locks
<1>5. \A q \in Writers : ctx'[q].pc = "locked" => mu' = q
  BY <1>1, <1>4 DEF KeepLocks, Locks, Writers, Procs, Holding
<1>6. \A c \in Clients : ctx'[c].pc \notin {"clear", "resolve"}
  BY <1>1 DEF Locks, Procs, Holding
<1> QED
  BY <1>2, <1>3, <1>4, <1>5, <1>6 DEF Locks, Writers, Procs

LEMMA BeginLocks ==
    ASSUME TypeOK, Locks, NEW p \in Procs, NEW pc \in {"insert", "apply", "commit"},
           NEW kind, NEW ids, NEW next,
           Begin(p, pc, kind, ids, next), runMu = None, runMu' = p, UNCHANGED mu,
           p \in Writers => ctx[p].pc = "locked", Fits(p)'
    PROVE  Locks' /\ runMu' # None /\ \A q \in Procs : Held(q)' <=> q = p
<1>1. ctx'[p].pc = pc /\ \A q \in Procs \ {p} : ctx'[q] = ctx[q]
  BY DEF Begin, TypeOK
<1>2. \A q \in Procs : Held(q)' <=> q = p
  BY <1>1, ProcAssumption DEF Held, Locks, Holding, Procs
<1>3. runMu' # None
  BY ProcAssumption DEF Procs
<1>4. p \in Writers => mu' = p
  BY DEF Locks
<1>5. \A q \in Writers : ctx'[q].pc = "locked" => mu' = q
  BY <1>1, <1>4 DEF Locks, Writers, Procs
<1>6. \A c \in Clients : ctx'[c].pc \notin {"clear", "resolve"}
  BY <1>1 DEF Locks, Procs
<1> QED
  BY <1>2, <1>3, <1>4, <1>5, <1>6 DEF Locks, Writers, Procs

LEMMA OutsideLocks ==
    ASSUME TypeOK, Locks, NEW p \in Writers, ~Held(p), ctx'[p].pc \notin Holding,
           \A q \in Procs \ {p} : ctx'[q] = ctx[q], UNCHANGED runMu, mu' = mu \/ mu = None,
           ctx'[p].pc = "locked" => mu' = p, p \in Clients => ctx'[p].pc \notin {"clear", "resolve"}
    PROVE  Locks' /\ \A q \in Procs : (Held(q)' <=> Held(q)) /\ (Held(q) => q # p)
<1>0. p \in Procs
  BY DEF Writers, Procs
<1>2. \A q \in Procs : (Held(q)' <=> Held(q)) /\ (Held(q) => q # p)
  BY <1>0 DEF Held
<1>3. \A q \in Procs : Held(q) => Fits(q)'
  BY <1>2 DEF Locks, Fits
<1>4. \A q \in Writers : Held(q)' \/ ctx'[q].pc = "locked" => mu' = q
  BY <1>2, ProcAssumption DEF Locks, Writers, Procs
<1>5. \A c \in Clients : ctx'[c].pc \notin {"clear", "resolve"}
  BY DEF Locks, Procs, Writers
<1> QED
  BY <1>2, <1>3, <1>4, <1>5 DEF Locks

\* A call that returns from a locked step, or before it took runMu, leaves no
\* process in a locked step.
LEMMA ReturnKeeps ==
    ASSUME IInv, TypeOK', NEW p \in Procs, Return(p), Held(p) \/ runMu = None,
           Good(db)', Disjoint(PlanePorts)',
           suspect' = {} => plane' = Desired(db)'
    PROVE  IInv'
<1> USE DEF IInv
<1>1. ctx' = [ctx EXCEPT ![p] = IdleCall] /\ ctx'[p] = IdleCall
      /\ \A q \in Procs \ {p} : ctx'[q] = ctx[q]
  BY DEF Return, TypeOK
<1>3. runMu' = None /\ \A q \in Procs : ~Held(q)'
  BY ReturnLocks
<1>4. Locks'
  BY ReturnLocks
<1>5. Sound'
  <2>1. dns' \in {NoDns, dns}
    BY DEF Return
  <2>2. dns'.clear = {} /\ \A j \in dns'.jobs \cup dns'.done : j.addr.host = j.host
    BY <2>1 DEF Sound, NoDns
  <2>3. ctx'[Dns].pc # "clear"
    BY <1>1 DEF Sound, Procs, IdleCall
  <2> QED
    BY <1>3, <2>2, <2>3 DEF Sound
<1>6. Ties' /\ Planes'
  BY <1>3 DEF Ties, Planes, PlaneAt, Held, Holding
<1> QED
  BY <1>4, <1>5, <1>6

\* The process that holds runMu moves on to another locked step.
LEMMA GotoKeeps ==
    ASSUME IInv, TypeOK', NEW p \in Procs, NEW pc \in Holding, Held(p), Goto(p, pc), KeepLocks,
           Fits(p)', Good(db)', Disjoint(PlanePorts)', Tied(p)', suspect' = {} => PlaneAt(p)'
    PROVE  IInv'
<1> USE DEF IInv
<1>1. /\ ctx'[p] = [ctx[p] EXCEPT !.pc = pc]
      /\ ctx'[p].pc = pc /\ ctx'[p].next = ctx[p].next /\ ctx'[p].prev = ctx[p].prev
      /\ \A q \in Procs \ {p} : ctx'[q] = ctx[q]
  BY DEF Goto, TypeOK, Call
<1>2. \A q \in Procs : Held(q)' <=> q = p
  BY GotoLocks
<1>3. runMu' = p /\ runMu' # None
  BY GotoLocks
<1>4. Locks'
  BY GotoLocks
<1>5. Sound'
  <2>1. ctx'[Dns].pc # "clear"
    BY <1>1 DEF Sound, Procs, Holding
  <2> QED
    BY <1>1, <1>2, <2>1 DEF Sound, KeepLocks
<1>6. Ties'
  BY <1>2 DEF Ties
<1>7. Planes'
  BY <1>2, <1>3 DEF Planes, PlaneAt, Held, Holding
<1> QED
  BY <1>4, <1>5, <1>6, <1>7

\* A process takes runMu and starts a call on the table of that moment.
LEMMA BeginKeeps ==
    ASSUME IInv, TypeOK', NEW p \in Procs, NEW pc \in {"insert", "apply", "commit"},
           NEW kind \in Kinds, NEW ids \in SUBSET Ids, NEW next \in Tables,
           Begin(p, pc, kind, ids, next), runMu = None, runMu' = p,
           UNCHANGED <<mu, dns, db, plane, suspect>>,
           p \in Writers => ctx[p].pc = "locked",
           Fits(p)', Asked(kind, ids, next, db), Good(db) => Good(next),
           kind = "create" <=> pc = "insert",
           pc = "commit" => Desired(next) = Desired(db)
    PROVE  IInv'
<1> USE DEF IInv
<1>1. /\ ctx'[p] = [pc |-> pc, kind |-> kind, ids |-> ids, next |-> next, prev |-> db]
      /\ \A q \in Procs \ {p} : ctx'[q] = ctx[q]
  BY DEF Begin, TypeOK
<1>2. \A q \in Procs : Held(q)' <=> q = p
  BY BeginLocks
<1>3. runMu' # None
  BY BeginLocks
<1>4. Locks'
  BY BeginLocks
<1>5. Sound'
  <2>1. ctx'[Dns].pc # "clear"
    BY <1>1 DEF Sound, Procs
  <2>2. Disjoint(PlanePorts)' /\ Good(db)' /\ Good(next)
    BY DEF Sound, PlanePorts, Good, Disjoint, Ports, Matched
  <2>3. Good(ctx[p].next)' /\ Good(ctx[p].prev)'
    BY <1>1, <2>2 DEF Good, Disjoint, Ports, Matched
  <2> QED
    BY <1>2, <2>1, <2>2, <2>3 DEF Sound
<1>6. Tied(p)'
  <2>1. Asked(kind, ids, next, db)'
    BY DEF Asked
  <2>2. \A i \in ids : kind = "create" => Created(p, i)'
    BY <1>1 DEF Created
  <2> QED
    BY <1>1, <2>1, <2>2 DEF Tied, Asked
<1>7. Ties'
  BY <1>2, <1>6 DEF Ties
<1>8. Planes'
  <2>1. suspect' = {} => PlaneAt(p)'
    BY <1>1 DEF Planes, PlaneAt, Desired
  <2> QED
    BY <1>2, <1>3, <2>1 DEF Planes, PlaneAt, Held, Holding
<1> QED
  BY <1>4, <1>5, <1>7, <1>8

\* A writer that holds no runMu moves between the steps that need none.
LEMMA IdleKeeps ==
    ASSUME IInv, TypeOK', NEW p \in Writers, NEW pc \in {"locked", "resolve"}, ~Held(p), Goto(p, pc),
           UNCHANGED <<db, plane, suspect, runMu>>,
           mu' = mu \/ mu = None, pc = "locked" => mu' = p, p \in Clients => pc = "locked",
           dns'.clear = {}, \A j \in dns'.jobs \cup dns'.done : j.addr.host = j.host
    PROVE  IInv'
<1> USE DEF IInv
<1>0. p \in Procs
  BY DEF Writers, Procs
<1>1. ctx'[p].pc = pc /\ \A q \in Procs \ {p} : ctx'[q] = ctx[q]
  BY <1>0 DEF Goto, TypeOK, Call
<1>l. ctx'[p].pc \notin Holding /\ (p \in Clients => ctx'[p].pc \notin {"clear", "resolve"})
  BY <1>1 DEF Holding
<1>2. \A q \in Procs : (Held(q)' <=> Held(q)) /\ (Held(q) => q # p)
  BY <1>1, <1>l, OutsideLocks
<1>3. Locks'
  BY <1>1, <1>l, OutsideLocks
<1>4. Good(db)' /\ Disjoint(PlanePorts)'
  BY DEF Sound, PlanePorts, Good, Disjoint, Ports, Matched
<1>5. Sound'
  <2>1. ctx'[Dns].pc # "clear"
    BY <1>1 DEF Sound, Procs
  <2>2. \A q \in Procs : Held(q)' => Good(ctx[q].next)' /\ Good(ctx[q].prev)'
    BY <1>1, <1>2 DEF Sound, Good, Disjoint, Ports, Matched
  <2> QED
    BY <1>4, <2>1, <2>2 DEF Sound
<1>6. Ties'
  <2>1. \A q \in Procs : Held(q) => Tied(q)'
    BY <1>1, <1>2, SameTie DEF Ties
  <2> QED
    BY <1>2, <2>1 DEF Ties
<1>7. Planes'
  BY <1>1, <1>2 DEF Planes, PlaneAt, Desired, Held, Holding
<1> QED
  BY <1>3, <1>5, <1>6, <1>7

LEMMA InitInv == LegacyIds = {} /\ Init => IInv
<1> SUFFICES ASSUME LegacyIds = {}, Init PROVE IInv
  OBVIOUS
<1>1. db = NoTable
  BY DEF Init, NoTable
<1>2. \A p \in Procs : ~Held(p) /\ ctx[p].pc = "idle"
  BY DEF Init, IdleCall, Held, Holding
<1>3. Good(db) /\ Disjoint(PlanePorts)
  <2>1. Good(db)
    BY <1>1 DEF NoTable, Blank, Good, Disjoint, Ports
  <2>2. \A i \in Ids : ~plane[i].up
    BY <1>1 DEF Init, Desired, ChainOf, NoTable, Blank, Down
  <2> QED
    BY <2>1, <2>2 DEF PlanePorts, Disjoint
<1>4. Locks
  BY <1>2, ProcAssumption DEF Locks, Init, Procs, Writers
<1>5. Sound
  BY <1>2, <1>3 DEF Sound, Init, NoDns, Procs
<1>6. Ties /\ Planes
  BY <1>2 DEF Ties, Planes, PlaneAt, Init
<1> QED
  BY <1>4, <1>5, <1>6, InitType DEF IInv

\* What the table asks for in the middle of a call, in terms of the two rule
\* sets the call works with.
LEMMA HolderTable ==
    ASSUME IInv, NEW p \in Procs, Held(p)
    PROVE  /\ ctx[p].kind # "create" \/ ctx[p].pc = "insert" =>
                db = ctx[p].prev
           /\ ctx[p].kind = "create" /\ ctx[p].pc \in {"apply", "elems", "cleanup"} =>
                Desired(db) = Desired(ctx[p].next)
           /\ ctx[p].pc \in {"undo", "undoElems"} =>
                "row" \in suspect \/ Desired(db) = Desired(ctx[p].prev)
           /\ ctx[p].kind = "reconcile" => ctx[p].next = ctx[p].prev
<1> DEFINE next == ctx[p].next
           prev == ctx[p].prev
           ids  == ctx[p].ids
<1>1. next \in Tables /\ prev \in Tables /\ ids \subseteq Ids /\ db \in Tables
  BY DEF IInv, TypeOK, Call
<1>2. Tied(p)
  BY DEF IInv, Ties
<1>3. ASSUME ctx[p].kind # "create" \/ ctx[p].pc = "insert" PROVE db = prev
  <2>1. \A i \in Ids : db[i] = prev[i]
    BY <1>2, <1>3 DEF Tied, Created, IInv, Locks
  <2> QED
    BY <1>1, <2>1 DEF Tables
<1>4. ASSUME ctx[p].kind = "create", ctx[p].pc \in {"apply", "elems", "cleanup"}
      PROVE  Desired(db) = Desired(next)
  <2>1. ASSUME NEW i \in ids PROVE ChainOf(db[i]) = ChainOf(next[i])
    <3>1. db[i] = [next[i] EXCEPT !.rev = db[i].rev]
      BY <1>2, <1>4 DEF Tied, Created
    <3>2. next[i] \in Row
      BY <1>1 DEF Tables
    <3> QED
      BY <3>1, <3>2, RevChain
  <2>2. \A i \in Ids \ ids : db[i] = next[i]
    BY <1>2 DEF Tied, Asked
  <2> QED
    BY <2>1, <2>2, SameChains
<1>5. ASSUME ctx[p].pc \in {"undo", "undoElems"}, ~("row" \in suspect)
      PROVE  Desired(db) = Desired(prev)
  <2>1. CASE ctx[p].kind # "create"
    BY <1>3, <2>1
  <2>2. CASE ctx[p].kind = "create"
    <3>1. \A i \in ids : db[i] = Gone /\ prev[i].st = "free"
      BY <1>2, <1>5, <2>2 DEF Tied, Created, Asked
    <3>2. \A i \in ids : ChainOf(db[i]) = Down /\ ChainOf(prev[i]) = Down
      BY <3>1 DEF ChainOf, Gone, Blank
    <3>3. \A i \in Ids \ ids : db[i] = prev[i]
      BY <1>2 DEF Tied
    <3> QED
      BY <3>2, <3>3, SameChains
  <2> QED
    BY <2>1, <2>2
<1>6. ASSUME ctx[p].kind = "reconcile" PROVE next = prev
  <2>1. \A i \in Ids : next[i] = prev[i]
    BY <1>2, <1>6 DEF Tied, Asked
  <2> QED
    BY <1>1, <2>1 DEF Tables
<1> QED
  BY <1>3, <1>4, <1>5, <1>6

\* A written row asks for what the candidate row asks for.
LEMMA InsertInv ==
    ASSUME IInv, TypeOK', NEW c \in Clients, InsertRow(c)
    PROVE  IInv'
<1>0. c \in Procs /\ Held(c) /\ ctx[c].kind = "create" /\ TypeOK /\ Tied(c) /\ Fits(c)
  BY DEF Procs, Held, Holding, InsertRow, IInv, Locks, Ties, Fits
<1> DEFINE next == ctx[c].next
           prev == ctx[c].prev
           ids  == ctx[c].ids
<1>1. next \in Tables /\ prev \in Tables /\ ids \subseteq Ids /\ db \in Tables /\ Good(next) /\ Good(prev)
  BY <1>0 DEF TypeOK, Call, IInv, Sound
<1>2. Disjoint(PlanePorts)'
  BY DEF InsertRow, IInv, Sound, PlanePorts, Disjoint
<1>3. CASE Return(c) /\ Fault /\ UNCHANGED db
  <2>1. Good(db)'
    BY <1>3 DEF IInv, Sound, Good, Disjoint, Ports, Matched
  <2>2. suspect' = {} => plane' = Desired(db)'
    <3>1. suspect = {} => plane = Desired(prev)
      BY <1>0 DEF InsertRow, IInv, Planes, PlaneAt
    <3>2. Desired(db) = Desired(prev)
      BY <1>0, HolderTable DEF InsertRow
    <3> QED
      BY <1>3, <3>1, <3>2 DEF InsertRow, Desired
  <2> QED
    BY <1>0, <1>2, <1>3, <2>1, <2>2, ReturnKeeps
<1>4. ASSUME NEW i \in ids, db' = [db EXCEPT ![i] = [next[i] EXCEPT !.rev = clock]],
             Goto(c, "apply"), KeepLocks
      PROVE  IInv'
  <2>1. /\ db'[i] = [next[i] EXCEPT !.rev = clock] /\ \A j \in Ids \ {i} : db'[j] = next[j]
        /\ ids = {i} /\ \A j \in Ids \ {i} : db'[j] = prev[j]
    BY <1>0, <1>1, <1>4 DEF Tables, Tied, Asked
  <2>2. next[i] \in Row
    BY <1>1 DEF Tables
  <2>3. db'[i] = [next[i] EXCEPT !.rev = db'[i].rev]
    BY <2>1, <2>2 DEF Row
  <2>4. Good(db')
    BY <1>1, <2>1, <2>2, GoodSub DEF Row
  <2>5. /\ ctx'[c].pc = "apply" /\ ctx'[c].kind = "create" /\ ctx'[c].ids = ids
        /\ ctx'[c].next = next /\ ctx'[c].prev = prev
    BY <1>0, <1>4 DEF Goto, TypeOK, Call
  <2>6. Tied(c)'
    BY <1>0, <2>1, <2>3, <2>5 DEF Tied, Created, Asked
  <2>7. suspect' = {} => PlaneAt(c)'
    BY <1>0, <2>5 DEF InsertRow, IInv, Planes, PlaneAt, Desired
  <2>8. Fits(c)' /\ "apply" \in Holding
    BY <1>0, <2>5 DEF Fits, Holding
  <2>9. Good(db)'
    BY <2>4 DEF Good, Disjoint, Ports, Matched
  <2> QED
    BY <1>0, <1>2, <1>4, <2>6, <2>7, <2>8, <2>9, GotoKeeps
<1> QED
  BY <1>3, <1>4 DEF InsertRow

\* A sync that fails leaves the call to undo it, or to give up.
LEMMA FailInv ==
    ASSUME IInv, TypeOK', NEW p \in Procs, ctx[p].pc \in {"apply", "elems", "undo", "undoElems"},
           Fail(p), UNCHANGED db, Disjoint(PlanePorts)',
           suspect \subseteq suspect',
           suspect' = {} => ctx[p].pc \in {"elems", "undoElems"} /\ UNCHANGED plane
    PROVE  IInv'
<1>0. Held(p) /\ TypeOK /\ Tied(p) /\ Fits(p) /\ (p \in Clients \/ p = Dns \/ p = Reconciler)
  BY DEF Procs, Held, Holding, IInv, Locks, Ties
<1>1. Good(db)'
  BY DEF IInv, Sound, Good, Disjoint, Ports, Matched
<1>2. Desired(db)' = Desired(db)
  BY DEF Desired
<1>3. CASE Failed(p) = "return"
  <2>1. ctx[p].kind = "reconcile" \/ ctx[p].pc \in {"undo", "undoElems"}
    BY <1>3 DEF Failed
  <2>2. ASSUME suspect' = {} PROVE plane' = Desired(db)'
    <3>1. CASE ctx[p].pc = "undoElems"
      BY <1>0, <1>2, <2>2, <3>1, HolderTable DEF IInv, Planes, PlaneAt
    <3>2. CASE ctx[p].pc = "elems"
      <4>1. ctx[p].kind = "reconcile"
        BY <2>1, <3>2
      <4> QED
        BY <1>0, <1>2, <2>2, <3>2, <4>1, HolderTable DEF IInv, Planes, PlaneAt
    <3> QED
      BY <2>2, <3>1, <3>2
  <2> QED
    BY <1>0, <1>1, <1>3, <2>2, ReturnKeeps DEF Fail
<1>4. CASE Failed(p) # "return"
  <2>1. Goto(p, Failed(p)) /\ KeepLocks
    BY <1>4 DEF Fail
  <2>2. ctx[p].pc \in {"apply", "elems"} /\ ctx[p].kind # "reconcile"
        /\ Failed(p) = IF ctx[p].kind = "create" THEN "cleanup" ELSE "undo"
    BY <1>4 DEF Failed
  <2>3. /\ ctx'[p].pc = Failed(p) /\ ctx'[p].kind = ctx[p].kind /\ ctx'[p].ids = ctx[p].ids
        /\ ctx'[p].next = ctx[p].next /\ ctx'[p].prev = ctx[p].prev
    BY <1>0, <2>1 DEF Goto, TypeOK, Call
  <2>4. Tied(p)'
    <3>1. ASSUME NEW i \in ctx[p].ids, ctx[p].kind = "create" PROVE Created(p, i)'
      BY <1>0, <2>2, <2>3, <3>1 DEF Tied, Created
    <3>2. Asked(ctx[p].kind, ctx[p].ids, ctx[p].next, ctx[p].prev)'
      BY <1>0, <2>3 DEF Tied, Asked
    <3> QED
      BY <1>0, <2>3, <3>1, <3>2 DEF Tied
  <2>5. Fits(p)'
    BY <1>0, <2>2, <2>3 DEF Fits
  <2>6. PlaneAt(p)'
    BY <2>2, <2>3 DEF PlaneAt
  <2> QED
    BY <1>0, <1>1, <2>1, <2>2, <2>4, <2>5, <2>6, GotoKeeps DEF Holding
<1> QED
  BY <1>3, <1>4

\* A sync that succeeds leaves the kernel with the rule set it was given, the
\* candidate set of the call or the set its rollback returns to.
LEMMA SyncInv ==
    ASSUME IInv, TypeOK', NEW p \in Procs, Sync(p)
    PROVE  IInv'
<1>0. Held(p) /\ TypeOK /\ Tied(p) /\ Fits(p)
  BY DEF Procs, Held, Holding, IInv, Locks, Ties, Sync, SyncStruct, SyncStructFails, SyncElems, SyncElemsFails
<1> DEFINE next == ctx[p].next
           prev == ctx[p].prev
<1>1. next \in Tables /\ prev \in Tables /\ Good(next) /\ Good(prev) /\ Good(db)
  BY <1>0 DEF TypeOK, Call, IInv, Sound
<1>2. plane' = Rebuilt(p) => Disjoint(PlanePorts)'
  <2>1. Applying(p) \in Tables /\ Good(Applying(p))
    BY <1>1 DEF Applying
  <2> QED
    BY <2>1, DesiredPorts DEF Rebuilt
<1>3. UNCHANGED plane => Disjoint(PlanePorts)'
  BY DEF IInv, Sound, PlanePorts, Disjoint
<1>4. UNCHANGED db => Good(db)' /\ Desired(db)' = Desired(db)
  BY <1>1 DEF Good, Disjoint, Ports, Matched, Desired
<1>5. CASE SyncStruct(p)
  <2> DEFINE pc == IF ctx[p].pc = "apply" THEN "elems" ELSE "undoElems"
  <2>1. pc \in Holding /\ Goto(p, pc) /\ KeepLocks /\ UNCHANGED db
    BY <1>5 DEF SyncStruct, Holding
  <2>2. /\ ctx'[p].pc = pc /\ ctx'[p].kind = ctx[p].kind /\ ctx'[p].ids = ctx[p].ids
        /\ ctx'[p].next = next /\ ctx'[p].prev = prev
    BY <1>0, <2>1 DEF Goto, TypeOK, Call
  <2>3. ctx[p].pc = "undo" => ("row" \in suspect' <=> "row" \in suspect)
    BY <1>5 DEF SyncStruct
  <2>4. Tied(p)'
    BY <1>0, <1>5, <2>1, <2>2, <2>3 DEF SyncStruct, Tied, Created, Asked
  <2>5. Fits(p)'
    BY <1>0, <1>5, <2>2 DEF SyncStruct, Fits
  <2>6. PlaneAt(p)'
    BY <1>5, <2>2 DEF SyncStruct, PlaneAt, Rebuilt, Applying, Desired
  <2> QED
    BY <1>0, <1>2, <1>4, <1>5, <2>1, <2>4, <2>5, <2>6, GotoKeeps DEF SyncStruct
<1>6. CASE SyncStructFails(p)
  BY <1>2, <1>3, <1>6, FailInv DEF SyncStructFails
<1>7. CASE SyncElems(p)
  <2>1. CASE Return(p)
    <3>1. ctx[p].pc = "undoElems" \/ (ctx[p].pc = "elems" /\ ctx[p].kind \in {"create", "reconcile"})
      BY <1>0, <1>7, <2>1 DEF SyncElems, Return, Goto, TypeOK, IdleCall, Call
    <3>2. suspect = {} => plane = Desired(db)
      BY <1>0, <3>1, HolderTable DEF IInv, Planes, PlaneAt
    <3> QED
      BY <1>0, <1>3, <1>4, <1>7, <2>1, <3>2, ReturnKeeps DEF SyncElems, KeepStores
  <2>2. CASE Goto(p, "commit") /\ KeepLocks /\ ~Return(p)
    <3>1. ctx[p].pc = "elems" /\ ctx[p].kind \notin {"create", "reconcile"}
      BY <1>7, <2>2 DEF SyncElems
    <3>2. /\ ctx'[p].pc = "commit" /\ ctx'[p].kind = ctx[p].kind /\ ctx'[p].ids = ctx[p].ids
          /\ ctx'[p].next = next /\ ctx'[p].prev = prev
      BY <1>0, <2>2 DEF Goto, TypeOK, Call
    <3>3. Tied(p)'
      <4>1. UNCHANGED db
        BY <1>7 DEF SyncElems, KeepStores
      <4> QED
        BY <1>0, <3>1, <3>2, <4>1 DEF Tied, Asked
    <3>4. Fits(p)'
      BY <1>0, <3>1, <3>2 DEF Fits
    <3>5. suspect' = {} => PlaneAt(p)'
      BY <1>7, <3>1, <3>2 DEF SyncElems, KeepStores, IInv, Planes, PlaneAt, Desired
    <3> QED
      BY <1>0, <1>3, <1>4, <1>7, <2>2, <3>3, <3>4, <3>5, GotoKeeps DEF SyncElems, KeepStores, Holding
  <2> QED
    BY <1>7, <2>1, <2>2 DEF SyncElems
<1>8. CASE SyncElemsFails(p)
  BY <1>3, <1>8, FailInv DEF SyncElemsFails, KeepStores
<1> QED
  BY <1>5, <1>6, <1>7, <1>8 DEF Sync

\* What a commit makes of the table asks for the chains the kernel has.
LEMMA CommitInv ==
    ASSUME IInv, TypeOK', NEW p \in Writers, CommitRow(p)
    PROVE  IInv'
<1>0. p \in Procs /\ Held(p) /\ TypeOK /\ Tied(p) /\ Fits(p) /\ ctx[p].pc = "commit"
      /\ ctx[p].kind \in {"update", "delete", "dns"} /\ (p # Dns => ctx[p].kind # "dns")
  BY ProcAssumption DEF Writers, Procs, Held, Holding, IInv, Locks, Ties, CommitRow, Fits
<1> DEFINE next == ctx[p].next
           prev == ctx[p].prev
           ids  == ctx[p].ids
<1>1. next \in Tables /\ prev \in Tables /\ ids \subseteq Ids /\ Good(next) /\ Good(prev) /\ Good(db)
  BY <1>0 DEF TypeOK, Call, IInv, Sound
<1>2. db = prev
  BY <1>0, HolderTable
<1>3. Disjoint(PlanePorts)' /\ (suspect = {} => plane = Desired(next))
  BY <1>0 DEF CommitRow, IInv, Sound, PlanePorts, Disjoint, Planes, PlaneAt
<1>4. CASE UNCHANGED db /\ IF p = Dns /\ ~Changed(ids, next, prev)
                           THEN Return(p) ELSE Goto(p, "undo") /\ KeepLocks
  <2>1. Good(db)' /\ Desired(db)' = Desired(db)
    BY <1>1, <1>4 DEF Good, Disjoint, Ports, Matched, Desired
  <2>2. CASE p = Dns /\ ~Changed(ids, next, prev) /\ Return(p)
    <3>1. \A i \in ids : next[i] = prev[i]
      <4> SUFFICES ASSUME NEW i \in ids PROVE next[i] = prev[i]
        OBVIOUS
      <4>1. next[i].addr = prev[i].addr
        BY <2>2 DEF Changed
      <4>2. next[i] = [prev[i] EXCEPT !.addr = next[i].addr]
        BY <1>0, <2>2 DEF Tied, Asked, Fits
      <4>3. prev[i] \in Row
        BY <1>1 DEF Tables
      <4> QED
        BY <4>1, <4>2, <4>3 DEF Row
    <3>2. \A i \in Ids : next[i] = prev[i]
      BY <1>0, <3>1 DEF Tied, Asked
    <3>3. Desired(next) = Desired(db)
      BY <1>2, <3>2, SameChains
    <3> QED
      BY <1>0, <1>3, <2>1, <2>2, <3>3, ReturnKeeps DEF CommitRow
  <2>3. CASE Goto(p, "undo") /\ KeepLocks
    <3>1. /\ ctx'[p].pc = "undo" /\ ctx'[p].kind = ctx[p].kind /\ ctx'[p].ids = ids
          /\ ctx'[p].next = next /\ ctx'[p].prev = prev
      BY <1>0, <2>3 DEF Goto, TypeOK, Call
    <3>2. Tied(p)'
      BY <1>0, <1>4, <3>1 DEF Tied, Asked
    <3>3. Fits(p)' /\ PlaneAt(p)'
      BY <1>0, <3>1, ProcAssumption DEF Fits, PlaneAt, Writers
    <3> QED
      BY <1>0, <1>3, <2>1, <2>3, <3>2, <3>3, GotoKeeps DEF Holding
  <2> QED
    BY <1>4, <2>2, <2>3
<1>5. CASE /\ db' = [i \in Ids |-> IF i \in ids THEN Written(p, i) ELSE db[i]]
           /\ Return(p)
  <2>1. ASSUME NEW i \in Ids
        PROVE  /\ ChainOf(db'[i]) = ChainOf(next[i])
               /\ db'[i].st = "live" =>
                    /\ next[i].st = "live" /\ db'[i].listen = next[i].listen
                    /\ db'[i].target = next[i].target /\ db'[i].addr = next[i].addr
    <3>1. next[i] \in Row /\ prev[i] \in Row
      BY <1>1 DEF Tables
    <3>2. CASE i \notin ids
      <4>1. db'[i] = next[i]
        BY <1>0, <1>2, <1>5, <3>2 DEF Tied, Asked
      <4> QED
        BY <4>1
    <3>3. CASE i \in ids /\ ctx[p].kind = "update"
      <4>1. db'[i] = [next[i] EXCEPT !.rev = clock]
        BY <1>5, <3>3 DEF Written
      <4> QED
        BY <3>1, <4>1, RevChain DEF Row
    <3>4. CASE i \in ids /\ ctx[p].kind = "delete"
      <4>1. db'[i] = Gone /\ next[i] = Gone
        BY <1>0, <1>5, <3>4 DEF Written, Tied, Asked
      <4> QED
        BY <4>1
    <3>5. CASE i \in ids /\ ctx[p].kind = "dns"
      <4>1. db'[i] = [prev[i] EXCEPT !.addr = next[i].addr]
        BY <1>2, <1>5, <3>5 DEF Written
      <4>2. next[i] = [prev[i] EXCEPT !.addr = next[i].addr]
        BY <1>0, <3>5 DEF Tied, Asked
      <4> QED
        BY <4>1, <4>2
    <3> QED
      BY <1>0, <3>2, <3>3, <3>4, <3>5
  <2>2. Good(db')
    BY <1>1, <2>1, GoodSub
  <2>3. Good(db)' /\ Desired(db)' = Desired(next)
    BY <2>1, <2>2, SameChains DEF Good, Disjoint, Ports, Matched, Desired
  <2> QED
    BY <1>0, <1>3, <1>5, <2>3, ReturnKeeps DEF CommitRow
<1> QED
  BY <1>4, <1>5 DEF CommitRow

\* Removing the row of a failed Create takes the table back to where it was.
LEMMA HardDeleteInv ==
    ASSUME IInv, TypeOK', NEW c \in Clients, HardDelete(c)
    PROVE  IInv'
<1>0. c \in Procs /\ Held(c) /\ TypeOK /\ Tied(c) /\ Fits(c) /\ ctx[c].kind = "create"
  BY DEF Procs, Held, Holding, HardDelete, IInv, Locks, Ties, Fits
<1>1. ctx[c].ids \subseteq Ids /\ Good(db)
  BY <1>0 DEF TypeOK, Call, IInv, Sound
<1>2. /\ ctx'[c].pc = "undo" /\ ctx'[c].kind = ctx[c].kind /\ ctx'[c].ids = ctx[c].ids
      /\ ctx'[c].next = ctx[c].next /\ ctx'[c].prev = ctx[c].prev
  BY <1>0 DEF HardDelete, Goto, TypeOK, Call
<1>3. /\ \A i \in Ids \ ctx[c].ids : db'[i] = db[i]
      /\ \A i \in Ids : db'[i] = db[i] \/ db'[i] = Gone
      /\ "row" \in suspect' \/ \A i \in ctx[c].ids : db'[i] = Gone
  BY <1>1 DEF HardDelete
<1>4. Good(db')
  BY <1>1, <1>3, GoodSub DEF Gone, Blank
<1>5. Good(db)' /\ Disjoint(PlanePorts)'
  BY <1>4 DEF HardDelete, IInv, Sound, PlanePorts, Good, Disjoint, Ports, Matched
<1>6. Tied(c)'
  <2>1. ASSUME NEW i \in ctx[c].ids PROVE Created(c, i)'
    BY <1>2, <1>3 DEF Created
  <2> QED
    BY <1>0, <1>2, <1>3, <2>1 DEF Tied, Asked
<1>7. Fits(c)' /\ PlaneAt(c)'
  BY <1>0, <1>2 DEF Fits, PlaneAt
<1> QED
  BY <1>0, <1>5, <1>6, <1>7, GotoKeeps DEF HardDelete, Holding

\* A client's call starts on the table of the moment it has both locks.
LEMMA LoadInv ==
    ASSUME IInv, TypeOK', NEW c \in Clients, LoadCall(c)
    PROVE  IInv'
<1>0. c \in Procs /\ TypeOK
  BY DEF Procs, IInv
<1>1. PICK kind \in {"create", "update", "delete"}, ids \in SUBSET Ids, next \in Tables :
        Asks(c, kind, ids, next)
  BY <1>0, LoadCallFacts
<1> DEFINE pc == IF kind = "create" THEN "insert" ELSE "apply"
<1>2. Begin(c, pc, kind, ids, next) /\ ctx[c].pc = "locked" /\ runMu = None /\ runMu' = c
      /\ UNCHANGED <<mu, dns, db, plane, suspect>>
  BY <1>1 DEF Asks, Load, KeepStores
<1>3. ctx'[c].pc = pc /\ ctx'[c].kind = kind
  BY <1>0, <1>2 DEF Begin, TypeOK
<1>4. Fits(c)'
  BY <1>3, ProcAssumption DEF Fits
<1>5. pc \in {"insert", "apply", "commit"} /\ kind \in Kinds /\ pc # "commit"
      /\ (kind = "create" <=> pc = "insert")
  BY DEF Kinds
<1> HIDE DEF pc
<1> QED
  BY <1>0, <1>1, <1>2, <1>4, <1>5, BeginKeeps DEF Asks

\* The answers RefreshDNS keeps are for rules that are still on their domain.
LEMMA DnsLoadInv ==
    ASSUME IInv, TypeOK', DnsLoad
    PROVE  IInv'
<1>0. Dns \in Procs /\ Dns \in Writers /\ TypeOK /\ Good(db) /\ ctx[Dns].pc = "locked" /\ runMu = None
  BY DEF Procs, Writers, IInv, Sound, DnsLoad
<1> DEFINE keep == {j \in dns.done : Usable(j)}
           ids  == {j.id : j \in keep}
           addr(i) == (CHOOSE j \in keep : j.id = i).addr
           next == [i \in Ids |-> IF i \in ids THEN [db[i] EXCEPT !.addr = addr(i)] ELSE db[i]]
           pc   == IF Changed(ids, next, db) THEN "apply" ELSE "commit"
<1>1. ASSUME NEW i \in ids
      PROVE  /\ i \in Ids /\ addr(i) \in Addr /\ db[i] \in Row /\ db[i].st = "live"
             /\ db[i].target \in Hosts /\ addr(i).host = db[i].target
  <2>1. PICK j \in keep : j.id = i /\ addr(i) = j.addr
    BY <1>1
  <2>2. j \in Job /\ Usable(j) /\ j.addr.host = j.host
    BY <1>0 DEF TypeOK, IInv, Sound
  <2> QED
    BY <1>0, <2>1, <2>2 DEF Job, Usable, TypeOK, Tables
<1> HIDE DEF keep, ids, addr
<1>2. /\ \A i \in ids : /\ next[i] = [db[i] EXCEPT !.addr = addr(i)] /\ next[i].st = "live"
                        /\ next[i].addr = addr(i) /\ next[i].listen = db[i].listen
                        /\ next[i].target = db[i].target
      /\ \A i \in Ids \ ids : next[i] = db[i]
  BY <1>1 DEF Row
<1>3. next \in Tables
  <2>1. ASSUME NEW i \in Ids PROVE next[i] \in Row
    <3>1. CASE i \in ids
      BY <1>1, <1>2, <3>1 DEF Row
    <3>2. CASE i \notin ids
      BY <1>0, <1>2, <3>2 DEF TypeOK, Tables
    <3> QED
      BY <3>1, <3>2
  <2> QED
    BY <2>1 DEF Tables
<1>4. CASE Return(Dns)
  <2>1. Good(db)' /\ Disjoint(PlanePorts)' /\ (suspect' = {} => plane' = Desired(db)')
    BY <1>0 DEF DnsLoad, KeepStores, IInv, Sound, Planes, PlanePorts, Desired,
       Good, Disjoint, Ports, Matched
  <2> QED
    BY <1>0, <1>4, <2>1, ReturnKeeps
<1>5. CASE runMu' = Dns /\ UNCHANGED <<mu, dns>> /\ Begin(Dns, pc, "dns", ids, next)
  <2> HIDE DEF next
  <2>1. Good(next)
    <3>1. ASSUME NEW i \in Ids, next[i].st = "live" PROVE Matched(next[i])
      <4>1. CASE i \in ids
        BY <1>1, <1>2, <4>1 DEF Matched
      <4>2. CASE i \notin ids
        BY <1>0, <1>2, <3>1, <4>2 DEF Good
      <4> QED
        BY <4>1, <4>2
    <3>2. \A i \in Ids : Ports(next)[i] = Ports(db)[i]
      BY <1>1, <1>2 DEF Ports
    <3> QED
      BY <1>0, <3>1, <3>2 DEF Good, Disjoint
  <2>2. Asked("dns", ids, next, db)
    BY <1>1, <1>2 DEF Asked
  <2>3. pc = "commit" => Desired(next) = Desired(db)
    <3>1. ASSUME pc = "commit", NEW i \in ids PROVE next[i] = db[i]
      <4>1. next[i].addr = db[i].addr
        BY <3>1 DEF Changed
      <4>2. db[i] \in Row /\ next[i] = [db[i] EXCEPT !.addr = next[i].addr]
        BY <1>1, <1>2
      <4> QED
        BY <4>1, <4>2 DEF Row
    <3> QED
      BY <1>2, <3>1, SameChains
  <2>4. pc \in {"insert", "apply", "commit"} /\ pc # "insert" /\ "dns" \in Kinds /\ ids \subseteq Ids
    BY <1>1 DEF Kinds
  <2> HIDE DEF pc
  <2>5. ctx'[Dns].pc = pc /\ ctx'[Dns].kind = "dns"
    BY <1>0, <1>5 DEF Begin, TypeOK
  <2>6. Fits(Dns)'
    BY <2>4, <2>5, ProcAssumption DEF Fits
  <2> QED
    BY <1>0, <1>3, <1>5, <2>1, <2>2, <2>3, <2>4, <2>6, BeginKeeps DEF DnsLoad, KeepStores
<1> QED
  BY <1>4, <1>5 DEF DnsLoad, next, ids, keep, addr

\* Steps that touch neither store, no lock and no call.
LEMMA QuietKeeps ==
    ASSUME IInv, TypeOK', UNCHANGED <<db, plane, suspect, mu, runMu, ctx>>,
           dns'.clear = {}, \A j \in dns'.jobs \cup dns'.done : j.addr.host = j.host
    PROVE  IInv'
<1>1. Locks'
  BY DEF IInv, Locks, Held, Fits
<1>2. Sound'
  <2>1. Good(db)' /\ Disjoint(PlanePorts)'
    BY DEF IInv, Sound, PlanePorts, Good, Disjoint, Ports, Matched
  <2>2. \A p \in Procs : Held(p)' => Good(ctx[p].next)' /\ Good(ctx[p].prev)'
    BY DEF IInv, Sound, Held, Good, Disjoint, Ports, Matched
  <2>3. ctx'[Dns].pc # "clear"
    BY DEF IInv, Sound
  <2> QED
    BY <2>1, <2>2, <2>3 DEF Sound
<1>3. Ties'
  BY SameTie DEF IInv, Ties, Held
<1>4. Planes'
  BY DEF IInv, Planes, PlaneAt, Desired
<1> QED
  BY <1>1, <1>2, <1>3, <1>4 DEF IInv

\* RefreshDNS takes note of the domains of the moment; no row is to be cleared.
LEMMA SnapshotInv == ASSUME IInv, TypeOK', DnsSnapshot PROVE IInv'
<1> DEFINE live  == {i \in Ids : db[i].st = "live"}
           clear == {i \in live : db[i].target \notin Hosts /\ db[i].addr # NoAddr}
           jobs  == {[id |-> i, host |-> db[i].target, rev |-> db[i].rev, addr |-> db[i].addr] :
                       i \in {j \in live : db[j].target \in Hosts}}
<1>1. clear = {} /\ \A j \in jobs : j.addr.host = j.host
  BY DEF IInv, Sound, Good, Matched
<1>2. dns' = [clear |-> clear, jobs |-> jobs, done |-> {}]
      /\ Goto(Dns, IF clear # {} THEN "clear" ELSE "resolve")
      /\ ctx[Dns].pc = "idle" /\ UNCHANGED <<db, plane, suspect, mu, runMu>>
  BY DEF DnsSnapshot
<1> HIDE DEF clear, jobs
<1>3. dns'.clear = {} /\ \A j \in dns'.jobs \cup dns'.done : j.addr.host = j.host
  BY <1>1, <1>2
<1>4. Dns \in Writers /\ ~Held(Dns) /\ Dns \notin Clients /\ Goto(Dns, "resolve")
  BY <1>1, <1>2, ProcAssumption DEF Writers, Held, Holding
<1> QED
  BY <1>2, <1>3, <1>4, IdleKeeps

\* A crash ends every call, and leaves the kernel as it is or empty.
LEMMA CrashInv == ASSUME IInv, TypeOK', Crash PROVE IInv'
<1>1. \A p \in Procs : ctx'[p].pc = "idle"
  BY DEF Crash, IdleCall
<1>2. mu' = None /\ runMu' = None /\ dns' = NoDns /\ suspect' # {} /\ UNCHANGED db
  BY DEF Crash
<1>3. Disjoint(PlanePorts)'
  <2>1. \A i \in Ids : plane'[i] = plane[i] \/ ~plane'[i].up
    BY DEF Crash, Down
  <2>2. \A i \in Ids : PlanePorts'[i] \subseteq PlanePorts[i]
    BY <2>1 DEF PlanePorts
  <2> QED
    BY <2>2 DEF IInv, Sound, Disjoint
<1>4. Locks'
  BY <1>1, <1>2, ProcAssumption DEF Locks, Held, Holding, Procs, Writers
<1>5. Good(db)'
  BY <1>2 DEF IInv, Sound, Good, Disjoint, Ports, Matched
<1>6. Sound'
  BY <1>1, <1>2, <1>3, <1>5 DEF Sound, Held, Holding, NoDns, Procs
<1>7. Ties' /\ Planes'
  BY <1>1, <1>2 DEF Ties, Planes, Held, Holding
<1> QED
  BY <1>4, <1>6, <1>7 DEF IInv

\* A change from outside can take sockets away from the kernel, never add any.
LEMMA TamperInv == ASSUME IInv, TypeOK', Tamper PROVE IInv'
<1>1. UNCHANGED <<db, mu, runMu, ctx, dns>> /\ suspect' # {} /\ suspect \subseteq suspect'
  BY DEF Tamper
<1>2. Disjoint(PlanePorts)'
  <2>1. PICK i \in Ids, t \in Literals :
          plane[i].up
          /\ plane' = [plane EXCEPT ![i] = IF t = @.dial.host THEN Down
                                           ELSE [@ EXCEPT !.dial = [host |-> t, gen |-> 0]]]
    BY DEF Tamper
  <2>2. \A j \in Ids : plane'[j].up => plane[j].up /\ plane'[j].listen = plane[j].listen
    BY <2>1 DEF IInv, TypeOK, Chain, Down
  <2>3. \A j \in Ids : PlanePorts'[j] \subseteq PlanePorts[j]
    BY <2>2 DEF PlanePorts
  <2> QED
    BY <2>3 DEF IInv, Sound, Disjoint
<1>3. Locks'
  BY <1>1 DEF IInv, Locks, Held, Fits
<1>4. Sound'
  BY <1>1, <1>2 DEF IInv, Sound, Held, Good, Disjoint, Ports, Matched
<1>5. Ties'
  BY <1>1, SameTie DEF IInv, Ties, Held
<1>6. Planes'
  BY <1>1 DEF Planes
<1> QED
  BY <1>3, <1>4, <1>5, <1>6 DEF IInv

\* Reconcile works with the rows of the moment for both rule sets.
LEMMA ReconcileInv == ASSUME IInv, TypeOK', ReconcileStart PROVE IInv'
<1>1. Reconciler \in Procs /\ Reconciler \notin Writers /\ TypeOK
  BY ProcAssumption DEF Procs, Writers, IInv
<1>2. Begin(Reconciler, "apply", "reconcile", {}, db) /\ runMu = None /\ runMu' = Reconciler
      /\ UNCHANGED <<mu, dns, db, plane, suspect>>
  BY DEF ReconcileStart, KeepStores
<1>3. ctx'[Reconciler].pc = "apply" /\ ctx'[Reconciler].kind = "reconcile"
  BY <1>1, <1>2 DEF Begin, TypeOK
<1>4. Fits(Reconciler)' /\ Asked("reconcile", {}, db, db)
  BY <1>3, ProcAssumption DEF Fits, Asked
<1>5. db \in Tables /\ {} \in SUBSET Ids /\ "reconcile" \in Kinds
  BY <1>1 DEF TypeOK, Kinds
<1> QED
  BY <1>1, <1>2, <1>4, <1>5, BeginKeeps

LEMMA NextInv == IInv /\ [Next]_vars => IInv'
<1> SUFFICES ASSUME IInv, [Next]_vars PROVE IInv'
  OBVIOUS
<1>0. TypeOK'
  BY NextType DEF IInv
<1>1. ASSUME NEW c \in Clients, AcquireMu(c) PROVE IInv'
  <2>1. c \in Writers /\ ~Held(c)
    BY <1>1 DEF Writers, Held, Holding, AcquireMu
  <2> QED
    BY <1>0, <1>1, <2>1, IdleKeeps DEF AcquireMu, KeepStores, IInv, Sound
<1>2. ASSUME NEW c \in Clients, Reject(c) PROVE IInv'
  <2>1. Good(db)' /\ Disjoint(PlanePorts)' /\ (suspect' = {} => plane' = Desired(db)')
    BY <1>2 DEF Reject, KeepStores, IInv, Sound, Planes, PlanePorts, Desired, Good, Disjoint, Ports, Matched
  <2> QED
    BY <1>0, <1>2, <2>1, ReturnKeeps DEF Reject, Procs
<1>3. ASSUME NEW c \in Clients, ClientStep(c), ~Reject(c) PROVE IInv'
  BY <1>0, <1>3, LoadInv, InsertInv, HardDeleteInv DEF ClientStep
<1>4. ASSUME NEW p \in Procs, Sync(p) PROVE IInv'
  BY <1>0, <1>4, SyncInv
<1>5. ASSUME NEW p \in Clients \cup {Dns}, CommitRow(p) PROVE IInv'
  BY <1>0, <1>5, CommitInv DEF Writers
<1>6. CASE DnsSnapshot
  BY <1>0, <1>6, SnapshotInv
<1>7. CASE DnsClear
  BY <1>7 DEF DnsClear, IInv, Sound
<1>8. CASE DnsResolve
  <2>0. PICK j \in dns.jobs : \E a \in {j.addr, [host |-> j.host, gen |-> zone[j.host]]} :
          dns' = [dns EXCEPT !.jobs = @ \ {j}, !.done = @ \cup {[j EXCEPT !.addr = a]}]
    BY <1>8 DEF DnsResolve
  <2>1. PICK a \in {j.addr, [host |-> j.host, gen |-> zone[j.host]]} :
          dns' = [dns EXCEPT !.jobs = @ \ {j}, !.done = @ \cup {[j EXCEPT !.addr = a]}]
    BY <2>0
  <2>2. j \in Job /\ a.host = j.host
    BY <2>1 DEF IInv, Sound, TypeOK
  <2>3. [j EXCEPT !.addr = a].addr.host = [j EXCEPT !.addr = a].host
    BY <2>2 DEF Job
  <2>4. dns'.clear = {} /\ \A k \in dns'.jobs \cup dns'.done : k.addr.host = k.host
    BY <2>1, <2>3 DEF IInv, Sound, TypeOK
  <2> QED
    BY <1>0, <1>8, <2>4, QuietKeeps DEF DnsResolve, KeepStores
<1>9. CASE DnsLock
  <2>1. Dns \in Writers /\ ~Held(Dns) /\ Dns \notin Clients
    BY <1>9, ProcAssumption DEF Writers, Held, Holding, DnsLock
  <2> QED
    BY <1>0, <1>9, <2>1, IdleKeeps DEF DnsLock, KeepStores, IInv, Sound
<1>10. CASE DnsLoad
  BY <1>0, <1>10, DnsLoadInv
<1>11. CASE DnsLoadFails
  <2>1. Good(db)' /\ Disjoint(PlanePorts)' /\ (suspect' = {} => plane' = Desired(db)')
    BY <1>11 DEF DnsLoadFails, KeepStores, IInv, Sound, Planes, PlanePorts, Desired, Good, Disjoint, Ports, Matched
  <2> QED
    BY <1>0, <1>11, <2>1, ReturnKeeps DEF DnsLoadFails, Procs
<1>12. CASE ReconcileStart
  BY <1>0, <1>12, ReconcileInv
<1>13. CASE Crash
  BY <1>0, <1>13, CrashInv
<1>14. CASE Tamper
  BY <1>0, <1>14, TamperInv
<1>15. CASE Tick \/ ZoneChange
  BY <1>0, <1>15, QuietKeeps DEF Tick, ZoneChange, KeepStores, IInv, Sound
<1>16. CASE UNCHANGED vars
  BY <1>0, <1>16, QuietKeeps DEF vars, IInv, Sound
<1> QED
  BY <1>1, <1>2, <1>3, <1>4, <1>5, <1>6, <1>7, <1>8, <1>9, <1>10, <1>11, <1>12, <1>13, <1>14,
     <1>15, <1>16 DEF Next, DnsStep, Environment

\* The invariant, of an installation that was not upgraded from a release that
\* left resolve columns on literal rules (a refresh that clears them while an edit gives the rule a domain loses its address).
LEMMA Invariance == ASSUME LegacyIds = {} PROVE Spec => []IInv
  BY InitInv, NextInv, PTL DEF Spec

-----------------------------------------------------------------------------
(* What holds of every installation.  A refresh that empties the resolve     *)
(* columns of an inherited row does so without a lock, in the middle of       *)
(* anyone's call; it changes neither the state nor the sockets of a row, and   *)
(* of these two every call remembers the truth.                              *)

Same(r, s) == r.st = s.st /\ r.listen = s.listen
KeptRow(p, i) ==
    IF ctx[p].kind = "create"
    THEN /\ ctx[p].pc = "insert" => db[i].st = "free"
         /\ ctx[p].pc \in {"apply", "elems", "cleanup"} => Same(db[i], ctx[p].next[i])
    ELSE Same(db[i], ctx[p].prev[i])
Kept(p) ==
    /\ Asked(ctx[p].kind, ctx[p].ids, ctx[p].next, ctx[p].prev)
    /\ \A i \in Ids \ ctx[p].ids : Same(db[i], ctx[p].prev[i])
    /\ \A i \in ctx[p].ids : KeptRow(p, i)
Remembered == \A p \in Procs : Held(p) => Kept(p)

KInv == TypeOK /\ Locks /\ Remembered

\* No socket is used twice, in the table, in the kernel, or in what a call works with.
Apart ==
    /\ Disjoint(Ports(db)) /\ Disjoint(PlanePorts)
    /\ \A p \in Procs : Held(p) => Disjoint(Ports(ctx[p].next)) /\ Disjoint(Ports(ctx[p].prev))

\* Again one lemma for each way a step changes the control state.
LEMMA ReturnKept ==
    ASSUME KInv, TypeOK', NEW p \in Procs, Return(p), Held(p) \/ runMu = None
    PROVE  KInv' /\ \A q \in Procs : ~Held(q)'
  BY ReturnLocks DEF KInv, Remembered

LEMMA GotoKept ==
    ASSUME KInv, TypeOK', NEW p \in Procs, NEW pc \in Holding, Held(p), Goto(p, pc), KeepLocks,
           pc \in {"insert", "cleanup"} => ctx[p].kind = "create",
           pc = "commit" => ctx[p].kind # "create",
           p = Reconciler => pc \in {"apply", "elems"},
           \A i \in Ids \ ctx[p].ids : Same(db'[i], db[i]),
           \A i \in ctx[p].ids : KeptRow(p, i)'
    PROVE  /\ KInv'
           /\ \A q \in Procs : Held(q)' => q = p /\ ctx'[q].next = ctx[q].next /\ ctx'[q].prev = ctx[q].prev
<1>0. TypeOK /\ Locks /\ Kept(p) /\ Fits(p)
  BY DEF KInv, Remembered, Locks
<1>1. /\ ctx'[p].pc = pc /\ ctx'[p].kind = ctx[p].kind /\ ctx'[p].ids = ctx[p].ids
      /\ ctx'[p].next = ctx[p].next /\ ctx'[p].prev = ctx[p].prev
  BY <1>0 DEF Goto, TypeOK, Call
<1>2. Fits(p)'
  BY <1>0, <1>1 DEF Fits
<1>3. Locks' /\ \A q \in Procs : Held(q)' <=> q = p
  BY <1>0, <1>2, GotoLocks
<1>4. Kept(p)'
  BY <1>0, <1>1 DEF Kept, Asked, Same
<1> QED
  BY <1>1, <1>3, <1>4 DEF KInv, Remembered

LEMMA BeginKept ==
    ASSUME KInv, TypeOK', NEW p \in Procs, NEW pc \in {"insert", "apply", "commit"},
           NEW kind, NEW ids, NEW next,
           Begin(p, pc, kind, ids, next), runMu = None, runMu' = p, UNCHANGED <<mu, db>>,
           p \in Writers => ctx[p].pc = "locked", Fits(p)', Asked(kind, ids, next, db),
           kind = "create" => pc = "insert"
    PROVE  /\ KInv' /\ ctx'[p].next = next /\ ctx'[p].prev = db
           /\ \A q \in Procs : Held(q)' => q = p
<1>0. TypeOK /\ Locks
  BY DEF KInv
<1>1. Locks' /\ \A q \in Procs : Held(q)' <=> q = p
  BY <1>0, BeginLocks
<1>2. ctx'[p] = [pc |-> pc, kind |-> kind, ids |-> ids, next |-> next, prev |-> db]
  BY <1>0 DEF Begin, TypeOK
<1>3. ASSUME NEW i \in ids PROVE KeptRow(p, i)'
  <2>1. kind = "create" => db[i].st = "free" /\ pc = "insert"
    BY <1>3 DEF Asked
  <2> QED
    BY <1>2, <2>1 DEF KeptRow, Same
<1>4. Kept(p)'
  BY <1>2, <1>3 DEF Kept, Asked, Same
<1> QED
  BY <1>1, <1>2, <1>4 DEF KInv, Remembered

\* Someone without runMu moves, and at most columns are emptied.
LEMMA OutsideKept ==
    ASSUME KInv, TypeOK', NEW p \in Writers, ~Held(p), ctx'[p].pc \notin Holding,
           \A q \in Procs \ {p} : ctx'[q] = ctx[q], UNCHANGED runMu, mu' = mu \/ mu = None,
           ctx'[p].pc = "locked" => mu' = p, p \in Clients => ctx'[p].pc \notin {"clear", "resolve"},
           \A i \in Ids : Same(db'[i], db[i])
    PROVE  KInv' /\ \A q \in Procs : Held(q)' => Held(q) /\ ctx'[q] = ctx[q]
<1>0. TypeOK /\ Locks
  BY DEF KInv
<1>1. Locks' /\ \A q \in Procs : (Held(q)' <=> Held(q)) /\ (Held(q) => q # p)
  BY <1>0, OutsideLocks
<1>2. ASSUME NEW q \in Procs, Held(q) PROVE Kept(q)'
  <2>1. ctx'[q] = ctx[q] /\ Kept(q) /\ ctx[q].ids \subseteq Ids
    BY <1>0, <1>1, <1>2 DEF KInv, Remembered, TypeOK, Call
  <2> QED
    BY <2>1 DEF Kept, KeptRow, Asked, Same
<1> QED
  BY <1>1, <1>2 DEF KInv, Remembered

LEMMA QuietKept ==
    ASSUME KInv, TypeOK', UNCHANGED <<db, mu, runMu, ctx>>
    PROVE  KInv' /\ \A q \in Procs : Held(q)' => Held(q) /\ ctx'[q] = ctx[q]
  BY DEF KInv, Locks, Held, Fits, Remembered, Kept, KeptRow, Asked, Same

\* The steps one by one: each keeps KInv, and if all sockets were apart, they stay apart.
LEMMA SameApart ==
    ASSUME \A i \in Ids : Same(db'[i], db[i])
    PROVE  Disjoint(Ports(db)) => Disjoint(Ports(db'))
  BY ApartSub DEF Same

LEMMA PlaneApart ==
    ASSUME \A i \in Ids : plane'[i].up => plane[i].up /\ plane'[i].listen = plane[i].listen
    PROVE  Disjoint(PlanePorts) => Disjoint(PlanePorts)'
<1>1. \A i \in Ids : PlanePorts'[i] \subseteq PlanePorts[i]
  BY DEF PlanePorts
<1> QED
  BY <1>1 DEF Disjoint

LEMMA ChainsApart ==
    ASSUME NEW t \in Tables, Disjoint(Ports(t)), plane' = Desired(t)
    PROVE  Disjoint(PlanePorts)'
<1>1. \A i \in Ids : plane'[i].up => t[i].st = "live" /\ plane'[i].listen = t[i].listen
  BY DEF Desired, ChainOf, Down
<1>2. \A i \in Ids : PlanePorts'[i] \subseteq Ports(t)[i]
  BY <1>1 DEF PlanePorts, Ports
<1> QED
  BY <1>2 DEF Disjoint

LEMMA InsertKept ==
    ASSUME KInv, TypeOK', NEW c \in Clients, InsertRow(c)
    PROVE  KInv' /\ (Apart => Apart')
<1>0. c \in Procs /\ Held(c) /\ ctx[c].kind = "create" /\ TypeOK /\ Kept(c) /\ ctx[c].pc = "insert"
  BY DEF Procs, Held, Holding, InsertRow, KInv, Locks, Remembered, Fits
<1> DEFINE next == ctx[c].next
           ids  == ctx[c].ids
<1>1. next \in Tables /\ ids \subseteq Ids /\ db \in Tables
  BY <1>0 DEF TypeOK, Call
<1>2. Disjoint(PlanePorts) => Disjoint(PlanePorts)'
  BY PlaneApart DEF InsertRow
<1>3. CASE Return(c) /\ Fault /\ UNCHANGED db
  <2>1. KInv' /\ \A q \in Procs : ~Held(q)'
    BY <1>0, <1>3, ReturnKept
  <2>2. Disjoint(Ports(db)) => Disjoint(Ports(db'))
    BY <1>3, SameApart DEF Same
  <2> QED
    BY <1>2, <2>1, <2>2 DEF Apart, Disjoint, Ports
<1>4. ASSUME NEW i \in ids, db' = [db EXCEPT ![i] = [next[i] EXCEPT !.rev = clock]], Goto(c, "apply"), KeepLocks
      PROVE  KInv' /\ (Apart => Apart')
  <2>1. ids = {i} /\ \A j \in Ids \ {i} : db'[j] = db[j] /\ Same(db[j], next[j])
    BY <1>0, <1>1, <1>4 DEF Kept, Asked, Tables, Same
  <2>2. Same(db'[i], next[i])
    <3>1. next[i] \in Row /\ db'[i] = [next[i] EXCEPT !.rev = clock]
      BY <1>1, <1>4 DEF Tables
    <3> QED
      BY <3>1 DEF Row, Same
  <2>3. ctx'[c].pc = "apply" /\ ctx'[c].kind = "create" /\ ctx'[c].next = next
    BY <1>0, <1>4 DEF Goto, TypeOK, Call
  <2>4. \A j \in ids : KeptRow(c, j)'
    BY <2>1, <2>2, <2>3 DEF KeptRow
  <2>5. \A j \in Ids \ ids : Same(db'[j], db[j])
    BY <2>1 DEF Same
  <2>6. "apply" \in Holding /\ c # Reconciler
    BY ProcAssumption DEF Holding
  <2>7. KInv' /\ \A q \in Procs : Held(q)' => q = c /\ ctx'[q].next = ctx[q].next /\ ctx'[q].prev = ctx[q].prev
    BY <1>0, <1>4, <2>4, <2>5, <2>6, GotoKept
  <2>8. ASSUME Apart PROVE Disjoint(Ports(db'))
    <3>1. \A j \in Ids : Same(db'[j], next[j])
      BY <2>1, <2>2
    <3> QED
      BY <1>0, <2>8, <3>1, ApartSub DEF Apart, Same
  <2> QED
    BY <1>0, <1>2, <2>7, <2>8 DEF Apart, Disjoint, Ports
<1> QED
  BY <1>3, <1>4 DEF InsertRow

\* A sync moves on, gives up or starts to undo, and writes no row.
LEMMA SyncKept ==
    ASSUME KInv, TypeOK', NEW p \in Procs, Sync(p)
    PROVE  KInv' /\ (Apart => Apart')
<1>0. Held(p) /\ TypeOK /\ Kept(p) /\ Fits(p) /\ UNCHANGED db
      /\ (p \in Clients \/ p = Dns \/ p = Reconciler)
      /\ ctx[p].pc \in {"apply", "elems", "undo", "undoElems"}
  BY DEF Procs, Held, Holding, KInv, Locks, Remembered, Sync, SyncStruct, SyncStructFails, SyncElems,
     SyncElemsFails, KeepStores
<1>1. ctx[p].next \in Tables /\ ctx[p].prev \in Tables
  BY <1>0 DEF TypeOK, Call
<1>2. Apart => Disjoint(Ports(db')) /\ Disjoint(PlanePorts)'
  <2>1. ASSUME Apart, plane' = Rebuilt(p) PROVE Disjoint(PlanePorts)'
    <3>1. Applying(p) \in Tables /\ Disjoint(Ports(Applying(p)))
      BY <1>0, <1>1, <2>1 DEF Applying, Apart
    <3> QED
      BY <2>1, <3>1, ChainsApart DEF Rebuilt
  <2>2. UNCHANGED plane \/ plane' = Rebuilt(p)
    BY DEF Sync, SyncStruct, SyncStructFails, SyncElems, SyncElemsFails, KeepStores
  <2>3. UNCHANGED plane /\ Apart => Disjoint(PlanePorts)'
    BY PlaneApart DEF Apart
  <2> QED
    BY <1>0, <2>1, <2>2, <2>3 DEF Apart
<1>3. CASE Return(p)
  <2>1. KInv' /\ \A q \in Procs : ~Held(q)'
    BY <1>0, <1>3, ReturnKept
  <2> QED
    BY <1>2, <2>1 DEF Apart, Disjoint, Ports
<1>4. ASSUME NEW pc \in {"elems", "undoElems", "commit", "cleanup", "undo"}, Goto(p, pc), KeepLocks,
             pc = "elems" => ctx[p].pc = "apply",
             pc = "cleanup" => ctx[p].kind = "create" /\ ctx[p].pc \in {"apply", "elems"},
             pc = "commit" => ctx[p].kind # "create",
             p = Reconciler => pc = "elems"
      PROVE  KInv' /\ (Apart => Apart')
  <2>1. /\ ctx'[p].pc = pc /\ ctx'[p].kind = ctx[p].kind /\ ctx'[p].ids = ctx[p].ids
        /\ ctx'[p].next = ctx[p].next /\ ctx'[p].prev = ctx[p].prev
    BY <1>0, <1>4 DEF Goto, TypeOK, Call
  <2>2. \A i \in ctx[p].ids : KeptRow(p, i)'
    BY <1>0, <1>4, <2>1 DEF Kept, KeptRow, Same
  <2>3. \A i \in Ids \ ctx[p].ids : Same(db'[i], db[i])
    BY <1>0 DEF Same
  <2>4. pc \in Holding /\ pc # "insert"
    BY DEF Holding
  <2>5. KInv' /\ \A q \in Procs : Held(q)' => q = p /\ ctx'[q].next = ctx[q].next /\ ctx'[q].prev = ctx[q].prev
    BY <1>0, <1>4, <2>2, <2>3, <2>4, GotoKept
  <2> QED
    BY <1>0, <1>2, <2>5 DEF Apart, Disjoint, Ports
<1>5. CASE SyncStruct(p)
  <2>1. CASE ctx[p].pc = "apply"
    BY <1>4, <1>5, <2>1 DEF SyncStruct
  <2>2. CASE ctx[p].pc = "undo"
    <3>1. p # Reconciler
      BY <1>0, <2>2 DEF Fits
    <3> QED
      BY <1>4, <1>5, <2>2, <3>1 DEF SyncStruct
  <2> QED
    BY <1>5, <2>1, <2>2 DEF SyncStruct
<1>6. CASE SyncElems(p)
  <2>1. Return(p) \/ (Goto(p, "commit") /\ KeepLocks /\ ctx[p].kind \notin {"create", "reconcile"})
    BY <1>6 DEF SyncElems
  <2>2. ctx[p].kind # "reconcile" => p # Reconciler
    BY <1>0 DEF Fits
  <2> QED
    BY <1>3, <1>4, <2>1, <2>2
<1>7. CASE Fail(p)
  <2>1. ASSUME ~Return(p)
        PROVE  /\ Goto(p, Failed(p)) /\ KeepLocks /\ p # Reconciler
               /\ Failed(p) = IF ctx[p].kind = "create" THEN "cleanup" ELSE "undo"
               /\ ctx[p].pc \in {"apply", "elems"}
    BY <1>0, <1>7, <2>1 DEF Fail, Failed, Fits
  <2> QED
    BY <1>3, <1>4, <2>1
<1> QED
  BY <1>5, <1>6, <1>7 DEF Sync, SyncStructFails, SyncElemsFails

\* What is written has the state and the sockets of the candidate row, or of the row as it was.
LEMMA CommitKept ==
    ASSUME KInv, TypeOK', NEW p \in Writers, CommitRow(p)
    PROVE  KInv' /\ (Apart => Apart')
<1>0. p \in Procs /\ Held(p) /\ TypeOK /\ Kept(p) /\ Fits(p) /\ ctx[p].pc = "commit" /\ p # Reconciler
      /\ ctx[p].kind \in {"update", "delete", "dns"}
  BY ProcAssumption DEF Writers, Procs, Held, Holding, KInv, Locks, Remembered, CommitRow, Fits
<1> DEFINE next == ctx[p].next
           ids  == ctx[p].ids
<1>1. next \in Tables /\ ids \subseteq Ids /\ db \in Tables
  BY <1>0 DEF TypeOK, Call
<1>2. Disjoint(PlanePorts) => Disjoint(PlanePorts)'
  BY PlaneApart DEF CommitRow
<1>3. CASE Return(p)
  <2>1. KInv' /\ \A q \in Procs : ~Held(q)'
    BY <1>0, <1>3, ReturnKept
  <2>2. ASSUME Apart PROVE Disjoint(Ports(db'))
    <3>1. CASE UNCHANGED db
      BY <2>2, <3>1 DEF Apart
    <3>2. CASE db' = [i \in Ids |-> IF i \in ids THEN Written(p, i) ELSE db[i]] /\ ctx[p].kind = "dns"
      <4>1. \A i \in Ids : Same(db'[i], db[i])
        <5> SUFFICES ASSUME NEW i \in Ids PROVE Same(db'[i], db[i])
          OBVIOUS
        <5>1. db[i] \in Row
          BY <1>1 DEF Tables
        <5>2. db'[i] = db[i] \/ db'[i] = [db[i] EXCEPT !.addr = next[i].addr]
          BY <3>2 DEF Written
        <5> QED
          BY <5>1, <5>2 DEF Row, Same
      <4> QED
        BY <2>2, <4>1, SameApart DEF Apart
    <3>3. CASE db' = [i \in Ids |-> IF i \in ids THEN Written(p, i) ELSE db[i]] /\ ctx[p].kind # "dns"
      <4>1. ASSUME NEW i \in Ids PROVE db'[i] = Gone \/ Same(db'[i], next[i])
        <5>1. CASE i \notin ids
          BY <1>0, <3>3, <5>1 DEF Kept, Asked, Same
        <5>2. CASE i \in ids
          <6>1. next[i] \in Row
            BY <1>1 DEF Tables
          <6>2. db'[i] = Gone \/ db'[i] = [next[i] EXCEPT !.rev = clock]
            BY <1>0, <3>3, <5>2 DEF Written
          <6> QED
            BY <6>1, <6>2 DEF Row, Same
        <5> QED
          BY <5>1, <5>2
      <4>2. \A i \in Ids : db'[i].st = "live" => next[i].st = "live" /\ db'[i].listen = next[i].listen
        BY <4>1 DEF Same, Gone, Blank
      <4> QED
        BY <1>0, <2>2, <4>2, ApartSub DEF Apart
    <3> QED
      BY <3>1, <3>2, <3>3 DEF CommitRow
  <2> QED
    BY <1>2, <2>1, <2>2 DEF Apart, Disjoint, Ports
<1>4. CASE Goto(p, "undo") /\ KeepLocks /\ UNCHANGED db
  <2>1. ctx'[p].kind = ctx[p].kind /\ ctx'[p].prev = ctx[p].prev
    BY <1>0, <1>4 DEF Goto, TypeOK, Call
  <2>2. \A i \in ids : KeptRow(p, i)'
    BY <1>0, <1>4, <2>1 DEF Kept, KeptRow, Same
  <2>3. \A i \in Ids \ ids : Same(db'[i], db[i])
    BY <1>4 DEF Same
  <2>4. "undo" \in Holding
    BY DEF Holding
  <2>5. KInv' /\ \A q \in Procs : Held(q)' => q = p /\ ctx'[q].next = ctx[q].next /\ ctx'[q].prev = ctx[q].prev
    BY <1>0, <1>4, <2>2, <2>3, <2>4, GotoKept
  <2> QED
    BY <1>0, <1>2, <1>4, <2>5 DEF Apart, Disjoint, Ports
<1> QED
  BY <1>3, <1>4 DEF CommitRow

LEMMA HardDeleteKept ==
    ASSUME KInv, TypeOK', NEW c \in Clients, HardDelete(c)
    PROVE  KInv' /\ (Apart => Apart')
<1>0. c \in Procs /\ Held(c) /\ TypeOK /\ Kept(c) /\ ctx[c].kind = "create" /\ c # Reconciler
  BY ProcAssumption DEF Procs, Held, Holding, HardDelete, KInv, Locks, Remembered, Fits
<1>1. Goto(c, "undo") /\ KeepLocks /\ "undo" \in Holding /\ UNCHANGED plane
  BY DEF HardDelete, Holding
<1>2. \A i \in Ids : db'[i] = db[i] \/ (db'[i] = Gone /\ i \in ctx[c].ids)
  BY DEF HardDelete
<1>3. ctx'[c].pc = "undo" /\ ctx'[c].kind = "create"
  BY <1>0, <1>1 DEF Goto, TypeOK, Call
<1>4. \A i \in ctx[c].ids : KeptRow(c, i)'
  BY <1>3 DEF KeptRow
<1>5. KInv' /\ \A q \in Procs : Held(q)' => q = c /\ ctx'[q].next = ctx[q].next /\ ctx'[q].prev = ctx[q].prev
  BY <1>0, <1>1, <1>2, <1>4, GotoKept DEF Same
<1>6. Apart => Disjoint(Ports(db')) /\ Disjoint(PlanePorts)'
  BY <1>1, <1>2, ApartSub, PlaneApart DEF Apart, Gone, Blank
<1> QED
  BY <1>0, <1>5, <1>6 DEF Apart, Disjoint, Ports

LEMMA LoadKept ==
    ASSUME KInv, TypeOK', NEW c \in Clients, LoadCall(c)
    PROVE  KInv' /\ (Apart => Apart')
<1>0. c \in Procs /\ TypeOK
  BY DEF Procs, KInv
<1>1. PICK kind \in {"create", "update", "delete"}, ids \in SUBSET Ids, next \in Tables :
        Asks(c, kind, ids, next)
  BY <1>0, LoadCallFacts
<1> DEFINE pc == IF kind = "create" THEN "insert" ELSE "apply"
<1>2. Begin(c, pc, kind, ids, next) /\ ctx[c].pc = "locked" /\ runMu = None /\ runMu' = c
      /\ UNCHANGED <<mu, db, plane>> /\ Asked(kind, ids, next, db)
      /\ (Disjoint(Ports(db)) => Disjoint(Ports(next)))
  BY <1>1 DEF Asks, Load, KeepStores
<1>3. ctx'[c].pc = pc /\ ctx'[c].kind = kind
  BY <1>0, <1>2 DEF Begin, TypeOK
<1>4. Fits(c)' /\ pc \in {"insert", "apply", "commit"} /\ (kind = "create" => pc = "insert")
  BY <1>3, ProcAssumption DEF Fits
<1> HIDE DEF pc
<1>5. KInv' /\ ctx'[c].next = next /\ ctx'[c].prev = db /\ \A q \in Procs : Held(q)' => q = c
  BY <1>0, <1>2, <1>4, BeginKept
<1>6. Disjoint(PlanePorts) => Disjoint(PlanePorts)'
  BY <1>2, PlaneApart
<1> QED
  BY <1>2, <1>5, <1>6 DEF Apart, Disjoint, Ports

LEMMA DnsLoadKept ==
    ASSUME KInv, TypeOK', DnsLoad
    PROVE  KInv' /\ (Apart => Apart')
<1>0. Dns \in Procs /\ Dns \in Writers /\ TypeOK /\ ctx[Dns].pc = "locked" /\ runMu = None
      /\ UNCHANGED <<db, plane>>
  BY DEF Procs, Writers, KInv, DnsLoad, KeepStores
<1> DEFINE keep == {j \in dns.done : Usable(j)}
           ids  == {j.id : j \in keep}
           addr(i) == (CHOOSE j \in keep : j.id = i).addr
           next == [i \in Ids |-> IF i \in ids THEN [db[i] EXCEPT !.addr = addr(i)] ELSE db[i]]
           pc   == IF Changed(ids, next, db) THEN "apply" ELSE "commit"
<1>1. ASSUME NEW i \in ids
      PROVE  i \in Ids /\ db[i] \in Row /\ db[i].st = "live" /\ db[i].target \in Hosts
  <2>1. PICK j \in keep : j.id = i
    BY <1>1
  <2>2. j \in Job /\ Usable(j)
    BY <1>0 DEF TypeOK
  <2> QED
    BY <1>0, <2>1, <2>2 DEF Job, Usable, TypeOK, Tables
<1> HIDE DEF keep, ids, addr
<1>2. /\ \A i \in ids : /\ next[i] = [db[i] EXCEPT !.addr = next[i].addr] /\ next[i].st = "live"
                        /\ next[i].listen = db[i].listen
      /\ \A i \in Ids \ ids : next[i] = db[i]
  BY <1>1 DEF Row
<1>3. Disjoint(PlanePorts) => Disjoint(PlanePorts)'
  BY <1>0, PlaneApart
<1>4. CASE Return(Dns)
  <2>1. KInv' /\ \A q \in Procs : ~Held(q)'
    BY <1>0, <1>4, ReturnKept
  <2> QED
    BY <1>0, <1>3, <2>1 DEF Apart, Disjoint, Ports
<1>5. CASE runMu' = Dns /\ UNCHANGED <<mu, dns>> /\ Begin(Dns, pc, "dns", ids, next)
  <2> HIDE DEF next
  <2>1. Asked("dns", ids, next, db)
    BY <1>1, <1>2 DEF Asked
  <2>2. pc \in {"insert", "apply", "commit"} /\ pc # "insert"
    OBVIOUS
  <2> HIDE DEF pc
  <2>3. ctx'[Dns].pc = pc /\ ctx'[Dns].kind = "dns"
    BY <1>0, <1>5 DEF Begin, TypeOK
  <2>4. Fits(Dns)'
    BY <2>2, <2>3, ProcAssumption DEF Fits
  <2>5. KInv' /\ ctx'[Dns].next = next /\ ctx'[Dns].prev = db /\ \A q \in Procs : Held(q)' => q = Dns
    BY <1>0, <1>5, <2>1, <2>2, <2>4, BeginKept
  <2>6. Disjoint(Ports(db)) => Disjoint(Ports(next))
    <3>1. \A i \in Ids : next[i].st = "live" => db[i].st = "live" /\ next[i].listen = db[i].listen
      BY <1>1, <1>2
    <3> QED
      BY <3>1, ApartSub
  <2> QED
    BY <1>0, <1>3, <2>5, <2>6 DEF Apart, Disjoint, Ports
<1> QED
  BY <1>4, <1>5 DEF DnsLoad, next, ids, keep, addr

\* RefreshDNS before it takes a lock, the clearing of columns included.
LEMMA DnsOutsideKept ==
    ASSUME KInv, TypeOK', DnsSnapshot \/ DnsClear \/ DnsLock
    PROVE  KInv' /\ (Apart => Apart')
<1>0. Dns \in Writers /\ Dns \in Procs /\ Dns \notin Clients /\ TypeOK
  BY ProcAssumption DEF Writers, Procs, KInv
<1>1. ~Held(Dns) /\ UNCHANGED <<plane, runMu>> /\ (mu' = mu \/ mu = None)
  BY DEF Held, Holding, DnsSnapshot, DnsClear, DnsLock, KeepStores
<1>2. /\ \A q \in Procs \ {Dns} : ctx'[q] = ctx[q]
      /\ ctx'[Dns].pc \notin Holding /\ (ctx'[Dns].pc = "locked" => mu' = Dns)
  <2>1. CASE UNCHANGED ctx
    BY <1>1, <2>1 DEF Held, DnsSnapshot, DnsClear, DnsLock
  <2>2. CASE ctx' = [ctx EXCEPT ![Dns] = IdleCall]
    BY <1>0, <2>2 DEF TypeOK, IdleCall, Holding
  <2>3. ASSUME NEW pc \in {"clear", "resolve", "locked"}, Goto(Dns, pc), pc = "locked" => mu' = Dns
        PROVE  <1>2!1 /\ <1>2!2
    BY <1>0, <2>3 DEF Goto, TypeOK, Call, Holding
  <2> QED
    BY <2>1, <2>2, <2>3 DEF DnsSnapshot, DnsClear, DnsLock
<1>3. \A i \in Ids : Same(db'[i], db[i])
  <2>1. CASE UNCHANGED db
    BY <2>1 DEF Same
  <2>2. ASSUME NEW i \in Ids, db' = [db EXCEPT ![i].addr = NoAddr] PROVE \A j \in Ids : Same(db'[j], db[j])
    <3>1. db \in Tables /\ db[i] \in Row
      BY <1>0 DEF TypeOK, Tables
    <3> QED
      BY <2>2, <3>1 DEF Tables, Row, Same
  <2>3. dns.clear \subseteq Ids
    BY <1>0 DEF TypeOK
  <2> QED
    BY <2>1, <2>2, <2>3 DEF DnsSnapshot, DnsClear, DnsLock, KeepStores
<1>4. KInv' /\ \A q \in Procs : Held(q)' => Held(q) /\ ctx'[q] = ctx[q]
  BY <1>0, <1>1, <1>2, <1>3, OutsideKept
<1>5. (Disjoint(Ports(db)) => Disjoint(Ports(db'))) /\ (Disjoint(PlanePorts) => Disjoint(PlanePorts)')
  BY <1>1, <1>3, SameApart, PlaneApart
<1> QED
  BY <1>4, <1>5 DEF Apart, Disjoint, Ports

LEMMA NextKept == KInv /\ [Next]_vars => KInv' /\ (Apart => Apart')
<1> SUFFICES ASSUME KInv, [Next]_vars PROVE KInv' /\ (Apart => Apart')
  OBVIOUS
<1>0. TypeOK' /\ TypeOK /\ Locks
  BY NextType DEF KInv
<1>q. ASSUME UNCHANGED <<db, mu, runMu, ctx>>,
             \A i \in Ids : plane'[i].up => plane[i].up /\ plane'[i].listen = plane[i].listen
      PROVE  KInv' /\ (Apart => Apart')
  <2>1. KInv' /\ \A q \in Procs : Held(q)' => Held(q) /\ ctx'[q] = ctx[q]
    BY <1>0, <1>q, QuietKept
  <2> QED
    BY <1>q, <2>1, PlaneApart DEF Apart, Disjoint, Ports
<1>r. ASSUME NEW p \in Procs, Return(p), runMu = None, UNCHANGED <<db, plane>>
      PROVE  KInv' /\ (Apart => Apart')
  <2>1. KInv' /\ \A q \in Procs : ~Held(q)'
    BY <1>0, <1>r, ReturnKept
  <2> QED
    BY <1>r, <2>1, PlaneApart DEF Apart, Disjoint, Ports
<1>1. ASSUME NEW c \in Clients, AcquireMu(c) PROVE KInv' /\ (Apart => Apart')
  <2>1. c \in Writers /\ c \in Procs /\ ~Held(c) /\ UNCHANGED <<db, plane, runMu>> /\ mu = None /\ mu' = c
    BY <1>1 DEF Writers, Procs, Held, Holding, AcquireMu, KeepStores
  <2>2. ctx'[c].pc = "locked" /\ \A q \in Procs \ {c} : ctx'[q] = ctx[q]
    BY <1>0, <1>1, <2>1 DEF AcquireMu, Goto, TypeOK, Call
  <2>3. KInv' /\ \A q \in Procs : Held(q)' => Held(q) /\ ctx'[q] = ctx[q]
    BY <1>0, <2>1, <2>2, OutsideKept DEF Holding, Same
  <2> QED
    BY <2>1, <2>3, PlaneApart DEF Apart, Disjoint, Ports
<1>2. ASSUME NEW c \in Clients, ClientStep(c) PROVE KInv' /\ (Apart => Apart')
  <2>1. c \in Procs
    BY DEF Procs
  <2> QED
    BY <1>0, <1>2, <1>r, <2>1, LoadKept, InsertKept, HardDeleteKept DEF ClientStep, Reject, KeepStores
<1>3. ASSUME NEW p \in Procs, Sync(p) PROVE KInv' /\ (Apart => Apart')
  BY <1>0, <1>3, SyncKept
<1>4. ASSUME NEW p \in Clients \cup {Dns}, CommitRow(p) PROVE KInv' /\ (Apart => Apart')
  BY <1>0, <1>4, CommitKept DEF Writers
<1>5. CASE DnsSnapshot \/ DnsStep
  <2>1. CASE DnsSnapshot \/ DnsClear \/ DnsLock
    BY <1>0, <2>1, DnsOutsideKept
  <2>2. CASE DnsResolve
    BY <1>q, <2>2 DEF DnsResolve, KeepStores
  <2>3. CASE DnsLoad
    BY <1>0, <2>3, DnsLoadKept
  <2>4. CASE DnsLoadFails
    BY <1>r, <2>4 DEF DnsLoadFails, KeepStores, Procs
  <2> QED
    BY <1>5, <2>1, <2>2, <2>3, <2>4 DEF DnsStep
<1>6. CASE ReconcileStart
  <2>1. Reconciler \in Procs /\ Reconciler \notin Writers
    BY ProcAssumption DEF Procs, Writers
  <2>2. Begin(Reconciler, "apply", "reconcile", {}, db) /\ runMu = None /\ runMu' = Reconciler
        /\ UNCHANGED <<mu, db, plane>>
    BY <1>6 DEF ReconcileStart, KeepStores
  <2>3. ctx'[Reconciler].pc = "apply" /\ ctx'[Reconciler].kind = "reconcile"
    BY <1>0, <2>1, <2>2 DEF Begin, TypeOK
  <2>4. Fits(Reconciler)' /\ Asked("reconcile", {}, db, db)
    BY <2>3, ProcAssumption DEF Fits, Asked
  <2>5. KInv' /\ ctx'[Reconciler].next = db /\ ctx'[Reconciler].prev = db
        /\ \A q \in Procs : Held(q)' => q = Reconciler
    BY <1>0, <2>1, <2>2, <2>4, BeginKept
  <2> QED
    BY <2>2, <2>5, PlaneApart DEF Apart, Disjoint, Ports
<1>7. CASE Crash
  <2>1. \A q \in Procs : ctx'[q].pc = "idle"
    BY <1>7 DEF Crash, IdleCall
  <2>2. Locks' /\ \A q \in Procs : ~Held(q)'
    BY <1>7, <2>1, ProcAssumption DEF Crash, Locks, Held, Holding, Procs, Writers
  <2>3. \A i \in Ids : plane'[i].up => plane[i].up /\ plane'[i].listen = plane[i].listen
    BY <1>7 DEF Crash, Down
  <2> QED
    BY <1>0, <1>7, <2>2, <2>3, PlaneApart DEF Crash, KInv, Remembered, Apart, Disjoint, Ports
<1>8. CASE Tamper
  <2>1. PICK i \in Ids, t \in Literals :
          plane' = [plane EXCEPT ![i] = IF t = @.dial.host THEN Down
                                        ELSE [@ EXCEPT !.dial = [host |-> t, gen |-> 0]]]
          /\ plane[i].up
    BY <1>8 DEF Tamper
  <2>2. \A j \in Ids : plane'[j].up => plane[j].up /\ plane'[j].listen = plane[j].listen
    BY <1>0, <2>1 DEF TypeOK, Chain, Down
  <2> QED
    BY <1>8, <1>q, <2>2 DEF Tamper
<1>9. CASE Tick \/ ZoneChange \/ UNCHANGED vars
  BY <1>9, <1>q DEF Tick, ZoneChange, KeepStores, vars
<1> QED
  BY <1>1, <1>2, <1>3, <1>4, <1>5, <1>6, <1>7, <1>8, <1>9 DEF Next, Environment

LEMMA InitKept == Init => KInv /\ (PortsDisjoint => Apart)
<1> SUFFICES ASSUME Init PROVE KInv /\ (PortsDisjoint => Apart)
  OBVIOUS
<1>1. \A p \in Procs : ~Held(p) /\ ctx[p].pc = "idle"
  BY DEF Init, IdleCall, Held, Holding
<1>2. Locks
  BY <1>1, ProcAssumption DEF Locks, Init, Procs, Writers
<1> QED
  BY <1>1, <1>2, InitType DEF KInv, Remembered, Apart, PortsDisjoint

LEMMA Memory == Spec => []KInv
  BY InitKept, NextKept, PTL DEF Spec

-----------------------------------------------------------------------------
(* The properties.                                                         *)

\* Between calls the kernel forwards exactly the enabled rows of the table,
\* unless a failure the code can only log still waits for a good sync.
THEOREM Enforced == ASSUME LegacyIds = {} PROVE Spec => []EnforcedMatchesDB
<1>1. IInv => EnforcedMatchesDB
  BY DEF IInv, Planes, EnforcedMatchesDB
<1> QED
  BY <1>1, Invariance, PTL

\* No socket is in two live rows, nor in two rules the kernel holds, nor is a
\* reserved one in any, in the middle of calls and after crashes included: always if it
\* was so at the start, whatever rows were inherited.
THEOREM PortsStaySafe == Spec /\ PortsDisjoint => []PortsDisjoint
<1>1. KInv /\ Apart => PortsDisjoint
  BY DEF Apart, PortsDisjoint
<1> QED
  BY <1>1, InitKept, NextKept, PTL DEF Spec

\* Without inherited rows it was so at the start.
THEOREM PortsSafe == ASSUME LegacyIds = {} PROVE Spec => []PortsDisjoint
<1>1. Init => PortsDisjoint
  BY InitInv DEF IInv, Sound, Good, PortsDisjoint
<1> QED
  BY <1>1, PortsStaySafe, PTL DEF Spec

\* A rule on a domain has an address, and one that answered this very domain.
THEOREM AddressSound == ASSUME LegacyIds = {} PROVE Spec => []AddrMatchesHost
<1>1. IInv => AddrMatchesHost
  BY DEF IInv, Sound, Good, Matched, AddrMatchesHost
<1> QED
  BY <1>1, Invariance, PTL

\* A row whose call is under way is not a deleted one, but for the row of a
\* Create that is being undone.
LEMMA GoneNotApplied ==
    ASSUME KInv, NEW p \in Procs, ctx[p].pc \in {"apply", "undo"}, NEW i \in Ids, db[i].st = "gone"
    PROVE  ~Rebuilt(p)[i].up
<1>1. Held(p) /\ Kept(p) /\ Fits(p)
  BY DEF Held, Holding, KInv, Remembered, Locks
<1>2. ctx[p].kind \in {"create", "update", "delete", "dns", "reconcile"}
  BY <1>1 DEF Fits, Procs
<1>3. Applying(p)[i].st # "live"
  <2>1. CASE i \notin ctx[p].ids
    BY <1>1, <2>1 DEF Kept, Same, Asked, Applying
  <2>2. CASE i \in ctx[p].ids /\ ctx[p].kind = "create"
    BY <1>1, <2>2 DEF Kept, KeptRow, Same, Asked, Applying
  <2>3. CASE i \in ctx[p].ids /\ ctx[p].kind # "create"
    BY <1>1, <1>2, <2>3 DEF Kept, KeptRow, Same, Asked
  <2> QED
    BY <2>1, <2>2, <2>3
<1> QED
  BY <1>3 DEF Rebuilt, Desired, ChainOf, Down

LEMMA StepStaysDown == KInv /\ [Next]_vars => StaysDown
<1> SUFFICES ASSUME KInv, [Next]_vars, NEW i \in Ids, db[i].st = "gone"
             PROVE  db'[i].st = "gone" /\ (plane'[i].up => plane[i].up)
  BY DEF StaysDown
<1>1. ASSUME NEW c \in Clients, InsertRow(c) PROVE db'[i] = db[i] /\ UNCHANGED plane
  <2>1. c \in Procs /\ Held(c) /\ Kept(c) /\ ctx[c].kind = "create" /\ db \in Tables
    BY <1>1 DEF Procs, Held, Holding, InsertRow, KInv, Locks, Remembered, Fits, TypeOK
  <2>2. \A j \in ctx[c].ids : db[j].st = "free"
    BY <1>1, <2>1 DEF InsertRow, Kept, KeptRow
  <2> QED
    BY <1>1, <2>1, <2>2 DEF InsertRow, Tables
<1>2. ASSUME NEW c \in Clients, HardDelete(c) PROVE db'[i].st = "gone" /\ UNCHANGED plane
  BY <1>2 DEF HardDelete, Gone, Blank
<1>3. ASSUME NEW p \in Procs, Sync(p)
      PROVE  UNCHANGED db /\ (plane'[i].up => plane[i].up)
  <2>1. ctx[p].pc \in {"apply", "undo"} => ~Rebuilt(p)[i].up
    BY GoneNotApplied
  <2> QED
    BY <1>3, <2>1 DEF Sync, SyncStruct, SyncStructFails, SyncElems, SyncElemsFails, KeepStores
<1>4. ASSUME NEW p \in Clients \cup {Dns}, CommitRow(p) PROVE db'[i] = db[i] /\ UNCHANGED plane
  <2>1. p \in Procs /\ Held(p) /\ Kept(p) /\ ctx[p].kind \in {"update", "delete", "dns"}
    BY <1>4, ProcAssumption DEF Procs, Held, Holding, CommitRow, KInv, Locks, Remembered, Fits
  <2>2. \A j \in ctx[p].ids : db[j].st = "live"
    BY <2>1 DEF Kept, KeptRow, Same, Asked
  <2> QED
    BY <1>4, <2>2 DEF CommitRow
<1>5. ASSUME NEW c \in Clients, AcquireMu(c) \/ LoadCall(c) \/ Reject(c) PROVE UNCHANGED <<db, plane>>
  BY <1>5 DEF AcquireMu, LoadCall, LoadCreate, LoadUpdate, LoadPolicy, LoadDelete, Load, Reject, KeepStores
<1>6. CASE DnsSnapshot \/ DnsStep \/ ReconcileStart
  <2>1. DnsClear => UNCHANGED plane /\ db'[i] = db[i]
    BY DEF DnsClear, KInv, TypeOK, Tables
  <2> QED
    BY <1>6, <2>1 DEF DnsSnapshot, DnsStep, DnsResolve, DnsLock, DnsLoad, DnsLoadFails,
       ReconcileStart, KeepStores
<1>7. CASE Crash
  BY <1>7 DEF Crash, Down
<1>8. CASE Tamper
  <2>1. PICK j \in Ids, t \in Literals :
          plane[j].up
          /\ plane' = [plane EXCEPT ![j] = IF t = @.dial.host THEN Down
                                           ELSE [@ EXCEPT !.dial = [host |-> t, gen |-> 0]]]
    BY <1>8 DEF Tamper
  <2>2. plane'[i].up => plane[i].up
    BY <2>1 DEF KInv, TypeOK
  <2> QED
    BY <1>8, <2>2 DEF Tamper
<1>9. CASE Tick \/ ZoneChange \/ UNCHANGED vars
  BY <1>9 DEF Tick, ZoneChange, KeepStores, vars
<1> QED
  BY <1>1, <1>2, <1>3, <1>4, <1>5, <1>6, <1>7, <1>8, <1>9 DEF Next, ClientStep, Environment

\* A deleted row stays deleted, and nobody's sync makes the kernel forward for
\* it again, whichever rule set it works with.
THEOREM DeletedForGood == Spec => DeletedStaysDown
  BY Memory, StepStaysDown, PTL DEF Spec, DeletedStaysDown

LEMMA StepUndone == IInv /\ [Next]_vars => Undone
<1> SUFFICES ASSUME IInv, [Next]_vars, NEW c \in Clients, GivesUp(c), suspect' = {}
             PROVE  Live(db') = Live(ctx[c].prev) /\ plane' = Desired(ctx[c].prev)
  BY DEF Undone
<1>0. c \in Procs /\ Held(c) /\ Tied(c) /\ Fits(c) /\ TypeOK /\ ctx[c].pc \in {"insert", "undoElems"}
      /\ ctx'[c].pc = "idle" /\ ctx[c].prev \in Tables /\ ctx[c].ids \subseteq Ids
  BY DEF Procs, GivesUp, Held, Holding, IInv, Locks, Ties, TypeOK, Call
<1>1. ASSUME UNCHANGED <<db, plane, suspect>>
      PROVE  Live(db') = Live(ctx[c].prev) /\ plane' = Desired(ctx[c].prev)
  <2>1. plane = Desired(ctx[c].prev)
    BY <1>0, <1>1 DEF IInv, Planes, PlaneAt
  <2>2. \A i \in Ids : (db[i].st = "live" <=> ctx[c].prev[i].st = "live")
                       /\ (db[i].st = "live" => db[i] = ctx[c].prev[i])
    <3>1. CASE ctx[c].kind # "create" \/ ctx[c].pc = "insert"
      BY <1>0, <3>1, HolderTable
    <3>2. CASE ctx[c].kind = "create" /\ ctx[c].pc = "undoElems"
      <4>1. \A i \in ctx[c].ids : db[i] = Gone /\ ctx[c].prev[i].st = "free"
        BY <1>0, <1>1, <3>2 DEF Tied, Created, Asked
      <4> QED
        BY <1>0, <4>1 DEF Tied, Gone, Blank
    <3> QED
      BY <1>0, <3>1, <3>2
  <2>3. Live(db) = Live(ctx[c].prev)
    BY <2>2 DEF Live
  <2> QED
    BY <1>1, <2>1, <2>3
<1>3. ASSUME NEW p \in Clients, AcquireMu(p) \/ LoadCall(p) \/ Reject(p) PROVE UNCHANGED <<db, plane, suspect>>
  BY <1>3 DEF AcquireMu, LoadCall, LoadCreate, LoadUpdate, LoadPolicy, LoadDelete, Load, Reject, KeepStores
<1>4. ASSUME NEW p \in Clients, InsertRow(p) PROVE UNCHANGED <<db, plane, suspect>>
  <2>1. p \in Procs /\ runMu = p /\ p = c
    BY <1>0, <1>4 DEF InsertRow, Procs, IInv, Locks, Held, Holding
  <2>2. ~Goto(p, "apply")
    BY <1>0, <2>1 DEF Goto, TypeOK, Call
  <2> QED
    BY <1>4, <2>2 DEF InsertRow
<1>5. ASSUME NEW p \in Clients, HardDelete(p) PROVE FALSE
  BY <1>0, <1>5 DEF HardDelete, Procs, IInv, Locks, Held, Holding
<1>6. ASSUME NEW p \in Procs, Sync(p) PROVE UNCHANGED <<db, plane, suspect>>
  <2>1. p = c
    BY <1>0, <1>6 DEF Sync, SyncStruct, SyncStructFails, SyncElems, SyncElemsFails, IInv, Locks, Held, Holding
  <2> QED
    BY <1>0, <1>6, <2>1 DEF Sync, SyncStruct, SyncStructFails, SyncElems, SyncElemsFails, KeepStores
<1>7. ASSUME NEW p \in Clients \cup {Dns}, CommitRow(p) PROVE FALSE
  <2>1. p \in Procs /\ Held(p)
    BY <1>7 DEF CommitRow, Held, Holding, Procs
  <2>2. p = c
    BY <1>0, <2>1 DEF IInv, Locks
  <2> QED
    BY <1>0, <1>7, <2>2 DEF CommitRow
<1>8. ASSUME DnsSnapshot \/ DnsStep \/ ReconcileStart PROVE UNCHANGED <<db, plane, suspect>>
  <2>1. ~DnsClear
    BY DEF DnsClear, IInv, Sound
  <2> QED
    BY <1>8, <2>1 DEF DnsSnapshot, DnsStep, DnsResolve, DnsLock, DnsLoad, DnsLoadFails,
       ReconcileStart, KeepStores
<1>9. CASE Crash \/ Tamper
  BY <1>9 DEF Crash, Tamper
<1>10. ASSUME Tick \/ ZoneChange \/ UNCHANGED vars PROVE UNCHANGED <<db, plane, suspect>>
  BY <1>10 DEF Tick, ZoneChange, KeepStores, vars
<1> QED
  BY <1>1, <1>3, <1>4, <1>5, <1>6, <1>7, <1>8, <1>9, <1>10 DEF Next, ClientStep, Environment

\* An API call that gives up leaves the table and the kernel as it found them,
\* unless a step of its rollback failed as well.
THEOREM RollbackExact == ASSUME LegacyIds = {} PROVE Spec => FailedCallUndone
  BY Invariance, StepUndone, PTL DEF Spec, FailedCallUndone

\* No row has columns left that are not its own, nobody is at work, and the kernel is
\* right or known not to be.
Tidy ==
    /\ runMu = None /\ ctx[Dns].pc = "idle" /\ dns = NoDns
    /\ \A i \in Ids : db[i].st = "live" => Matched(db[i])
    /\ suspect = {} => plane = Desired(db)

\* An installation that inherited rows behaves like any other from the first moment at
\* which a refresh has emptied their columns and no call is under way: table and kernel
\* agree, addresses are the domains' own, and failed calls leave no trace.
THEOREM OnceTidy ==
    Spec /\ PortsDisjoint =>
      [](Tidy => []EnforcedMatchesDB /\ []AddrMatchesHost /\ FailedCallUndone)
<1>1. KInv /\ Apart /\ Tidy => IInv
  <2> SUFFICES ASSUME KInv, Apart, Tidy PROVE IInv
    OBVIOUS
  <2>1. \A p \in Procs : ~Held(p)
    BY ProcAssumption DEF KInv, Locks, Tidy, Procs
  <2>2. Sound
    BY <2>1 DEF Sound, Good, Apart, Tidy, NoDns
  <2>3. Ties /\ Planes
    BY <2>1 DEF Ties, Planes, PlaneAt, Tidy, Held, Holding
  <2> QED
    BY <2>2, <2>3 DEF IInv, KInv
<1>2. IInv => EnforcedMatchesDB /\ AddrMatchesHost
  BY DEF IInv, Planes, EnforcedMatchesDB, Sound, Good, Matched, AddrMatchesHost
<1> QED
  BY <1>1, <1>2, InitKept, NextKept, NextInv, StepUndone, PTL DEF Spec, FailedCallUndone

-----------------------------------------------------------------------------
(* Calls are atomic: RuleSvc implements RuleTable.  A step changes the table *)
(* RuleTable sees when it commits a call, ends a Create or removes its row;   *)
(* every other step leaves it alone.                                          *)

\* A row as RuleTable sees it, when no Create is working on it.
Face(r) == IF r.st = "free" THEN Blank ELSE [r EXCEPT !.rev = 0]

LEMMA FaceFacts ==
    ASSUME NEW r \in Row
    PROVE  /\ Face(r).st = r.st
           /\ r.st # "free" => /\ Face(r).listen = r.listen /\ Face(r).target = r.target
                               /\ Face(r).addr = r.addr
           /\ r.st # "live" => ChainOf(Face(r)) = Down
           /\ ChainOf(Face(r)) = ChainOf(r)
  BY DEF Face, Row, Blank, ChainOf, Dial

LEMMA ShownRow ==
    /\ \A i \in Ids : Shown[i] = IF i \in Pending THEN Blank ELSE Face(db[i])
    /\ \A i \in Ids : Shown'[i] = IF i \in Pending' THEN Blank ELSE Face(db'[i])
  BY DEF Shown, Face

\* The row of the Create that holds the lock is the only one that is not shown.
PendingOf(p) == IF p \in Clients /\ ctx[p].kind = "create" /\ ctx[p].pc \in {"apply", "elems", "cleanup"}
                THEN ctx[p].ids ELSE {}
LEMMA PendingAt ==
    ASSUME TypeOK, Locks
    PROVE  /\ \A p \in Procs : Held(p) => Pending = PendingOf(p)
           /\ runMu = None => Pending = {}
<1>1. ASSUME NEW p \in Procs, Held(p) PROVE Pending = PendingOf(p)
  <2>1. \A c \in Clients : ctx[c].pc \in {"apply", "elems", "cleanup"} => c = p
    BY <1>1 DEF Locks, Held, Holding, Procs
  <2>2. p \in Clients => ctx[p].ids \subseteq Ids
    BY <1>1 DEF TypeOK, Call
  <2> QED
    BY <2>1, <2>2 DEF Pending, PendingOf
<1>2. ASSUME runMu = None PROVE Pending = {}
  BY <1>2, ProcAssumption DEF Pending, Locks, Held, Holding, Procs
<1> QED
  BY <1>1, <1>2
LEMMA PendingAtNext ==
    ASSUME TypeOK', Locks'
    PROVE  /\ \A p \in Procs : Held(p)' => Pending' = PendingOf(p)'
           /\ runMu' = None => Pending' = {}
<1>1. ASSUME NEW p \in Procs, Held(p)' PROVE Pending' = PendingOf(p)'
  <2>1. \A c \in Clients : ctx'[c].pc \in {"apply", "elems", "cleanup"} => c = p
    BY <1>1 DEF Locks, Held, Holding, Procs
  <2>2. p \in Clients => ctx'[p].ids \subseteq Ids
    BY <1>1 DEF TypeOK, Call
  <2> QED
    BY <2>1, <2>2 DEF Pending, PendingOf
<1>2. ASSUME runMu' = None PROVE Pending' = {}
  BY <1>2, ProcAssumption DEF Pending, Locks, Held, Holding, Procs
<1> QED
  BY <1>1, <1>2

\* While nothing is suspect the kernel holds what the shown table asks for.
LEMMA RuledFits ==
    ASSUME TypeOK', Locks', Planes', suspect' = {}
    PROVE  Ruled' = Desired(Shown)'
<1>1. CASE runMu' # None
  BY <1>1 DEF Ruled, Desired
<1>2. CASE runMu' = None
  <2>1. Pending' = {}
    BY <1>2, PendingAtNext
  <2>2. \A i \in Ids : db'[i] \in Row
    BY DEF TypeOK, Tables
  <2>3. \A i \in Ids : ChainOf(Shown'[i]) = ChainOf(db'[i])
    BY <2>1, <2>2, ShownRow, FaceFacts
  <2>4. Desired(Shown') = Desired(db')
    BY <2>3, SameChains
  <2> QED
    BY <1>2, <2>4 DEF Ruled, Planes, Desired
<1> QED
  BY <1>1, <1>2

LEMMA InitPromise == LegacyIds = {} /\ Init => Promise!Init
<1> SUFFICES ASSUME LegacyIds = {}, Init PROVE Promise!Init
  OBVIOUS
<1>1. \A i \in Ids : db[i] = Blank
  BY DEF Init, NoTable
<1>2. \A i \in Ids : Shown[i] = Blank
  <2>1. Face(Blank) = Blank
    BY DEF Face, Blank
  <2> QED
    BY <1>1, <2>1, ShownRow
<1>3. Desired(Shown) = Desired(db)
  BY <1>1, <1>2, SameChains
<1> QED
  BY <1>2, <1>3 DEF Promise!Init, Init, Ruled, Blank, Desired

\* A step that shows nothing is one of RuleTable's.
LEMMA Unseen ==
    ASSUME \A i \in Ids : Shown'[i] = Shown[i]
    PROVE  Promise!Change
  BY DEF Promise!Change, Promise!Refresh

LEMMA UnseenStep ==
    ASSUME UNCHANGED db, Pending' = Pending
    PROVE  Promise!Change
  BY ShownRow, Unseen

\* The row a Create has written comes into sight when the call ends, one way or
\* the other.
LEMMA CreateShows ==
    ASSUME IInv, UNCHANGED db, NEW i \in Ids, Pending = {i}, Pending' = {}, db[i].st = "live"
    PROVE  Promise!Change
<1>1. \A j \in Ids : db[j] \in Row
  BY DEF IInv, TypeOK, Tables
<1>2. Shown[i] = Blank /\ Shown'[i] = Face(db[i])
      /\ \A j \in Ids \ {i} : Shown[j] = Face(db[j]) /\ Shown'[j] = Face(db[j])
  BY ShownRow
<1>3. \A j \in Ids : /\ Face(db[j]).st = db[j].st
                     /\ db[j].st # "free" => /\ Face(db[j]).listen = db[j].listen
                                             /\ Face(db[j]).target = db[j].target
                                             /\ Face(db[j]).addr = db[j].addr
  BY <1>1, FaceFacts
<1>4. NoConflict(db, i, db[i].listen)
  BY OwnPorts DEF IInv, Sound
<1>5. Promise!OwnSockets(i)
  BY <1>2, <1>3, <1>4 DEF NoConflict, Promise!OwnSockets
<1>6. Promise!OwnAddress(i)
  BY <1>2, <1>3 DEF IInv, Sound, Good, Matched, Promise!OwnAddress
<1>7. Promise!Create(i)
  BY <1>2, <1>3, <1>5, <1>6 DEF Promise!Create, Promise!Only, Blank
<1> QED
  BY <1>7 DEF Promise!Change

\* The row of the Create that holds the lock.
LEMMA CreateRow ==
    ASSUME IInv, NEW p \in Procs, Held(p), ctx[p].kind = "create"
    PROVE  \E i \in Ids : /\ ctx[p].ids = {i}
                          /\ ctx[p].pc = "insert" => db[i].st = "free"
                          /\ ctx[p].pc \in {"apply", "elems", "cleanup"} => db[i].st = "live"
<1>1. Tied(p) /\ ctx[p].ids \subseteq Ids /\ ctx[p].next \in Tables
  BY DEF IInv, Ties, TypeOK, Call
<1>2. PICK i \in ctx[p].ids : ctx[p].ids = {i}
  BY <1>1 DEF Tied, Asked
<1>3. ctx[p].pc = "insert" => db[i].st = "free"
  BY <1>1, <1>2 DEF Tied, Asked, Created
<1>4. ASSUME ctx[p].pc \in {"apply", "elems", "cleanup"} PROVE db[i].st = "live"
  <2>1. db[i] = [ctx[p].next[i] EXCEPT !.rev = db[i].rev] /\ ctx[p].next[i].st = "live"
    BY <1>1, <1>2, <1>4 DEF Tied, Asked, Created
  <2>2. ctx[p].next[i] \in Row
    BY <1>1, <1>2 DEF Tables
  <2> QED
    BY <2>1, <2>2 DEF Row
<1> QED
  BY <1>1, <1>2, <1>3, <1>4

\* A step after which nothing is pending, and which leaves the table alone, shows
\* the row of a Create or nothing.
LEMMA EndShows ==
    ASSUME IInv, UNCHANGED db, Pending' = {}
    PROVE  Promise!Change
<1>1. TypeOK /\ Locks
  BY DEF IInv
<1>2. CASE Pending = {}
  BY <1>2, UnseenStep
<1>3. CASE Pending # {}
  <2>1. PICK c \in Clients : ctx[c].kind = "create" /\ ctx[c].pc \in {"apply", "elems", "cleanup"}
    BY <1>3 DEF Pending
  <2>2. c \in Procs /\ Held(c)
    BY <2>1 DEF Procs, Held, Holding
  <2>3. Pending = ctx[c].ids
    BY <1>1, <2>1, <2>2, PendingAt DEF PendingOf
  <2>4. PICK i \in Ids : ctx[c].ids = {i} /\ db[i].st = "live"
    BY <2>1, <2>2, CreateRow
  <2> QED
    BY <2>3, <2>4, CreateShows
<1> QED
  BY <1>2, <1>3

\* A step that moves no call in or out of a Create's middle keeps its row hidden.
LEMMA QuietStep ==
    ASSUME TypeOK, UNCHANGED db,
           \A c \in Clients : \/ UNCHANGED ctx[c]
                              \/ /\ ~(ctx[c].kind = "create" /\ ctx[c].pc \in {"apply", "elems", "cleanup"})
                                 /\ ~(ctx'[c].kind = "create" /\ ctx'[c].pc \in {"apply", "elems", "cleanup"})
                              \/ /\ ctx'[c].ids = ctx[c].ids /\ ctx'[c].kind = ctx[c].kind
                                 /\ ctx[c].pc \in {"apply", "elems", "cleanup"}
                                 /\ ctx'[c].pc \in {"apply", "elems", "cleanup"}
    PROVE  Promise!Change
<1>1. Pending' = Pending
  BY DEF Pending
<1> QED
  BY <1>1, UnseenStep

\* A row written ahead does not show.
LEMMA InsertShows == ASSUME IInv, TypeOK', NEW c \in Clients, InsertRow(c) PROVE Promise!Change
<1>0. /\ c \in Procs /\ Held(c) /\ ctx[c].kind = "create" /\ ctx[c].pc = "insert" /\ TypeOK /\ Locks
      /\ db \in Tables /\ ctx[c].next \in Tables
  BY DEF Procs, Held, Holding, InsertRow, IInv, Locks, Fits, TypeOK, Call
<1>1. Pending = {}
  BY <1>0, PendingAt DEF PendingOf
<1>2. IInv'
  BY InsertInv
<1>3. CASE Return(c) /\ UNCHANGED db
  <2>1. runMu' = None
    BY <1>0, <1>3 DEF Return, Locks
  <2>2. Pending' = {}
    BY <1>2, <2>1, PendingAtNext DEF IInv
  <2> QED
    BY <1>1, <1>3, <2>2, UnseenStep
<1>4. ASSUME NEW i \in ctx[c].ids, db' = [db EXCEPT ![i] = [ctx[c].next[i] EXCEPT !.rev = clock]],
             Goto(c, "apply")
      PROVE  Promise!Change
  <2>1. /\ ctx'[c].pc = "apply" /\ ctx'[c].kind = "create" /\ ctx'[c].ids = ctx[c].ids
    BY <1>0, <1>4 DEF Goto, TypeOK, Call
  <2>2. Pending' = ctx[c].ids
    BY <1>0, <1>2, <2>1, PendingAtNext DEF PendingOf, Held, Holding, IInv
  <2>3. ctx[c].ids = {i} /\ i \in Ids /\ db[i].st = "free"
    BY <1>0, <1>4, CreateRow
  <2>4. \A j \in Ids : Shown'[j] = Shown[j]
    <3>1. Face(db[i]) = Blank
      BY <2>3 DEF Face
    <3>2. \A j \in Ids \ {i} : db'[j] = db[j]
      BY <1>0, <1>4 DEF Tables
    <3> QED
      BY <1>1, <2>2, <2>3, <3>1, <3>2, ShownRow
  <2> QED
    BY <2>4, Unseen
<1> QED
  BY <1>3, <1>4 DEF InsertRow

\* The row of a failed Create never shows, or is left behind for all to see.
LEMMA HardDeleteShows == ASSUME IInv, TypeOK', NEW c \in Clients, HardDelete(c) PROVE Promise!Change
<1>0. /\ c \in Procs /\ Held(c) /\ ctx[c].kind = "create" /\ ctx[c].pc = "cleanup" /\ TypeOK /\ Locks
      /\ ctx'[c].pc = "undo" /\ Held(c)' /\ db \in Tables
  BY DEF Procs, Held, Holding, HardDelete, IInv, Locks, Fits, TypeOK, Call, Goto
<1>1. PICK i \in Ids : ctx[c].ids = {i} /\ db[i].st = "live"
  BY <1>0, CreateRow
<1>2. Pending = {i}
  BY <1>0, <1>1, PendingAt DEF PendingOf
<1>3. Pending' = {}
  <2>1. IInv'
    BY HardDeleteInv
  <2> QED
    BY <1>0, <2>1, PendingAtNext DEF PendingOf, IInv
<1>4. CASE UNCHANGED db
  BY <1>1, <1>2, <1>3, <1>4, CreateShows
<1>5. CASE db' = [j \in Ids |-> IF j \in ctx[c].ids THEN Gone ELSE db[j]]
  <2>1. db'[i] = Gone /\ \A j \in Ids \ {i} : db'[j] = db[j]
    BY <1>1, <1>5
  <2>2. Shown[i].st = "free" /\ Shown'[i].st = "gone"
    <3>1. Face(Gone).st = "gone" /\ Blank.st = "free"
      BY DEF Face, Gone, Blank
    <3> QED
      BY <1>2, <1>3, <2>1, <3>1, ShownRow
  <2>3. \A j \in Ids \ {i} : Shown'[j] = Shown[j]
    BY <1>2, <1>3, <2>1, ShownRow
  <2> QED
    BY <2>2, <2>3 DEF Promise!Change, Promise!Waste, Promise!Only
<1> QED
  BY <1>4, <1>5 DEF HardDelete

\* A commit shows as the edit, the deletion or the refresh that it is.
LEMMA CommitShows == ASSUME IInv, TypeOK', NEW p \in Writers, CommitRow(p) PROVE Promise!Change
<1>0. /\ p \in Procs /\ Held(p) /\ TypeOK /\ Locks /\ Tied(p) /\ Fits(p) /\ ctx[p].pc = "commit"
      /\ ctx[p].kind \in {"update", "delete", "dns"}
  BY ProcAssumption DEF Writers, Procs, Held, Holding, IInv, Locks, Ties, CommitRow, Fits
<1> DEFINE next == ctx[p].next
           prev == ctx[p].prev
           ids  == ctx[p].ids
<1>1. next \in Tables /\ ids \subseteq Ids /\ db \in Tables /\ db' \in Tables /\ db = prev
      /\ Asked(ctx[p].kind, ids, next, prev)
  BY <1>0, HolderTable DEF TypeOK, Call, Tied
<1>2. Pending = {}
  BY <1>0, PendingAt DEF PendingOf
<1>3. IInv'
  BY CommitInv
<1>4. Pending' = {}
  <2>1. CASE Return(p)
    <3>1. runMu' = None
      BY <1>0, <2>1 DEF Return, Locks
    <3> QED
      BY <1>3, <3>1, PendingAtNext DEF IInv
  <2>2. CASE Goto(p, "undo")
    <3>1. ctx'[p].pc = "undo"
      BY <1>0, <2>2 DEF Goto, TypeOK, Call
    <3> QED
      BY <1>0, <1>3, <3>1, PendingAtNext DEF PendingOf, Held, Holding, IInv
  <2> QED
    BY <2>1, <2>2 DEF CommitRow
<1>5. \A i \in Ids : Shown[i] = Face(db[i]) /\ Shown'[i] = Face(db'[i])
  BY <1>2, <1>4, ShownRow
<1>6. \A i \in Ids : db[i] \in Row /\ db'[i] \in Row /\ next[i] \in Row
  BY <1>1 DEF Tables
<1>7. \A i \in Ids :
        /\ Face(db[i]).st = db[i].st /\ Face(db'[i]).st = db'[i].st
        /\ db[i].st # "free" => /\ Face(db[i]).listen = db[i].listen
                                /\ Face(db[i]).target = db[i].target
                                /\ Face(db[i]).addr = db[i].addr
        /\ db'[i].st # "free" => /\ Face(db'[i]).listen = db'[i].listen
                                 /\ Face(db'[i]).target = db'[i].target
                                 /\ Face(db'[i]).addr = db'[i].addr
  BY <1>6, FaceFacts
<1>8. CASE UNCHANGED db
  BY <1>2, <1>4, <1>8, UnseenStep
<1>9. ASSUME db' = [i \in Ids |-> IF i \in ids THEN Written(p, i) ELSE db[i]]
      PROVE  Promise!Change
  <2>1. CASE ctx[p].kind = "update"
    <3>1. PICK i \in ids : ids = {i}
      BY <1>1, <2>1 DEF Asked
    <3>2. i \in Ids /\ \A j \in Ids \ {i} : db'[j] = db[j]
      BY <1>1, <1>9, <3>1
    <3>0. db'[i] = [next[i] EXCEPT !.rev = clock]
      BY <1>1, <1>9, <2>1, <3>1 DEF Written
    <3>3. /\ db[i].st = "live" /\ db'[i].st = "live" /\ db'[i].target = next[i].target
          /\ db'[i].addr = next[i].addr /\ db'[i].listen = next[i].listen
          /\ next[i].target = db[i].target => next[i].addr = db[i].addr
      BY <1>1, <1>6, <2>1, <3>0, <3>2 DEF Asked, Row
    <3>4. NoConflict(db', i, db'[i].listen) /\ Matched(db'[i])
      <4>1. Good(db')
        BY <1>3 DEF IInv, Sound, Good, Disjoint, Ports, Matched
      <4> QED
        BY <3>2, <3>3, <4>1, OwnPorts DEF Good
    <3>5. Promise!OwnSockets(i)
      BY <1>5, <1>7, <3>2, <3>3, <3>4 DEF NoConflict, Promise!OwnSockets
    <3>6. Promise!OwnAddress(i)
      BY <1>5, <1>7, <3>2, <3>3, <3>4 DEF Matched, Promise!OwnAddress
    <3>7. Promise!Edit(i)
      BY <1>5, <1>7, <3>2, <3>3, <3>5, <3>6 DEF Promise!Edit, Promise!Only
    <3> QED
      BY <3>2, <3>7 DEF Promise!Change
  <2>2. CASE ctx[p].kind = "delete"
    <3>1. PICK i \in ids : ids = {i}
      BY <1>1, <2>2 DEF Asked
    <3>2. db'[i] = Gone /\ (\A j \in Ids \ {i} : db'[j] = db[j]) /\ db[i].st = "live" /\ i \in Ids
      BY <1>1, <1>9, <2>2, <3>1 DEF Written, Asked
    <3>3. Gone.st = "gone"
      BY DEF Gone, Blank
    <3>4. Promise!Remove(i)
      BY <1>5, <1>7, <3>2, <3>3 DEF Promise!Remove, Promise!Only
    <3> QED
      BY <3>2, <3>4 DEF Promise!Change
  <2>3. CASE ctx[p].kind = "dns"
    <3>1. ASSUME NEW i \in ids
          PROVE  /\ Shown[i].st = "live" /\ Shown[i].target \in Hosts
                 /\ Shown'[i] = [Shown[i] EXCEPT !.addr = Shown'[i].addr]
                 /\ Promise!OwnAddress(i)
      <4>0. i \in Ids /\ db[i].st = "live" /\ db[i].target \in Hosts
        BY <1>1, <2>3 DEF Asked
      <4>1. db'[i] = [db[i] EXCEPT !.addr = next[i].addr]
        BY <1>1, <1>9, <2>3 DEF Written
      <4>2. Shown[i] = [db[i] EXCEPT !.rev = 0] /\ Shown'[i] = [db'[i] EXCEPT !.rev = 0]
        <5>1. db'[i].st = "live"
          BY <1>6, <4>0, <4>1 DEF Row
        <5> QED
          BY <1>5, <4>0, <5>1 DEF Face
      <4>3. /\ db'[i].st = "live" /\ db'[i].target = db[i].target
            /\ db'[i].addr.host = db'[i].target
        <5>1. db'[i].st = "live" /\ db'[i].target = db[i].target
          BY <1>6, <4>0, <4>1 DEF Row
        <5>2. Good(db)'
          BY <1>3 DEF IInv, Sound
        <5> QED
          BY <4>0, <5>1, <5>2 DEF Good, Matched
      <4>4. Shown'[i] = [Shown[i] EXCEPT !.addr = Shown'[i].addr]
        <5>1. Shown[i] \in Row /\ Shown'[i] \in Row
          BY <1>6, <4>0, <4>2 DEF Row
        <5>2. \A a : [db[i] EXCEPT !.addr = a] = [st |-> db[i].st, listen |-> db[i].listen,
                on |-> db[i].on, lim |-> db[i].lim, target |-> db[i].target, addr |-> a, rev |-> db[i].rev]
          BY <1>6, <4>0 DEF Row
        <5>3. /\ db'[i].st = db[i].st /\ db'[i].listen = db[i].listen /\ db'[i].on = db[i].on
              /\ db'[i].lim = db[i].lim /\ db'[i].target = db[i].target
          BY <4>1, <5>2
        <5>4. /\ Shown'[i].st = Shown[i].st /\ Shown'[i].listen = Shown[i].listen
              /\ Shown'[i].on = Shown[i].on /\ Shown'[i].lim = Shown[i].lim
              /\ Shown'[i].target = Shown[i].target /\ Shown'[i].rev = Shown[i].rev
          BY <1>6, <4>0, <4>2, <5>3 DEF Row
        <5> QED
          BY <5>1, <5>4 DEF Row
      <4> QED
        BY <1>5, <1>7, <4>0, <4>3, <4>4 DEF Promise!OwnAddress
    <3>2. \A i \in Ids \ ids : Shown'[i] = Shown[i]
      BY <1>5, <1>9
    <3> QED
      BY <3>1, <3>2 DEF Promise!Change, Promise!Refresh
  <2> QED
    BY <1>0, <2>1, <2>2, <2>3
<1> QED
  BY <1>8, <1>9 DEF CommitRow

\* Every step of the service is one of RuleTable's, or shows nothing.
LEMMA StepShows == IInv /\ [Next]_vars => Promise!Change
<1> SUFFICES ASSUME IInv, [Next]_vars PROVE Promise!Change
  OBVIOUS
<1>0. TypeOK' /\ IInv' /\ TypeOK /\ Locks
  BY NextType, NextInv DEF IInv
<1>1. ASSUME NEW p \in Procs, Return(p), Held(p) \/ runMu = None, UNCHANGED db PROVE Promise!Change
  <2>1. runMu' = None
    BY <1>0, <1>1 DEF Return, Locks
  <2>2. Pending' = {}
    BY <1>0, <2>1, PendingAtNext DEF IInv
  <2> QED
    BY <1>1, <2>2, EndShows
<1>2. ASSUME runMu = None, UNCHANGED db,
             \A q \in Procs : \/ ctx'[q] = ctx[q]
                              \/ ctx'[q].kind # "create"
                              \/ ctx'[q].pc \notin {"apply", "elems", "cleanup"}
      PROVE  Promise!Change
  <2>1. Pending = {}
    BY <1>0, <1>2, PendingAt
  <2>2. Pending' = {}
    <3>1. \A c \in Clients : ctx[c].pc \notin Holding
      BY <1>0, <1>2, ProcAssumption DEF Locks, Held, Procs
    <3> QED
      BY <1>2, <3>1 DEF Pending, Holding, Procs
  <2> QED
    BY <1>2, <2>1, <2>2, UnseenStep
<1>3. ASSUME NEW c \in Clients, AcquireMu(c) PROVE Promise!Change
  <2>1. \A q \in Clients : q # c => ctx'[q] = ctx[q]
    BY <1>0, <1>3 DEF AcquireMu, Goto, TypeOK, Procs
  <2>2. ctx[c].pc = "idle" /\ ctx'[c].pc = "locked" /\ UNCHANGED db
    BY <1>0, <1>3 DEF AcquireMu, Goto, TypeOK, Procs, KeepStores, Call
  <2> QED
    BY <1>0, <2>1, <2>2, QuietStep
<1>4. ASSUME NEW c \in Clients, LoadCall(c) PROVE Promise!Change
  <2>1. PICK kind \in {"create", "update", "delete"}, ids \in SUBSET Ids, next \in Tables :
          Asks(c, kind, ids, next)
    BY <1>0, <1>4, LoadCallFacts
  <2>2. /\ ctx'[c].pc = (IF kind = "create" THEN "insert" ELSE "apply") /\ ctx'[c].kind = kind
        /\ \A q \in Procs : q # c => ctx'[q] = ctx[q]
        /\ runMu = None /\ UNCHANGED db
    BY <1>0, <2>1 DEF Asks, Load, Begin, TypeOK, KeepStores, Procs
  <2>3. ctx'[c].kind # "create" \/ ctx'[c].pc \notin {"apply", "elems", "cleanup"}
    BY <2>2
  <2> QED
    BY <1>2, <2>2, <2>3
<1>5. ASSUME NEW c \in Clients, Reject(c) PROVE Promise!Change
  BY <1>1, <1>5 DEF Reject, KeepStores, Procs
<1>6. ASSUME NEW p \in Procs, Sync(p) PROVE Promise!Change
  <2>0. Held(p) /\ UNCHANGED db /\ Fits(p)
    BY <1>0, <1>6 DEF Sync, SyncStruct, SyncStructFails, SyncElems, SyncElemsFails, KeepStores,
       Held, Holding, Locks
  <2>1. CASE Return(p)
    BY <1>1, <2>0, <2>1
  <2>2. ASSUME NEW pc \in Holding, Goto(p, pc),
               /\ ctx[p].kind = "create" /\ ctx[p].pc \in {"apply", "elems"} => pc \in {"elems", "cleanup"}
               /\ ctx[p].pc \in {"undo", "undoElems"} => pc = "undoElems"
               /\ ctx[p].pc \in {"apply", "elems", "undo", "undoElems"}
        PROVE  Promise!Change
    <3>1. /\ ctx'[p].pc = pc /\ ctx'[p].kind = ctx[p].kind /\ ctx'[p].ids = ctx[p].ids
          /\ \A q \in Procs : q # p => ctx'[q] = ctx[q]
      BY <1>0, <2>2 DEF Goto, TypeOK, Call
    <3>2. Held(p)'
      BY <3>1 DEF Held
    <3>3. Pending' = PendingOf(p)' /\ Pending = PendingOf(p)
      BY <1>0, <2>0, <3>2, PendingAt, PendingAtNext DEF IInv
    <3>4. PendingOf(p)' = PendingOf(p)
      BY <2>2, <3>1 DEF PendingOf
    <3> QED
      BY <2>0, <3>3, <3>4, UnseenStep
  <2>3. CASE Fail(p) /\ ~Return(p) /\ ctx[p].pc \in {"apply", "elems", "undo", "undoElems"}
    <3>1. Goto(p, Failed(p)) /\ Failed(p) # "return"
      BY <2>3 DEF Fail
    <3> QED
      BY <2>2, <2>3, <3>1 DEF Failed, Holding
  <2>4. CASE SyncStruct(p)
    BY <2>2, <2>4 DEF SyncStruct, Holding
  <2>5. CASE SyncElems(p) /\ ~Return(p)
    BY <2>2, <2>5 DEF SyncElems, Holding
  <2> QED
    BY <1>6, <2>1, <2>3, <2>4, <2>5 DEF Sync, SyncStructFails, SyncElemsFails
<1>7. ASSUME NEW c \in Clients, InsertRow(c) \/ HardDelete(c) PROVE Promise!Change
  BY <1>0, <1>7, InsertShows, HardDeleteShows
<1>8. ASSUME NEW p \in Clients \cup {Dns}, CommitRow(p) PROVE Promise!Change
  BY <1>0, <1>8, CommitShows DEF Writers
<1>9. CASE DnsSnapshot \/ DnsResolve \/ DnsLock \/ Tamper \/ Tick \/ ZoneChange \/ UNCHANGED vars
  <2>1. UNCHANGED db /\ \A c \in Clients : ctx'[c] = ctx[c]
    <3>1. CASE DnsSnapshot
      <4>1. PICK pc : Goto(Dns, pc)
        BY <3>1 DEF DnsSnapshot
      <4> QED
        BY <1>0, <3>1, <4>1, ProcAssumption DEF DnsSnapshot, Goto, TypeOK, Procs
    <3>2. CASE DnsLock
      BY <1>0, <3>2, ProcAssumption DEF DnsLock, KeepStores, Goto, TypeOK, Procs
    <3>3. CASE DnsResolve
      BY <3>3 DEF DnsResolve, KeepStores
    <3>4. CASE Tamper
      BY <3>4 DEF Tamper
    <3>5. CASE Tick \/ ZoneChange \/ UNCHANGED vars
      BY <3>5 DEF Tick, ZoneChange, vars, KeepStores
    <3> QED
      BY <1>9, <3>1, <3>2, <3>3, <3>4, <3>5
  <2> QED
    BY <1>0, <2>1, QuietStep
<1>10. CASE DnsLoad
  <2>1. CASE Return(Dns)
    BY <1>1, <1>10, <2>1 DEF DnsLoad, KeepStores, Procs
  <2>2. CASE ~Return(Dns)
    <3>1. PICK pc, ids, next : Begin(Dns, pc, "dns", ids, next)
      BY <1>10, <2>2 DEF DnsLoad
    <3>2. /\ ctx'[Dns].kind = "dns" /\ \A q \in Procs : q # Dns => ctx'[q] = ctx[q]
          /\ runMu = None /\ UNCHANGED db
      BY <1>0, <1>10, <3>1 DEF Begin, DnsLoad, KeepStores, TypeOK, Procs
    <3> QED
      BY <1>2, <3>2
  <2> QED
    BY <2>1, <2>2
<1>11. CASE DnsLoadFails
  BY <1>1, <1>11 DEF DnsLoadFails, KeepStores, Procs
<1>12. CASE ReconcileStart
  <2>1. /\ ctx'[Reconciler].kind = "reconcile" /\ \A q \in Procs : q # Reconciler => ctx'[q] = ctx[q]
        /\ runMu = None /\ UNCHANGED db
    BY <1>0, <1>12 DEF ReconcileStart, Begin, KeepStores, TypeOK, Procs
  <2> QED
    BY <1>2, <2>1
<1>13. CASE Crash
  <2>1. Pending' = {} /\ UNCHANGED db
    BY <1>13 DEF Crash, Pending, IdleCall, Procs
  <2> QED
    BY <2>1, EndShows
<1>14. ~DnsClear
  BY DEF DnsClear, IInv, Sound
<1> QED
  BY <1>3, <1>4, <1>5, <1>6, <1>7, <1>8, <1>9, <1>10, <1>11, <1>12, <1>13, <1>14
  DEF Next, ClientStep, DnsStep, Environment

LEMMA StepPromised == IInv /\ [Next]_vars => [Promise!Next]_Promise!vars
<1>1. IInv /\ [Next]_vars => Promise!Change
  BY StepShows
<1>2. IInv /\ [Next]_vars /\ suspect' = {} => Ruled' = Desired(Shown)'
  BY NextInv, RuledFits DEF IInv
<1>3. Desired(Shown)' = Desired(Shown')
  BY DEF Desired
<1> QED
  BY <1>1, <1>2, <1>3 DEF Promise!Next

\* Calls are atomic: whatever the interleaving, failures and crashes, the table
\* without the row of a Create in progress, and the kernel between calls, change
\* only as RuleTable allows.
THEOREM Atomic == ASSUME LegacyIds = {} PROVE Spec => CallsAtomic
<1>1. Init => Promise!Init
  BY InitPromise
<1> QED
  BY <1>1, Invariance, StepPromised, PTL DEF Spec, CallsAtomic, Promise!Spec
=============================================================================
