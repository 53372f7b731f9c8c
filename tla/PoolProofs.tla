------------------------------ MODULE PoolProofs ------------------------------
(***************************************************************************)
(* What holds of Pool for any number of requests and failures.             *)
(*                                                                         *)
(* The invariant says at which steps a process can be (Roles) and what it    *)
(* holds there (MuHeld, RunMuHeld, ConnHeld).  From it: locks and connection   *)
(* are taken in one order, so nobody waits in a circle, with one exception;    *)
(* and out of that exception there is no way but a restart.                  *)
(***************************************************************************)
EXTENDS Pool, TLAPS

InSync == {"sync", "totals", "nft"}
StepsOf(p) ==
    IF p = Dns THEN InSync \cup {"idle", "lockFirst", "snapshot", "clear", "resolve", "lock", "hold",
                                 "read", "begin", "commit", "notify"}
    ELSE IF p = Reconciler THEN InSync \cup {"idle", "hold", "read"}
    ELSE IF p = Collector THEN {"idle", "counters", "baselines", "record", "recorded", "committed", "publish"}
    ELSE InSync \cup {"idle", "poll", "lock", "hold", "read", "insert", "write", "cleanup", "notify"}
TodosOf(p) ==
    IF p = Dns THEN {"commit", "done"}
    ELSE IF p = Reconciler THEN {"done"} ELSE {"write", "notify", "done"}
UnderRunMu == InSync \cup {"read", "begin", "insert", "write", "cleanup", "commit", "notify"}
UnderMu == UnderRunMu \cup {"hold", "snapshot"}

Roles == \A p \in Procs : /\ at[p] \in StepsOf(p)
                          /\ at[p] \in InSync => todo[p] \in TodosOf(p)
MuHeld == \A p \in Clients \cup {Dns} : mu = p <=> at[p] \in UnderMu
RunMuHeld == \A p \in Procs : runMu = p <=> at[p] \in UnderRunMu
InBatch == at[Dns] = "commit" \/ (at[Dns] \in InSync /\ todo[Dns] = "commit")
ConnHeld ==
    /\ InBatch => conn = Dns
    /\ conn = Dns => at[Dns] \in InSync \cup {"commit"}
    /\ conn = Collector <=> at[Collector] = "recorded"
IInv == TypeOK /\ Roles /\ MuHeld /\ RunMuHeld /\ ConnHeld

\* mu before runMu before the connection: who holds one waits, if at all, for a later
\* one.  Only a DNS batch may ask for the connection that it has.
Ordered ==
    /\ \A p \in Procs : mu = p => at[p] \notin {"lock", "lockFirst"}
    /\ \A p \in Procs : runMu = p => at[p] \notin {"lock", "lockFirst", "hold"}
    /\ \A p \in Procs : conn = p => \/ at[p] \notin Statements \cup {"lock", "lockFirst", "hold"}
                                    \/ p = Dns /\ at[p] = "totals"

\* Who waits for whom.  Somebody who waits for no one can take a step, and so can a
\* rollback that has a time limit.
WaitsFor(p, q) ==
    \/ at[p] \in {"lock", "lockFirst"} /\ mu = q
    \/ At(p, "hold") /\ runMu = q
    \/ at[p] \in Statements /\ conn = q
Moves(p) == \/ \A q \in Procs : ~WaitsFor(p, q)
            \/ At(p, "totals") /\ todo[p] = "done" /\ p # Reconciler
\* Whoever waits, waits for somebody who moves, or who waits for one, or ...: after
\* at most three links.
Unblocked ==
    ~WaitsForItself =>
      \A p \in Procs : \/ Moves(p)
                       \/ \E q \in Procs : /\ WaitsFor(p, q)
                                           /\ \/ Moves(q)
                                              \/ \E r \in Procs : /\ WaitsFor(q, r)
                                                                  /\ \/ Moves(r)
                                                                     \/ \E s \in Procs : WaitsFor(r, s) /\ Moves(s)

-----------------------------------------------------------------------------
LEMMA Distinct ==
    /\ Dns \in Procs /\ Reconciler \in Procs /\ Collector \in Procs /\ None \notin Procs
    /\ Dns # Reconciler /\ Dns # Collector /\ Reconciler # Collector
    /\ \A c \in Clients : c \in Procs /\ c # Dns /\ c # Reconciler /\ c # Collector
  BY ProcAssumption DEF Procs

LEMMA RoleTypes ==
    ASSUME NEW p \in Procs
    PROVE  StepsOf(p) \subseteq Steps /\ TodosOf(p) \subseteq Todos
  BY DEF StepsOf, TodosOf, InSync, Steps, Statements, Todos

\* A step of p to step s with t to follow keeps the invariant if what it does to the
\* locks is what s says of p.
LEMMA StepInv ==
    ASSUME IInv, NEW p \in Procs, NEW s \in StepsOf(p), NEW t \in Todos,
           at' = [at EXCEPT ![p] = s], todo' = [todo EXCEPT ![p] = t],
           s \in InSync => t \in TodosOf(p),
           mu' \in Clients \cup {Dns, None}, \A q \in Procs \ {p} : mu' = q <=> mu = q,
           p \in Clients \cup {Dns} => (mu' = p <=> s \in UnderMu),
           runMu' \in Clients \cup {Dns, Reconciler, None}, \A q \in Procs \ {p} : runMu' = q <=> runMu = q,
           runMu' = p <=> s \in UnderRunMu,
           conn' \in {Dns, Collector, None}, \A q \in Procs \ {p} : conn' = q <=> conn = q,
           p = Dns /\ conn' = Dns => s \in InSync \cup {"commit"},
           p = Dns /\ (s = "commit" \/ (s \in InSync /\ t = "commit")) => conn' = Dns,
           p = Collector => (conn' = Collector <=> s = "recorded"),
           stage' \in {"first", "tick", "workers"}, ready' \in BOOLEAN, faults' \in 0..MaxFaults
    PROVE  IInv'
<1>1. TypeOK'
  BY RoleTypes DEF IInv, TypeOK
<1>2. at'[p] = s /\ todo'[p] = t /\ \A q \in Procs \ {p} : at'[q] = at[q] /\ todo'[q] = todo[q]
  BY DEF IInv, TypeOK
<1>3. Roles'
  BY <1>2 DEF IInv, Roles
<1>4. MuHeld'
  <2>1. ASSUME NEW q \in Clients \cup {Dns} PROVE mu' = q <=> at'[q] \in UnderMu
    <3>1. CASE q = p
      BY <1>2, <2>1, <3>1
    <3>2. CASE q # p
      BY <1>2, <2>1, <3>2, Distinct DEF IInv, MuHeld
    <3> QED
      BY <3>1, <3>2
  <2> QED
    BY <2>1 DEF MuHeld
<1>5. RunMuHeld'
  <2>1. ASSUME NEW q \in Procs PROVE runMu' = q <=> at'[q] \in UnderRunMu
    <3>1. CASE q = p
      BY <1>2, <2>1, <3>1
    <3>2. CASE q # p
      BY <1>2, <2>1, <3>2 DEF IInv, RunMuHeld
    <3> QED
      BY <3>1, <3>2
  <2> QED
    BY <2>1 DEF RunMuHeld
<1>6. ConnHeld'
  BY <1>2, Distinct DEF IInv, ConnHeld, InBatch
<1> QED
  BY <1>1, <1>3, <1>4, <1>5, <1>6 DEF IInv

\* Steps that keep the locks; the end of whatever a process does; taking up a sync.
LEMMA GotoInv ==
    ASSUME IInv, NEW p \in Procs, NEW s \in StepsOf(p), Goto(p, s), Keep, faults' \in 0..MaxFaults,
           s \in InSync => at[p] \in InSync,
           s \in UnderMu <=> at[p] \in UnderMu, s \in UnderRunMu <=> at[p] \in UnderRunMu,
           p = Dns => (conn = Dns => s \in InSync \cup {"commit"}) /\ (s = "commit" => conn = Dns),
           p = Collector => (conn = Collector <=> s = "recorded")
    PROVE  IInv'
<1>1. todo' = [todo EXCEPT ![p] = todo[p]] /\ todo[p] \in Todos
  BY DEF Goto, IInv, TypeOK
<1>2. s \in InSync => todo[p] \in TodosOf(p)
  BY DEF IInv, Roles
<1>3. /\ p \in Clients \cup {Dns} => (mu' = p <=> s \in UnderMu)
      /\ runMu' = p <=> s \in UnderRunMu
  BY DEF IInv, MuHeld, RunMuHeld, Keep, locks
<1>4. at' = [at EXCEPT ![p] = s] /\ todo' = [todo EXCEPT ![p] = todo[p]]
  BY <1>1 DEF Goto
<1>5. mu' = mu /\ runMu' = runMu /\ conn' = conn /\ stage' = stage /\ ready' = ready
  BY DEF Keep, locks
<1>6. /\ mu' \in Clients \cup {Dns, None} /\ runMu' \in Clients \cup {Dns, Reconciler, None}
      /\ conn' \in {Dns, Collector, None} /\ stage' \in {"first", "tick", "workers"} /\ ready' \in BOOLEAN
  BY <1>5 DEF IInv, TypeOK
<1>7. p = Dns /\ (s = "commit" \/ (s \in InSync /\ todo[p] = "commit")) => conn' = Dns
  BY <1>5 DEF IInv, ConnHeld, InBatch
<1> QED
  BY <1>1, <1>2, <1>3, <1>4, <1>5, <1>6, <1>7, StepInv

LEMMA ReturnInv ==
    ASSUME IInv, NEW p \in Procs, Return(p), faults' \in 0..MaxFaults PROVE IInv'
<1>1. "idle" \in StepsOf(p) /\ "idle" \notin InSync \cup UnderMu \cup UnderRunMu \cup {"commit", "recorded"}
  BY DEF StepsOf, InSync, UnderMu, UnderRunMu
<1>2. /\ mu' # p /\ mu' \in Clients \cup {Dns, None} /\ \A q \in Procs \ {p} : mu' = q <=> mu = q
      /\ runMu' # p /\ runMu' \in Clients \cup {Dns, Reconciler, None}
      /\ \A q \in Procs \ {p} : runMu' = q <=> runMu = q
      /\ conn' # p /\ conn' \in {Dns, Collector, None} /\ \A q \in Procs \ {p} : conn' = q <=> conn = q
  <2>1. /\ mu' = (IF mu = p THEN None ELSE mu) /\ runMu' = (IF runMu = p THEN None ELSE runMu)
        /\ conn' = (IF conn = p THEN None ELSE conn)
    BY DEF Return, Without
  <2>2. mu' # p /\ mu' \in Clients \cup {Dns, None} /\ \A q \in Procs \ {p} : mu' = q <=> mu = q
    BY <2>1, Distinct DEF IInv, TypeOK
  <2>3. runMu' # p /\ runMu' \in Clients \cup {Dns, Reconciler, None}
        /\ \A q \in Procs \ {p} : runMu' = q <=> runMu = q
    BY <2>1, Distinct DEF IInv, TypeOK
  <2>4. conn' # p /\ conn' \in {Dns, Collector, None} /\ \A q \in Procs \ {p} : conn' = q <=> conn = q
    BY <2>1, Distinct DEF IInv, TypeOK
  <2> QED
    BY <2>2, <2>3, <2>4
<1>3. stage' \in {"first", "tick", "workers"} /\ ready' \in BOOLEAN
  BY DEF Return, IInv, TypeOK
<1> QED
  BY <1>1, <1>2, <1>3, StepInv DEF Return, Todos

LEMMA SyncInv ==
    ASSUME IInv, NEW p \in Procs, NEW t \in TodosOf(p), Sync(p, t), Keep, faults' \in 0..MaxFaults,
           at[p] \in UnderRunMu, p # Collector, p = Dns => at[p] \in InSync /\ t # "commit"
    PROVE  IInv'
<1>1. "sync" \in StepsOf(p) \cap InSync \cap UnderMu \cap UnderRunMu
  BY DEF StepsOf, InSync, UnderMu, UnderRunMu
<1>2. /\ p \in Clients \cup {Dns} => mu' = p
      /\ runMu' = p
  BY DEF IInv, MuHeld, RunMuHeld, Keep, locks, UnderMu
<1> QED
  BY <1>1, <1>2, StepInv, RoleTypes DEF Sync, Keep, locks, IInv, TypeOK

LEMMA FaultType == ASSUME IInv, Fault \/ NoFault PROVE faults' \in 0..MaxFaults
  BY BoundAssumption DEF IInv, TypeOK, Fault, NoFault

\* Nobody at work, nothing held.
LEMMA AtStart ==
    ASSUME at' = [p \in Procs |-> "idle"], todo' = [p \in Procs |-> "none"], stage' = "first",
           mu' = None, runMu' = None, conn' = None, ready' = FALSE, faults' \in 0..MaxFaults
    PROVE  IInv'
<1>1. "idle" \notin InSync \cup UnderMu \cup UnderRunMu /\ \A p \in Procs : "idle" \in StepsOf(p)
  BY DEF StepsOf, InSync, UnderMu, UnderRunMu
<1>2. TypeOK'
  BY DEF TypeOK, Steps, Todos
<1>3. Roles' /\ MuHeld' /\ RunMuHeld'
  BY <1>1, Distinct DEF Roles, MuHeld, RunMuHeld
<1>4. ConnHeld'
  <2>1. at'[Dns] = "idle" /\ at'[Collector] = "idle" /\ conn' # Dns /\ conn' # Collector
    BY Distinct
  <2> QED
    BY <1>1, <2>1 DEF ConnHeld, InBatch
<1> QED
  BY <1>2, <1>3, <1>4 DEF IInv

\* Who can be where.
LEMMA WhereInSync ==
    ASSUME IInv, NEW p \in Procs, at[p] \in InSync
    PROVE  p # Collector /\ todo[p] \in TodosOf(p) /\ at[p] \in UnderMu /\ at[p] \in UnderRunMu
<1>1. p # Collector
  BY Distinct DEF IInv, Roles, StepsOf, InSync
<1>2. todo[p] \in TodosOf(p)
  BY DEF IInv, Roles
<1> QED
  BY <1>1, <1>2 DEF UnderMu, UnderRunMu

LEMMA SyncFailedInv ==
    ASSUME IInv, NEW p \in Procs, at[p] \in InSync, SyncFailed(p), faults' \in 0..MaxFaults
    PROVE  IInv'
<1>1. CASE todo[p] = "done"
  BY <1>1, ReturnInv DEF SyncFailed
<1>2. CASE todo[p] = "notify"
  <2>1. p # Dns /\ p # Reconciler /\ p # Collector
    BY <1>2, WhereInSync DEF TodosOf
  <2>2. "cleanup" \in StepsOf(p) \cap UnderMu \cap UnderRunMu /\ "cleanup" \notin InSync
    BY <2>1 DEF StepsOf, UnderMu, UnderRunMu, InSync
  <2>3. Goto(p, "cleanup") /\ Keep
    BY <1>2 DEF SyncFailed
  <2> QED
    BY <2>1, <2>2, <2>3, WhereInSync, GotoInv
<1>3. CASE todo[p] \notin {"done", "notify"}
  <2>1. Sync(p, "done") /\ Keep
    BY <1>3 DEF SyncFailed
  <2>2. "done" \in TodosOf(p)
    BY DEF TodosOf
  <2> QED
    BY <2>1, <2>2, WhereInSync, SyncInv
<1> QED
  BY <1>1, <1>2, <1>3

LEMMA NextInv == IInv /\ [Next]_vars => IInv'
<1> SUFFICES ASSUME IInv, [Next]_vars PROVE IInv'
  OBVIOUS
<1>f. NoFault \/ Fault => faults' \in 0..MaxFaults
  BY FaultType
<1>r. \A p \in Procs : at[p] \in StepsOf(p)
  BY DEF IInv, Roles
<1> USE DEF At, Run
<1>1. ASSUME NEW p \in Procs, TakeMu(p) PROVE IInv'
  <2>1. p \in Clients \cup {Dns}
    BY <1>1, <1>r DEF TakeMu, Procs, StepsOf, InSync
  <2>2. PICK s : s = (IF at[p] = "lock" THEN "hold" ELSE "snapshot")
    OBVIOUS
  <2>3. s \in StepsOf(p) \cap UnderMu /\ s \notin InSync \cup UnderRunMu \cup {"commit", "recorded"}
    BY <1>1, <1>r, <2>1, <2>2, Distinct DEF TakeMu, StepsOf, InSync, UnderMu, UnderRunMu
  <2>4. runMu # p /\ (p = Dns => conn # Dns) /\ p # Collector
    BY <1>1, <2>1, Distinct DEF TakeMu, IInv, RunMuHeld, ConnHeld, InSync, UnderRunMu
  <2>5. at' = [at EXCEPT ![p] = s] /\ todo' = [todo EXCEPT ![p] = todo[p]] /\ todo[p] \in Todos
    BY <1>1, <2>2 DEF TakeMu, Goto, IInv, TypeOK
  <2>6. mu' = p /\ mu = None /\ UNCHANGED <<stage, runMu, conn, ready>> /\ faults' \in 0..MaxFaults
    BY <1>1, <1>f DEF TakeMu
  <2>7. \A q \in Procs \ {p} : mu' = q <=> mu = q
    BY <2>6, Distinct
  <2> QED
    BY <2>1, <2>3, <2>4, <2>5, <2>6, <2>7, StepInv DEF IInv, TypeOK
<1>2. ASSUME NEW p \in Procs, Hold(p) PROVE IInv'
  <2>1. p \in Clients \cup {Dns, Reconciler} /\ "read" \in StepsOf(p)
    BY <1>2, <1>r DEF Hold, Procs, StepsOf, InSync
  <2>2. "read" \in UnderMu \cap UnderRunMu /\ "read" \notin InSync
    BY DEF InSync, UnderMu, UnderRunMu
  <2>3. (p \in Clients \cup {Dns} => mu = p) /\ (p = Dns => conn # Dns) /\ p # Collector
    BY <1>2, <2>1, Distinct DEF Hold, IInv, MuHeld, ConnHeld, InSync, UnderMu
  <2>4. at' = [at EXCEPT ![p] = "read"] /\ todo' = [todo EXCEPT ![p] = todo[p]] /\ todo[p] \in Todos
    BY <1>2 DEF Hold, Goto, IInv, TypeOK
  <2>5. runMu' = p /\ runMu = None /\ UNCHANGED <<stage, mu, conn, ready>> /\ faults' \in 0..MaxFaults
    BY <1>2, <1>f DEF Hold
  <2>6. \A q \in Procs \ {p} : runMu' = q <=> runMu = q
    BY <2>5, Distinct
  <2> QED
    BY <2>1, <2>2, <2>3, <2>4, <2>5, <2>6, StepInv DEF IInv, TypeOK
<1>3. ASSUME NEW p \in Procs, Notify(p) PROVE IInv'
  BY <1>3, <1>f, ReturnInv DEF Notify
<1>4. ASSUME NEW p \in Procs, EnterSync(p) \/ Totals(p) PROVE IInv'
  <2>1. PICK s \in {"totals", "nft"} : Goto(p, s)
    BY <1>4 DEF EnterSync, Totals
  <2>2. at[p] \in InSync /\ s \in InSync \cap UnderMu \cap UnderRunMu /\ Keep /\ faults' \in 0..MaxFaults
    BY <1>4, <1>f DEF EnterSync, Totals, InSync, UnderMu, UnderRunMu
  <2>3. s \in StepsOf(p)
    BY <2>2, WhereInSync DEF StepsOf, InSync
  <2> QED
    BY <2>1, <2>2, <2>3, WhereInSync, GotoInv
<1>5. ASSUME NEW p \in Procs, Nft(p) PROVE IInv'
  <2>1. at[p] \in InSync /\ faults' \in 0..MaxFaults
    BY <1>5, <1>f DEF Nft, InSync
  <2>2. CASE todo[p] = "done"
    BY <1>5, <2>1, <2>2, ReturnInv DEF Nft
  <2>3. CASE todo[p] # "done"
    <3>1. /\ todo[p] \in StepsOf(p) \cap UnderMu \cap UnderRunMu /\ todo[p] \notin InSync
          /\ (p = Dns => todo[p] = "commit")
      BY <2>1, <2>3, WhereInSync DEF TodosOf, StepsOf, UnderMu, UnderRunMu, InSync
    <3>3. p = Dns => conn = Dns
      BY <2>1, <3>1 DEF IInv, ConnHeld, InBatch
    <3>2. Goto(p, todo[p]) /\ Keep
      BY <1>5, <2>3 DEF Nft
    <3> QED
      BY <2>1, <3>1, <3>2, <3>3, WhereInSync, GotoInv
  <2> QED
    BY <2>2, <2>3
<1>6. ASSUME NEW p \in Procs, NftFails(p) \/ UndoTimeout(p) PROVE IInv'
  <2>1. at[p] \in InSync /\ SyncFailed(p) /\ faults' \in 0..MaxFaults
    BY <1>6, <1>f DEF NftFails, UndoTimeout, InSync
  <2> QED
    BY <2>1, SyncFailedInv
<1>7. ASSUME NEW p \in Procs, StatementFails(p) PROVE IInv'
  <2>f. faults' \in 0..MaxFaults
    BY <1>7, <1>f DEF StatementFails
  <2>1. CASE at[p] = "totals"
    BY <1>7, <2>f, <2>1, SyncFailedInv DEF StatementFails, InSync
  <2>2. CASE at[p] \in {"write", "cleanup"}
    <3>1. p # Collector /\ p # Dns /\ at[p] \in UnderRunMu
      BY <1>r, <2>2, Distinct DEF StepsOf, InSync, UnderRunMu
    <3>2. Sync(p, "done") /\ Keep /\ "done" \in TodosOf(p)
      BY <1>7, <2>2 DEF StatementFails, TodosOf
    <3> QED
      BY <2>f, <3>1, <3>2, SyncInv
  <2>3. CASE at[p] \in {"clear", "committed"}
    <3>1. PICK s \in {"resolve", "publish"} : /\ Goto(p, s) /\ Keep
                                              /\ s = IF at[p] = "clear" THEN "resolve" ELSE "publish"
      BY <1>7, <2>3 DEF StatementFails
    <3>2. /\ s \in StepsOf(p) /\ s \notin InSync \cup UnderMu \cup UnderRunMu
          /\ at[p] \notin InSync \cup UnderMu \cup UnderRunMu \cup {"commit", "recorded"}
      BY <1>r, <2>3, <3>1 DEF StepsOf, InSync, UnderMu, UnderRunMu
    <3>3. (p = Dns => conn # Dns) /\ (p = Collector => conn # Collector)
      BY <3>2 DEF IInv, ConnHeld
    <3> QED
      BY <2>f, <3>1, <3>2, <3>3, GotoInv
  <2>4. CASE at[p] \notin {"totals", "write", "cleanup", "clear", "committed"}
    BY <1>7, <2>f, <2>4, ReturnInv DEF StatementFails
  <2> QED
    BY <2>1, <2>2, <2>3, <2>4
<1>8. ASSUME NEW c \in Clients, Request(c) \/ Poll(c) PROVE IInv'
  <2>1. c \in Procs /\ c # Dns /\ c # Collector /\ faults' \in 0..MaxFaults
    BY <1>8, <1>f, Distinct DEF Request, Poll
  <2>2. CASE Return(c)
    BY <2>1, <2>2, ReturnInv
  <2>3. CASE ~Return(c)
    <3>1. PICK s \in {"poll", "lock"} : Goto(c, s) /\ Keep
      BY <1>8, <2>3 DEF Request, Poll
    <3>2. s \in StepsOf(c) /\ s \notin InSync \cup UnderMu \cup UnderRunMu
      BY Distinct DEF StepsOf, InSync, UnderMu, UnderRunMu
    <3>3. at[c] \notin UnderMu \cup UnderRunMu
      BY <1>8 DEF Request, Poll, InSync, UnderMu, UnderRunMu
    <3> QED
      BY <2>1, <3>1, <3>2, <3>3, GotoInv
  <2> QED
    BY <2>2, <2>3
<1>9. ASSUME NEW c \in Clients, Read(c) \/ Insert(c) \/ Write(c) \/ Cleanup(c) PROVE IInv'
  <2>1. c \in Procs /\ c # Dns /\ c # Collector /\ faults' \in 0..MaxFaults
    BY <1>9, <1>f, Distinct DEF Read, Insert, Write, Cleanup
  <2>2. at[c] \in UnderRunMu \cap UnderMu
    BY <1>9 DEF Read, Insert, Write, Cleanup, UnderRunMu, UnderMu
  <2>3. CASE Return(c)
    BY <2>1, <2>3, ReturnInv
  <2>4. ASSUME NEW s \in {"insert", "notify"}, Goto(c, s), Keep PROVE IInv'
    <3>1. s \in StepsOf(c) /\ s \notin InSync /\ s \in UnderMu \cap UnderRunMu
      BY Distinct DEF StepsOf, InSync, UnderMu, UnderRunMu
    <3> QED
      BY <2>1, <2>2, <2>4, <3>1, GotoInv
  <2>5. ASSUME NEW t \in {"write", "notify", "done"}, Sync(c, t), Keep PROVE IInv'
    <3>1. t \in TodosOf(c)
      BY Distinct DEF TodosOf
    <3> QED
      BY <2>1, <2>2, <2>5, <3>1, SyncInv
  <2> QED
    BY <1>9, <2>3, <2>4, <2>5 DEF Read, Insert, Write, Cleanup
<1>10. CASE StartRound \/ ReadRound
  <2>1. Reconciler \in Procs /\ Reconciler # Dns /\ Reconciler # Collector /\ faults' \in 0..MaxFaults
    BY <1>10, <1>f, Distinct DEF StartRound, ReadRound
  <2>2. CASE StartRound
    <3>1. /\ at[Reconciler] = "idle" /\ Goto(Reconciler, "hold") /\ Keep
          /\ "hold" \in StepsOf(Reconciler)
          /\ Reconciler \notin Clients \cup {Dns} /\ runMu # Reconciler
      BY <2>1, <2>2, Distinct DEF StartRound, StepsOf, IInv, RunMuHeld, UnderRunMu, InSync
    <3>2. "hold" \notin InSync \cup UnderRunMu
      BY DEF InSync, UnderRunMu
    <3>3. at' = [at EXCEPT ![Reconciler] = "hold"] /\ todo' = [todo EXCEPT ![Reconciler] = todo[Reconciler]]
          /\ todo[Reconciler] \in Todos
      BY <2>1, <3>1 DEF Goto, IInv, TypeOK
    <3>4. UNCHANGED <<mu, runMu, conn, stage, ready>>
      BY <3>1 DEF Keep, locks
    <3> QED
      BY <2>1, <3>1, <3>2, <3>3, <3>4, StepInv DEF IInv, TypeOK
  <2>3. CASE ReadRound
    <3>1. at[Reconciler] \in UnderRunMu /\ "done" \in TodosOf(Reconciler)
      BY <2>3, Distinct DEF ReadRound, UnderRunMu, TodosOf
    <3> QED
      BY <2>1, <2>3, <3>1, SyncInv DEF ReadRound
  <2> QED
    BY <1>10, <2>2, <2>3
<1>d. Dns \in Procs /\ Dns \in Clients \cup {Dns} /\ Dns # Collector /\ Dns # Reconciler
  BY Distinct
<1>11. ASSUME NEW s \in {"lockFirst", "resolve", "lock"}, Goto(Dns, s), Keep, faults' \in 0..MaxFaults,
              at[Dns] \notin InSync \cup UnderMu \cup UnderRunMu
       PROVE  IInv'
  <2>1. s \in StepsOf(Dns) /\ s \notin InSync \cup UnderMu \cup UnderRunMu
    BY DEF StepsOf, InSync, UnderMu, UnderRunMu
  <2>2. conn # Dns
    BY <1>11 DEF IInv, ConnHeld, UnderRunMu, InSync
  <2> QED
    BY <1>d, <1>11, <2>1, <2>2, GotoInv
<1>12. CASE StartDns \/ Clear \/ Resolve
  <2>1. at[Dns] \notin InSync \cup UnderMu \cup UnderRunMu /\ Keep /\ faults' \in 0..MaxFaults
    BY <1>f, <1>12 DEF StartDns, Clear, Resolve, InSync, UnderMu, UnderRunMu
  <2>2. CASE Goto(Dns, "idle")
    <3>1. "idle" \in StepsOf(Dns) /\ "idle" \notin InSync \cup UnderMu \cup UnderRunMu
      BY DEF StepsOf, InSync, UnderMu, UnderRunMu
    <3>2. conn # Dns
      BY <2>1 DEF IInv, ConnHeld, UnderRunMu, InSync
    <3> QED
      BY <1>d, <2>1, <2>2, <3>1, <3>2, GotoInv
  <2>3. CASE ~Goto(Dns, "idle")
    BY <1>11, <1>12, <2>1, <2>3 DEF StartDns, Clear, Resolve
  <2> QED
    BY <2>2, <2>3
<1>13. CASE Snapshot
  <2>1. PICK s \in {"clear", "resolve", "idle"} : Goto(Dns, s)
    BY <1>13 DEF Snapshot
  <2>2. s \in StepsOf(Dns) /\ s \notin InSync \cup UnderMu \cup UnderRunMu
    BY DEF StepsOf, InSync, UnderMu, UnderRunMu
  <2>3. at[Dns] = "snapshot" /\ conn = None /\ mu' = None /\ UNCHANGED <<stage, runMu, conn, ready>>
    BY <1>13 DEF Snapshot
  <2>4. mu = Dns /\ runMu # Dns
    BY <1>d, <2>3 DEF IInv, MuHeld, RunMuHeld, UnderMu, UnderRunMu, InSync
  <2>5. at' = [at EXCEPT ![Dns] = s] /\ todo' = [todo EXCEPT ![Dns] = todo[Dns]] /\ todo[Dns] \in Todos
    BY <1>d, <2>1 DEF Goto, IInv, TypeOK
  <2>6. mu' # Dns /\ \A q \in Procs \ {Dns} : mu' = q <=> mu = q
    BY <1>d, <2>3, <2>4, Distinct
  <2>7. faults' \in 0..MaxFaults
    BY <1>f, <1>13 DEF Snapshot
  <2> QED
    BY <1>d, <2>2, <2>3, <2>4, <2>5, <2>6, <2>7, Distinct, StepInv DEF IInv, TypeOK
<1>14. CASE ReadBatch
  <2>1. faults' \in 0..MaxFaults /\ at[Dns] = "read" /\ conn = None
    BY <1>f, <1>14 DEF ReadBatch
  <2>2. CASE Return(Dns)
    BY <1>d, <2>1, <2>2, ReturnInv
  <2>3. CASE ~Return(Dns)
    <3>1. Goto(Dns, "begin") /\ Keep /\ conn # Dns
      BY <1>d, <1>14, <2>1, <2>3, Distinct DEF ReadBatch
    <3>2. "begin" \in StepsOf(Dns) \cap UnderMu \cap UnderRunMu /\ "begin" \notin InSync
          /\ at[Dns] \in UnderMu \cap UnderRunMu
      BY <2>1 DEF StepsOf, UnderMu, UnderRunMu, InSync
    <3> QED
      BY <1>d, <2>1, <3>1, <3>2, GotoInv
  <2> QED
    BY <2>2, <2>3
<1>15. CASE Begin
  <2>1. at[Dns] = "begin" /\ conn = None /\ conn' = Dns /\ UNCHANGED <<stage, mu, runMu, ready>>
    BY <1>15 DEF Begin
  <2>2. PICK s \in {"sync", "commit"}, t \in Todos :
            /\ at' = [at EXCEPT ![Dns] = s] /\ todo' = [todo EXCEPT ![Dns] = t]
            /\ s = "sync" => t = "commit"
    BY <1>d, <1>15 DEF Begin, Sync, Goto, IInv, TypeOK, Todos
  <2>3. /\ s \in StepsOf(Dns) \cap UnderMu \cap UnderRunMu /\ s \in InSync \cup {"commit"}
        /\ s \in InSync => t \in TodosOf(Dns)
    BY <2>2 DEF StepsOf, UnderMu, UnderRunMu, InSync, TodosOf
  <2>4. mu = Dns /\ runMu = Dns
    BY <1>d, <2>1 DEF IInv, MuHeld, RunMuHeld, UnderMu, UnderRunMu
  <2>5. faults' \in 0..MaxFaults
    BY <1>f, <1>15 DEF Begin
  <2>6. \A q \in Procs \ {Dns} : conn' = q <=> conn = q
    BY <2>1, Distinct
  <2> QED
    BY <1>d, <2>1, <2>2, <2>3, <2>4, <2>5, <2>6, StepInv DEF IInv, TypeOK
<1>16. CASE Commit \/ CommitFails
  <2>1. at[Dns] = "commit" /\ faults' \in 0..MaxFaults
    BY <1>f, <1>16 DEF Commit, CommitFails
  <2>2. CASE ~Applied
    BY <1>d, <1>16, <2>1, <2>2, ReturnInv DEF Commit, CommitFails, EndBatch
  <2>3. CASE Applied
    <3>1. conn' = None /\ UNCHANGED <<stage, mu, runMu, ready>> /\ (Goto(Dns, "notify") \/ Sync(Dns, "done"))
      BY <1>16, <2>3 DEF Commit, CommitFails, EndBatch
    <3>2. PICK s \in {"sync", "notify"}, t \in Todos :
              /\ at' = [at EXCEPT ![Dns] = s] /\ todo' = [todo EXCEPT ![Dns] = t]
              /\ s = "sync" => t = "done"
      BY <1>d, <3>1 DEF Sync, Goto, IInv, TypeOK, Todos
    <3>3. /\ s \in StepsOf(Dns) \cap UnderMu \cap UnderRunMu
          /\ s \in InSync => t \in TodosOf(Dns)
      BY <3>2 DEF StepsOf, UnderMu, UnderRunMu, InSync, TodosOf
    <3>4. mu = Dns /\ runMu = Dns
      BY <1>d, <2>1 DEF IInv, MuHeld, RunMuHeld, UnderMu, UnderRunMu
    <3>5. conn' # Dns /\ \A q \in Procs \ {Dns} : conn' = q <=> conn = q
      BY <2>1, <3>1, Distinct DEF IInv, ConnHeld, InBatch
    <3>6. s # "commit" /\ (s \in InSync => t # "commit")
      BY <3>2 DEF InSync
    <3> QED
      BY <1>d, <2>1, <3>1, <3>2, <3>3, <3>4, <3>5, <3>6, StepInv DEF IInv, TypeOK
  <2> QED
    BY <2>2, <2>3
<1>c. Collector \in Procs /\ Collector \notin Clients \cup {Dns} /\ Collector # Dns /\ Collector # Reconciler
  BY Distinct
<1>17. /\ runMu # Collector /\ mu # Collector
       /\ \A s \in {"counters", "baselines", "record", "recorded", "committed", "publish", "idle"} :
              s \in StepsOf(Collector) /\ s \notin InSync \cup UnderMu \cup UnderRunMu
  <2>1. runMu # Collector /\ mu # Collector
    BY <1>c, Distinct DEF IInv, TypeOK
  <2>2. StepsOf(Collector) = {"idle", "counters", "baselines", "record", "recorded", "committed", "publish"}
    BY <1>c DEF StepsOf
  <2> QED
    BY <2>1, <2>2 DEF InSync, UnderMu, UnderRunMu
<1>18. ASSUME NEW s \in {"counters", "baselines", "record", "recorded", "committed", "publish", "idle"},
              Goto(Collector, s), mu' = mu, runMu' = runMu, stage' \in {"first", "tick", "workers"},
              ready' \in BOOLEAN, conn' \in {Dns, Collector, None},
              conn' = conn \/ {conn, conn'} \subseteq {None, Collector},
              conn' = Collector <=> s = "recorded", faults' \in 0..MaxFaults
       PROVE  IInv'
  <2>1. at' = [at EXCEPT ![Collector] = s] /\ todo' = [todo EXCEPT ![Collector] = todo[Collector]]
        /\ todo[Collector] \in Todos
    BY <1>c, <1>18 DEF Goto, IInv, TypeOK
  <2>2. \A q \in Procs \ {Collector} : conn' = q <=> conn = q
    BY <1>18, Distinct
  <2> QED
    BY <1>c, <1>17, <1>18, <2>1, <2>2, StepInv DEF IInv, TypeOK
<1>19. CASE StartTick \/ Counters \/ Baselines \/ Committed
  <2>1. faults' \in 0..MaxFaults /\ at[Collector] # "recorded"
    BY <1>f, <1>19 DEF StartTick, Counters, Baselines, Committed
  <2>2. CASE Return(Collector)
    BY <1>c, <2>1, <2>2, ReturnInv
  <2>3. CASE ~Return(Collector)
    <3>1. PICK s \in {"counters", "baselines", "record", "publish"} : Goto(Collector, s) /\ Keep
      BY <1>19, <2>3 DEF StartTick, Counters, Baselines, Committed
    <3>2. conn # Collector
      BY <2>1 DEF IInv, ConnHeld
    <3>3. mu' = mu /\ runMu' = runMu /\ conn' = conn /\ stage' = stage /\ ready' = ready
      BY <3>1 DEF Keep, locks
    <3>4. stage' \in {"first", "tick", "workers"} /\ ready' \in BOOLEAN /\ conn' \in {Dns, Collector, None}
      BY <3>3 DEF IInv, TypeOK
    <3> QED
      BY <1>18, <2>1, <3>1, <3>2, <3>3, <3>4
  <2> QED
    BY <2>2, <2>3
<1>20. CASE Record \/ Recorded
  <2>1. faults' \in 0..MaxFaults /\ mu' = mu /\ runMu' = runMu /\ stage' = stage /\ ready' = ready
    BY <1>f, <1>20 DEF Record, Recorded
  <2>2. stage' \in {"first", "tick", "workers"} /\ ready' \in BOOLEAN
    BY <2>1 DEF IInv, TypeOK
  <2>3. CASE Record
    <3>1. Goto(Collector, "recorded") /\ conn = None /\ conn' = Collector
      BY <2>3 DEF Record
    <3> QED
      BY <1>18, <2>1, <2>2, <3>1
  <2>4. CASE Recorded
    <3>1. Goto(Collector, "committed") /\ conn = Collector /\ conn' = None /\ None # Collector
      BY <1>c, <2>4, Distinct DEF Recorded, GivenBack, IInv, ConnHeld
    <3> QED
      BY <1>18, <2>1, <2>2, <3>1
  <2> QED
    BY <1>20, <2>3, <2>4
<1>21. CASE RecordFails
  BY <1>c, <1>f, <1>21, ReturnInv DEF RecordFails
<1>22. CASE Publish
  <2>1. conn # Collector
    BY <1>22 DEF Publish, IInv, ConnHeld
  <2>2. /\ Goto(Collector, "idle") /\ mu' = mu /\ runMu' = runMu /\ conn' = conn /\ ready' = TRUE
        /\ stage' \in {"first", "tick", "workers"} /\ faults' \in 0..MaxFaults
    BY <1>f, <1>22 DEF Publish, Goto, locks, IInv, TypeOK
  <2>3. conn' \in {Dns, Collector, None} /\ ready' \in BOOLEAN
    BY <2>2 DEF IInv, TypeOK
  <2> QED
    BY <1>18, <2>1, <2>2, <2>3
<1>23. CASE Restart
  <2>1. /\ at' = [p \in Procs |-> "idle"] /\ todo' = [p \in Procs |-> "none"] /\ stage' = "first"
        /\ mu' = None /\ runMu' = None /\ conn' = None /\ ready' = FALSE /\ faults' \in 0..MaxFaults
    BY <1>f, <1>23 DEF Restart, Idle, NoTodo
  <2> QED
    BY <2>1, AtStart
<1>24. CASE UNCHANGED vars
  BY <1>24 DEF vars, locks, IInv, TypeOK, Roles, MuHeld, RunMuHeld, ConnHeld, InBatch
<1> QED
  BY <1>1, <1>2, <1>3, <1>4, <1>5, <1>6, <1>7, <1>8, <1>9, <1>10, <1>12, <1>13, <1>14, <1>15,
     <1>16, <1>19, <1>20, <1>21, <1>22, <1>23, <1>24, <1>c, <1>d, Distinct
     DEF Next, Step, Syncing, Of, Start

-----------------------------------------------------------------------------
LEMMA InitInv == Init => IInv
<1> SUFFICES ASSUME Init PROVE IInv
  OBVIOUS
<1>1. "idle" \notin InSync \cup UnderMu \cup UnderRunMu /\ \A p \in Procs : "idle" \in StepsOf(p)
  BY DEF StepsOf, InSync, UnderMu, UnderRunMu
<1>2. at = [p \in Procs |-> "idle"] /\ todo = [p \in Procs |-> "none"]
  BY DEF Init, Idle, NoTodo
<1>3. TypeOK
  <2>1. "idle" \in Steps /\ "none" \in Todos /\ 0 \in 0..MaxFaults
    BY BoundAssumption DEF Steps, Todos
  <2> QED
    BY <1>2, <2>1 DEF Init, TypeOK
<1>4. Roles /\ MuHeld /\ RunMuHeld
  BY <1>1, <1>2, Distinct DEF Init, Roles, MuHeld, RunMuHeld
<1>5. ConnHeld
  <2>1. at[Dns] = "idle" /\ at[Collector] = "idle" /\ conn # Dns /\ conn # Collector
    BY <1>2, Distinct DEF Init
  <2> QED
    BY <1>1, <2>1 DEF ConnHeld, InBatch
<1> QED
  BY <1>3, <1>4, <1>5 DEF IInv

THEOREM Invariance == Spec => []IInv
  BY InitInv, NextInv, PTL DEF Spec

\* Steps, what is to follow them and the holders of the locks keep their types.
THEOREM TypeCorrect == Spec => []TypeOK
<1>1. IInv => TypeOK
  BY DEF IInv
<1> QED
  BY <1>1, Invariance, PTL

LEMMA InvOrdered == IInv => Ordered
<1> SUFFICES ASSUME IInv PROVE Ordered
  OBVIOUS
<1>1. ASSUME NEW p \in Procs, mu = p PROVE at[p] \notin {"lock", "lockFirst"}
  <2>1. p \in Clients \cup {Dns}
    BY <1>1, Distinct DEF IInv, TypeOK
  <2> QED
    BY <1>1, <2>1 DEF IInv, MuHeld, UnderMu, UnderRunMu, InSync
<1>2. ASSUME NEW p \in Procs, runMu = p PROVE at[p] \notin {"lock", "lockFirst", "hold"}
  BY <1>2 DEF IInv, RunMuHeld, UnderRunMu, InSync
<1>3. ASSUME NEW p \in Procs, conn = p
      PROVE  \/ at[p] \notin Statements \cup {"lock", "lockFirst", "hold"}
             \/ p = Dns /\ at[p] = "totals"
  <2>1. p \in {Dns, Collector}
    BY <1>3, Distinct DEF IInv, TypeOK
  <2> QED
    BY <1>3, <2>1 DEF IInv, ConnHeld, Statements, InSync
<1> QED
  BY <1>1, <1>2, <1>3 DEF Ordered

\* mu, runMu and the connection are taken in this order by every call, round and
\* batch, on every path through their failures: whoever holds one of them waits, if
\* at all, for a later one, so nobody waits in a circle; but a DNS batch, for the
\* connection that it has.
THEOREM LockOrder == Spec => []Ordered
  BY InvOrdered, Invariance, PTL

\* Nobody is in a deadlock: follow who waits for whom from anyone, and after at most
\* three links there is somebody who can go on; unless a DNS batch waits for the
\* connection that it has, which is the one way to a standstill.
THEOREM NoStandstill == Spec => []Unblocked
<1>1. ASSUME IInv, ~WaitsForItself PROVE Unblocked
  <2>0. Ordered /\ TypeOK
    BY <1>1, InvOrdered DEF IInv
  \* Whoever has the connection moves.
  <2>1. ASSUME NEW p \in Procs, conn = p PROVE Moves(p)
    <3>1. at[p] \notin Statements \cup {"lock", "lockFirst", "hold"} => Moves(p)
      BY DEF Moves, WaitsFor, At
    <3>2. CASE p = Dns /\ at[p] = "totals"
      BY <1>1, <2>1, <3>2, Distinct DEF WaitsForItself, Moves, At
    <3> QED
      BY <2>0, <2>1, <3>1, <3>2 DEF Ordered
  \* Whoever has runMu moves, or waits for whoever has the connection.
  <2>2. ASSUME NEW p \in Procs, runMu = p
        PROVE  Moves(p) \/ \E q \in Procs : WaitsFor(p, q) /\ Moves(q)
    <3>1. at[p] \notin {"lock", "lockFirst", "hold"}
      BY <2>0, <2>2 DEF Ordered
    <3>2. ASSUME NEW q \in Procs, WaitsFor(p, q) PROVE conn = q
      BY <3>1, <3>2 DEF WaitsFor, At
    <3> QED
      BY <2>1, <3>2 DEF Moves
  <2>3. ASSUME NEW p \in Procs, mu = p
        PROVE  \/ Moves(p)
               \/ \E q \in Procs : /\ WaitsFor(p, q)
                                   /\ Moves(q) \/ \E r \in Procs : WaitsFor(q, r) /\ Moves(r)
    <3>1. at[p] \notin {"lock", "lockFirst"}
      BY <2>0, <2>3 DEF Ordered
    <3>2. ASSUME NEW q \in Procs, WaitsFor(p, q) PROVE conn = q \/ runMu = q
      BY <3>1, <3>2 DEF WaitsFor, At
    <3> QED
      BY <2>1, <2>2, <3>2 DEF Moves
  <2>4. ASSUME NEW p \in Procs, NEW q \in Procs, WaitsFor(p, q) PROVE q \in {mu, runMu, conn}
    BY <2>4 DEF WaitsFor
  <2> QED
    BY <2>1, <2>2, <2>3, <2>4 DEF Unblocked, Moves
<1>2. IInv => Unblocked
  BY <1>1 DEF Unblocked
<1> QED
  BY <1>2, Invariance, PTL

\* A DNS batch that has begun to wait for its own connection waits until the process
\* is restarted: neither the collector, which could end the reason for it, nor a
\* failure, nor anyone's timeout gets it out.
THEOREM OnlyRestartHelps == Spec => [][WaitsForItself => WaitsForItself' \/ Restart]_vars
<1>1. ASSUME IInv, [Next]_vars, WaitsForItself, ~Restart PROVE WaitsForItself'
  <2>d. Dns \in Procs /\ at[Dns] = "totals" /\ conn = Dns /\ todo[Dns] # "done" /\ conn # None
    BY <1>1, Distinct DEF WaitsForItself, At
  <2>w. ASSUME at'[Dns] = at[Dns], todo'[Dns] = todo[Dns], conn' = conn PROVE WaitsForItself'
    BY <1>1, <2>w DEF WaitsForItself, At
  <2>c. at[Collector] # "recorded"
    BY <1>1, <2>d, Distinct DEF IInv, ConnHeld
  <2>k. ASSUME NEW p \in Procs \ {Dns},
               Return(p) \/ (\E s \in Steps : Goto(p, s)) \/ (\E t \in Todos : Sync(p, t)),
               Return(p) \/ conn' = conn
        PROVE  WaitsForItself'
    <3>1. at'[Dns] = at[Dns] /\ todo'[Dns] = todo[Dns]
      BY <1>1, <2>d, <2>k DEF Return, Goto, Sync, IInv, TypeOK
    <3>2. conn' = conn
      BY <2>d, <2>k DEF Return, Without
    <3> QED
      BY <2>w, <3>1, <3>2
  <2>1. ASSUME NEW p \in Procs \ {Dns}, Step(p) PROVE WaitsForItself'
    <3> USE DEF Steps, Statements, Todos
    <3>1. CASE TakeMu(p) \/ Hold(p) \/ Notify(p)
      BY <2>k, <3>1 DEF TakeMu, Hold, Notify
    <3>s. ASSUME at[p] \in InSync, SyncFailed(p) PROVE WaitsForItself'
      BY <2>k, <3>s DEF SyncFailed, Keep, locks
    <3>2. CASE EnterSync(p) \/ Totals(p)
      BY <2>k, <3>2 DEF EnterSync, Totals, Keep, locks
    <3>3. CASE Nft(p)
      <4>1. todo[p] = "done" \/ todo[p] \in Steps
        BY <1>1, <3>3, WhereInSync DEF Nft, At, InSync, TodosOf
      <4> QED
        BY <2>k, <3>3, <4>1 DEF Nft, Keep, locks
    <3>4. CASE NftFails(p) \/ UndoTimeout(p)
      BY <3>s, <3>4 DEF NftFails, UndoTimeout, At, InSync
    <3>5. CASE StatementFails(p)
      BY <2>k, <3>s, <3>5 DEF StatementFails, At, InSync, Keep, locks
    <3>6. CASE Of(p)
      <4>1. CASE p \in Clients /\ (Poll(p) \/ Read(p) \/ Insert(p) \/ Write(p) \/ Cleanup(p))
        BY <2>k, <4>1 DEF Poll, Read, Insert, Write, Cleanup, Keep, locks
      <4>2. CASE p = Reconciler /\ ReadRound
        BY <2>k, <4>2 DEF ReadRound, Keep, locks
      <4>3. CASE p = Collector /\ (Counters \/ Baselines \/ Committed)
        BY <2>k, <4>3 DEF Counters, Baselines, Committed, Keep, locks
      <4>4. CASE p = Collector /\ (Record \/ Recorded \/ RecordFails)
        BY <2>c, <2>d, <4>4 DEF Record, Recorded, RecordFails, Run, At
      <4>5. CASE p = Collector /\ Publish
        BY <1>1, <2>d, <2>w, <4>5, Distinct DEF Publish, locks, IInv, TypeOK
      <4> QED
        BY <2>1, <3>6, <4>1, <4>2, <4>3, <4>4, <4>5 DEF Of
    <3> QED
      BY <2>1, <3>1, <3>2, <3>3, <3>4, <3>5, <3>6 DEF Step, Syncing
  <2>2. ~Step(Dns)
    BY <2>d, Distinct DEF Step, TakeMu, Hold, Notify, Syncing, EnterSync, Totals, Nft, NftFails,
       UndoTimeout, StatementFails, Aborted, Of, Snapshot, Clear, Resolve, ReadBatch, Begin,
       Commit, CommitFails, Run, At
  <2>3. CASE Start
    <3> USE DEF Steps, Statements
    <3>1. ASSUME NEW c \in Clients, Request(c) PROVE WaitsForItself'
      BY <2>k, <3>1, Distinct DEF Request, Keep, locks
    <3>2. CASE StartRound \/ StartTick
      BY <2>k, <3>2, Distinct DEF StartRound, StartTick, Keep, locks
    <3>3. ~StartDns
      BY <2>d DEF StartDns, At
    <3> QED
      BY <2>3, <3>1, <3>2, <3>3 DEF Start
  <2>4. CASE UNCHANGED vars
    BY <2>4, <2>w DEF vars, locks
  <2> QED
    BY <1>1, <2>1, <2>2, <2>3, <2>4 DEF Next
<1> QED
  BY <1>1, Invariance, PTL DEF Spec
=============================================================================
