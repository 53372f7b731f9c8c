-------------------------------- MODULE Live --------------------------------
(***************************************************************************)
(* What an open panel shows.  Service.Serve starts the HTTP server, the first *)
(* enforcement and the workers, and stops them; snapshots of the rules and of  *)
(* the policy's states are built by the mutation service after each call, by a *)
(* ticker, by each event stream when it opens and by each poll, and reach the  *)
(* browser over the stream's bounded channel or as the answer to the poll.    *)
(***************************************************************************)
EXTENDS Integers, Sequences, FiniteSets

CONSTANTS
    Clients,      \* open panels
    Contents,     \* contents of the rule table, and of the policy's states
    QueueSize,    \* capacity of a stream's channel (32)
    Attempts,     \* initialReconcileAttempts (5)
    Polling,      \* TRUE: the panel is on the view that polls /api/summary
    MaxChanges,   \* bound: changes of the table and of the states
    MaxFaults     \* bound: failed reads, broken connections, failed rounds, stops

ASSUME SizeAssumption == QueueSize \in Nat \ {0} /\ Attempts \in Nat \ {0}
ASSUME BoundAssumption == MaxChanges \in Nat /\ MaxFaults \in Nat /\ Polling \in BOOLEAN
ASSUME ContentAssumption == Contents \subseteq Nat \ {0}

VARIABLES
    table,    \* SQLite: what ListActive and the totals return
    states,   \* policy.Service.states, 0 before the first round
    stage,    \* Serve: "down", "first" enforcement, "workers", "closing" in Shutdown,
              \* "late" when its timeout is over
    term,     \* the context of SIGTERM is cancelled
    attempt,  \* reconcileWithRetry: failed attempts
    build,    \* every goroutine that builds snapshots: its step and what it has read
    lastKey,  \* lastSnapKey
    subs,     \* subscribed streams
    queue,    \* the channels of the streams
    view,     \* what each panel shows
    changes, faults

proc == <<stage, term, attempt>>
bounds == <<changes, faults>>
vars == <<table, states, proc, build, lastKey, subs, queue, view, bounds>>

Stream(c) == <<"stream", c>>
PollOf(c) == <<"poll", c>>
Service == <<"service", 0>>
Ticker == <<"ticker", 0>>
Builders == {Service, Ticker} \cup {Stream(c) : c \in Clients} \cup {PollOf(c) : c \in Clients}

\* 0 is a read that failed, or nothing published yet.
Snapshots == [rules : Contents \cup {0}, states : Contents \cup {0}]
Nothing == [rules |-> 0, states |-> 0]
Now == [rules |-> table, states |-> states]

Steps == {"idle", "rules", "states", "built", "publish", "subscribe", "open"}
Idle == [at |-> "idle", snap |-> Nothing]

TypeOK ==
    /\ table \in Contents /\ states \in Contents \cup {0}
    /\ stage \in {"down", "first", "workers", "closing", "late"} /\ term \in BOOLEAN /\ attempt \in 0..Attempts
    /\ build \in [Builders -> [at : Steps, snap : Snapshots]]
    /\ lastKey \in Snapshots
    /\ subs \subseteq Clients
    /\ queue \in [Clients -> Seq(Snapshots)] /\ \A c \in Clients : Len(queue[c]) <= QueueSize
    /\ view \in [Clients -> Snapshots]
    /\ changes \in 0..MaxChanges /\ faults \in 0..MaxFaults

Init ==
    /\ table \in Contents /\ states = 0
    /\ stage = "down" /\ term = FALSE /\ attempt = 0
    /\ build = [b \in Builders |-> Idle] /\ lastKey = Nothing
    /\ subs = {} /\ queue = [c \in Clients |-> <<>>] /\ view = [c \in Clients |-> Nothing]
    /\ changes = 0 /\ faults = 0

Change == changes < MaxChanges /\ changes' = changes + 1 /\ UNCHANGED faults
Fault == faults < MaxFaults /\ faults' = faults + 1 /\ UNCHANGED changes
At(b, s) == build[b].at = s
Goto(b, s) == build' = [build EXCEPT ![b].at = s]
Await(b, s) == build' = [build EXCEPT ![b] = [at |-> s, snap |-> Nothing]]

-----------------------------------------------------------------------------
(* Service.Serve and the policy's rounds.                                   *)

Start ==
    /\ stage = "down" /\ stage' = "first" /\ attempt' = 0
    /\ UNCHANGED <<table, states, term, build, lastKey, subs, queue, view, bounds>>

\* SIGTERM.  Everything but the Shutdown below runs under the context it cancels.
Signal ==
    /\ stage # "down" /\ ~term /\ Fault /\ term' = TRUE
    /\ UNCHANGED <<table, states, stage, attempt, build, lastKey, subs, queue, view>>

\* The first rounds: after a success, or the last failure, the workers start.
FirstRound ==
    /\ stage = "first" /\ states' \in Contents /\ stage' = "workers"
    /\ UNCHANGED <<table, term, attempt, build, lastKey, subs, queue, view, bounds>>

\* A round under a cancelled context fails, and no other is tried.
FirstRoundFails ==
    /\ stage = "first" /\ (IF term THEN UNCHANGED bounds ELSE Fault)
    /\ attempt' = attempt + 1
    /\ stage' = IF term \/ attempt' = Attempts THEN "workers" ELSE "first"
    /\ UNCHANGED <<table, states, term, build, lastKey, subs, queue, view>>

\* A later round that succeeds publishes its states; one that fails, none.
Round ==
    /\ stage = "workers" /\ states' \in Contents \ {states}
    /\ IF states = 0 THEN UNCHANGED bounds ELSE Change
    /\ UNCHANGED <<table, proc, build, lastKey, subs, queue, view>>

\* The select of Serve: the workers' contexts are cancelled, Shutdown is called.
Close ==
    /\ stage = "workers" /\ term /\ stage' = "closing"
    /\ UNCHANGED <<table, states, term, attempt, build, lastKey, subs, queue, view, bounds>>

\* Shutdown's 10 s are over while it waits for requests.
Expire ==
    /\ stage = "closing" /\ stage' = "late"
    /\ UNCHANGED <<table, states, term, attempt, build, lastKey, subs, queue, view, bounds>>

\* Shutdown returns when no request is active, an open stream being one, or late.
Drained == \A b \in Builders \ {Ticker} : At(b, "idle")
OnlyDrained == stage = "closing" /\ Drained
Shut == stage = "late" \/ (stage = "closing" /\ Drained)

\* The end of the process: what it kept in memory is gone, streams and polls fail.
Gone ==
    /\ stage' = "down" /\ term' = FALSE /\ states' = 0 /\ lastKey' = Nothing
    /\ build' = [b \in Builders |-> Idle] /\ subs' = {} /\ queue' = [c \in Clients |-> <<>>]
    /\ UNCHANGED <<table, attempt, view>>

Exit == Shut /\ Gone /\ UNCHANGED bounds

Crash == stage # "down" /\ Fault /\ Gone

-----------------------------------------------------------------------------
(* buildFullSnapshot: ListActive, then policy.States, then the totals.       *)

ReadRules(b) ==
    /\ At(b, "rules")
    /\ build' = [build EXCEPT ![b] = [at |-> "states", snap |-> [Nothing EXCEPT !.rules = table]]]
    /\ UNCHANGED <<table, states, proc, lastKey, subs, queue, view, bounds>>

\* The error of ListActive is dropped: the snapshot is one without rules.
ReadFails(b) ==
    /\ At(b, "rules") /\ Fault
    /\ build' = [build EXCEPT ![b] = [at |-> "states", snap |-> Nothing]]
    /\ UNCHANGED <<table, states, proc, lastKey, subs, queue, view>>

ReadStates(b) ==
    /\ At(b, "states")
    /\ build' = [build EXCEPT ![b] = [at |-> "built", snap |-> [@.snap EXCEPT !.states = states]]]
    /\ UNCHANGED <<table, states, proc, lastKey, subs, queue, view, bounds>>

-----------------------------------------------------------------------------
(* Publishers.  The service's calls are serialised by its lock, which is held *)
(* until the snapshot is out; nothing orders them against the ticker.        *)

Call ==
    /\ At(Service, "idle") /\ stage # "down" /\ Change
    /\ table' \in Contents \ {table} /\ Goto(Service, "rules")
    /\ UNCHANGED <<states, proc, lastKey, subs, queue, view>>

\* PublishSnapshotTick: nothing to do without subscribers.
Tick ==
    /\ At(Ticker, "idle") /\ stage = "workers" /\ subs # {} /\ Goto(Ticker, "rules")
    /\ UNCHANGED <<table, states, proc, lastKey, subs, queue, view, bounds>>

\* publishSnapshot sets the key, the tick ends if it is the same.
SetKey(b) ==
    /\ b \in {Service, Ticker} /\ At(b, "built")
    /\ lastKey' = build[b].snap
    /\ IF b = Ticker /\ lastKey = build[b].snap THEN Await(b, "idle") ELSE Goto(b, "publish")
    /\ UNCHANGED <<table, states, proc, subs, queue, view, bounds>>

\* PublishSSE: a channel that is full misses the message.
RoomAtTheBrim(c) == Len(queue[c]) <= QueueSize
Room(c) == Len(queue[c]) < QueueSize
WaitsForRoom == \A c \in subs : Room(c)
NeverWaits == TRUE
Publish(b) ==
    /\ At(b, "publish") /\ NeverWaits
    /\ queue' = [c \in Clients |-> IF c \in subs /\ Room(c)
                                   THEN Append(queue[c], build[b].snap) ELSE queue[c]]
    /\ Await(b, "idle")
    /\ UNCHANGED <<table, states, proc, lastKey, subs, view, bounds>>

-----------------------------------------------------------------------------
(* handleEvents, and the browser's EventSource.                              *)

Connect(c) ==
    /\ stage \in {"first", "workers"} /\ At(Stream(c), "idle") /\ Goto(Stream(c), "rules")
    /\ UNCHANGED <<table, states, proc, lastKey, subs, queue, view, bounds>>

\* The first packet is written, and the panel renders it, before the subscription.
Greet(c) ==
    /\ At(Stream(c), "built") /\ view' = [view EXCEPT ![c] = build[Stream(c)].snap]
    /\ Await(Stream(c), "subscribe")
    /\ UNCHANGED <<table, states, proc, lastKey, subs, queue, bounds>>

Subscribe(c) ==
    /\ At(Stream(c), "subscribe") /\ subs' = subs \cup {c} /\ Goto(Stream(c), "open")
    /\ UNCHANGED <<table, states, proc, lastKey, queue, view, bounds>>

Deliver(c) ==
    /\ At(Stream(c), "open") /\ queue[c] # <<>>
    /\ view' = [view EXCEPT ![c] = Head(queue[c])]
    /\ queue' = [queue EXCEPT ![c] = Tail(@)]
    /\ UNCHANGED <<table, states, proc, build, lastKey, subs, bounds>>

\* The connection breaks: the handler returns and takes its channel out.
Break(c) ==
    /\ ~At(Stream(c), "idle") /\ Fault
    /\ build' = [build EXCEPT ![Stream(c)] = Idle]
    /\ subs' = subs \ {c} /\ queue' = [queue EXCEPT ![c] = <<>>]
    /\ UNCHANGED <<table, states, proc, lastKey, view>>

-----------------------------------------------------------------------------
(* loadSummary: every 8 s on the first view, and after each call of the panel. *)
(* One request at a time: api() hands out the one in flight.                  *)

Poll(c) ==
    /\ Polling /\ stage \in {"first", "workers"}
    /\ At(PollOf(c), "idle") /\ Goto(PollOf(c), "rules")
    /\ UNCHANGED <<table, states, proc, lastKey, subs, queue, view, bounds>>

Answer(c) ==
    /\ At(PollOf(c), "built") /\ view' = [view EXCEPT ![c] = build[PollOf(c)].snap]
    /\ Await(PollOf(c), "idle")
    /\ UNCHANGED <<table, states, proc, lastKey, subs, queue, bounds>>

\* The request fails; finally() makes room for the next one.
StaysInFlight(c) == [build EXCEPT ![PollOf(c)].at = "open"]
PollOver(c) == [build EXCEPT ![PollOf(c)] = Idle]
PollFails(c) ==
    /\ ~At(PollOf(c), "idle") /\ Fault /\ build' = PollOver(c)
    /\ UNCHANGED <<table, states, proc, lastKey, subs, queue, view>>

-----------------------------------------------------------------------------
Reading(b) == ReadRules(b) \/ ReadStates(b)
Serving(b) == Reading(b) \/ SetKey(b) \/ Publish(b)
\* The goroutine of Serve.
Serve == FirstRound \/ FirstRoundFails \/ Close \/ Expire \/ Exit

Next ==
    \/ Start \/ Signal \/ Serve \/ Round \/ Crash
    \/ Call \/ Tick
    \/ \E b \in Builders : Reading(b) \/ ReadFails(b)
    \/ \E b \in {Service, Ticker} : SetKey(b) \/ Publish(b)
    \/ \E c \in Clients : Connect(c) \/ Greet(c) \/ Subscribe(c) \/ Deliver(c) \/ Break(c)
                          \/ Poll(c) \/ Answer(c) \/ PollFails(c)

Spec == Init /\ [][Next]_vars

\* Goroutines run on, that of Serve included, whose first rounds run commands with a
\* timeout and whose Shutdown has one; tickers tick and the panel polls.  Nothing makes
\* a browser read its stream or a request end, or anyone start the process.
Fairness ==
    /\ WF_vars(Serve) /\ WF_vars(Tick)
    /\ \A b \in {Service, Ticker} : WF_vars(Serving(b))
    /\ \A c \in Clients : WF_vars(Reading(PollOf(c))) /\ WF_vars(Answer(c)) /\ WF_vars(Poll(c))

FairSpec == Spec /\ Fairness

-----------------------------------------------------------------------------
(* Properties.                                                             *)

\* Once nothing changes any more and the workers run, every panel that polls comes to
\* show what the table and the policy hold, and keeps showing it: snapshots that were
\* dropped, built before a subscription, published out of order or answered late are
\* made good (server.go:332, 360-378, 405; app.js:888-901).
CatchesUp == <>[](stage = "workers") => \A c \in Clients : <>[](view[c] = Now)

\* A rule change holds the mutation service's lock while it publishes, and no browser
\* that does not read its stream can keep it there (server.go:330-334).
CallsNeverWait == ~At(Service, "idle") ~> At(Service, "idle")

\* A stop ends whenever the signal comes, in the first rounds or later, although an
\* event stream never does, and a request need not (service.go:131-151, 163-179).
StopEnds == term ~> stage = "down"
=============================================================================
