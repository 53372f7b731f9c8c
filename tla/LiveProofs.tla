----------------------------- MODULE LiveProofs -----------------------------
(***************************************************************************)
(* Theorems about Live, for any panels, contents, channel sizes and retries.  *)
(* What matters of Live is liveness, which the runs check; what is proved is   *)
(* the bound of the channels, and that a panel which has come to show the       *)
(* truth goes on showing it.                                                  *)
(***************************************************************************)
EXTENDS Live, TLAPS

\* The last failed attempt starts the workers.
Trying == stage = "first" => attempt < Attempts
\* Only subscribed streams are sent anything, and a stream that has ended has nothing.
Channels == \A c \in Clients : c \notin subs => queue[c] = <<>>
Subscribed == \A c \in subs : At(Stream(c), "open")
IInv == TypeOK /\ Trying /\ Channels /\ Subscribed

-----------------------------------------------------------------------------
LEMMA BuilderKinds ==
    /\ Service \in Builders /\ Ticker \in Builders
    /\ \A c \in Clients : Stream(c) \in Builders /\ PollOf(c) \in Builders
    /\ \A c, d \in Clients : Stream(c) # PollOf(d) /\ Stream(c) # Service /\ Stream(c) # Ticker
                             /\ (Stream(c) = Stream(d) => c = d)
  BY DEF Builders, Stream, PollOf, Service, Ticker

\* A builder that goes on without touching a channel keeps the invariant, if it is no
\* open stream or stays one.
LEMMA BuildInv ==
    ASSUME IInv, NEW b \in Builders, NEW at \in Steps, NEW snap \in Snapshots,
           build' = [build EXCEPT ![b] = [at |-> at, snap |-> snap]],
           UNCHANGED <<stage, term, attempt, subs, queue>>,
           table' \in Contents, states' \in Contents \cup {0}, lastKey' \in Snapshots,
           view' \in [Clients -> Snapshots], changes' \in 0..MaxChanges, faults' \in 0..MaxFaults,
           build[b].at = "open" => at = "open"
    PROVE  IInv'
<1>1. build' \in [Builders -> [at : Steps, snap : Snapshots]] /\ \A d \in Builders : build[d].at = "open" => build'[d].at = "open"
  BY DEF IInv, TypeOK
<1>2. TypeOK' /\ Trying' /\ Channels'
  BY <1>1 DEF IInv, TypeOK, Trying, Channels
<1>3. Subscribed'
  BY <1>1, BuilderKinds DEF IInv, TypeOK, Subscribed, At
<1> QED
  BY <1>2, <1>3 DEF IInv

\* The service's own steps, which leave builders and channels alone.
LEMMA ServeInv ==
    ASSUME IInv, stage' \in {"down", "first", "workers", "closing", "late"}, term' \in BOOLEAN,
           attempt' \in 0..Attempts,
           stage' = "first" => attempt' < Attempts, states' \in Contents \cup {0},
           changes' \in 0..MaxChanges, faults' \in 0..MaxFaults,
           UNCHANGED <<table, build, lastKey, subs, queue, view>>
    PROVE  IInv'
  BY DEF IInv, TypeOK, Trying, Channels, Subscribed, At

LEMMA GoneInv ==
    ASSUME IInv, Gone, changes' \in 0..MaxChanges, faults' \in 0..MaxFaults
    PROVE  IInv'
<1>1. Nothing \in Snapshots /\ Idle \in [at : Steps, snap : Snapshots] /\ <<>> \in Seq(Snapshots) /\ Len(<<>>) = 0
  BY DEF Nothing, Snapshots, Idle, Steps
<1>2. term' \in BOOLEAN
  BY DEF Gone
<1>3. TypeOK'
  BY <1>1, <1>2, SizeAssumption DEF Gone, IInv, TypeOK
<1> QED
  BY <1>3 DEF Gone, IInv, Trying, Channels, Subscribed

LEMMA Counted ==
    /\ IInv /\ Change => changes' \in 0..MaxChanges /\ faults' \in 0..MaxFaults
    /\ IInv /\ Fault => changes' \in 0..MaxChanges /\ faults' \in 0..MaxFaults
    /\ IInv /\ UNCHANGED bounds => changes' \in 0..MaxChanges /\ faults' \in 0..MaxFaults
  BY BoundAssumption DEF IInv, TypeOK, Change, Fault, bounds

LEMMA Forms ==
    ASSUME IInv, NEW b \in Builders
    PROVE  /\ build[b].at \in Steps /\ build[b].snap \in Snapshots /\ Nothing \in Snapshots
           /\ \A s : Goto(b, s) => build' = [build EXCEPT ![b] = [at |-> s, snap |-> build[b].snap]]
           /\ \A s : Await(b, s) => build' = [build EXCEPT ![b] = [at |-> s, snap |-> Nothing]]
<1>1. build \in [Builders -> [at : Steps, snap : Snapshots]]
  BY DEF IInv, TypeOK
<1>2. ASSUME NEW s, Goto(b, s) PROVE build' = [build EXCEPT ![b] = [at |-> s, snap |-> build[b].snap]]
  <2>1. [build[b] EXCEPT !.at = s] = [at |-> s, snap |-> build[b].snap]
    BY <1>1
  <2>2. build' = [build EXCEPT ![b] = [build[b] EXCEPT !.at = s]]
    BY <1>2 DEF Goto
  <2> QED
    BY <2>1, <2>2
<1>3. build[b].at \in Steps /\ build[b].snap \in Snapshots /\ Nothing \in Snapshots
  BY <1>1 DEF Nothing, Snapshots
<1> QED
  BY <1>2, <1>3 DEF Await

LEMMA ReadingInv ==
    ASSUME IInv, NEW b \in Builders, Reading(b) \/ ReadFails(b)
    PROVE  IInv'
<1>1. /\ table \in Contents /\ states \in Contents \cup {0} /\ lastKey \in Snapshots /\ view \in [Clients -> Snapshots]
      /\ "states" \in Steps /\ "built" \in Steps
  BY DEF IInv, TypeOK, Steps
<1>2. CASE ReadRules(b)
  <2>1. /\ build' = [build EXCEPT ![b] = [at |-> "states", snap |-> [Nothing EXCEPT !.rules = table]]]
        /\ UNCHANGED <<table, states, stage, term, attempt, lastKey, subs, queue, view, bounds>> /\ build[b].at # "open"
    BY <1>2 DEF ReadRules, proc, At
  <2>2. [Nothing EXCEPT !.rules = table] \in Snapshots
    BY <1>1 DEF Nothing, Snapshots
  <2> QED
    BY <1>1, <2>1, <2>2, BuildInv, Counted
<1>3. CASE ReadFails(b)
  <2>1. /\ build' = [build EXCEPT ![b] = [at |-> "states", snap |-> Nothing]]
        /\ UNCHANGED <<table, states, stage, term, attempt, lastKey, subs, queue, view>> /\ build[b].at # "open" /\ Fault
    BY <1>3 DEF ReadFails, proc, At
  <2> QED
    BY <1>1, <2>1, Forms, BuildInv, Counted
<1>4. CASE ReadStates(b)
  <2>1. build[b].snap \in Snapshots
    BY DEF IInv, TypeOK
  <2>2. PICK snap \in Snapshots : snap = [build[b].snap EXCEPT !.states = states]
    BY <1>1, <2>1 DEF Snapshots
  <2>3. /\ build' = [build EXCEPT ![b] = [at |-> "built", snap |-> snap]] /\ build[b].at # "open"
        /\ UNCHANGED <<table, states, stage, term, attempt, lastKey, subs, queue, view, bounds>>
    BY <1>4, <2>2 DEF ReadStates, proc, At
  <2> QED
    BY <1>1, <2>3, BuildInv, Counted
<1> QED
  BY <1>2, <1>3, <1>4 DEF Reading

\* A published message goes to the subscribed streams that have room.
LEMMA PublishInv ==
    ASSUME IInv, NEW b \in {Service, Ticker}, Publish(b)
    PROVE  IInv'
<1>1. b \in Builders /\ build[b].at # "open" /\ build[b].snap \in Snapshots /\ build' = [build EXCEPT ![b] = Idle]
  BY BuilderKinds, Forms DEF Publish, At, Await, Idle
<1>2. /\ queue' = [c \in Clients |-> IF c \in subs /\ Room(c) THEN Append(queue[c], build[b].snap) ELSE queue[c]]
      /\ UNCHANGED <<table, states, stage, term, attempt, lastKey, subs, view, changes, faults>>
  BY DEF Publish, proc, bounds
<1>3. queue' \in [Clients -> Seq(Snapshots)] /\ \A c \in Clients : Len(queue'[c]) <= QueueSize
  <2>1. ASSUME NEW c \in Clients PROVE queue'[c] \in Seq(Snapshots) /\ Len(queue'[c]) <= QueueSize
    <3>1. queue[c] \in Seq(Snapshots) /\ Len(queue[c]) <= QueueSize
      BY DEF IInv, TypeOK
    <3>2. Append(queue[c], build[b].snap) \in Seq(Snapshots) /\ Len(Append(queue[c], build[b].snap)) = Len(queue[c]) + 1
      BY <1>1, <3>1
    <3>3. CASE c \in subs /\ Room(c)
      BY <1>2, <3>1, <3>2, <3>3, SizeAssumption DEF Room
    <3>4. CASE ~(c \in subs /\ Room(c))
      BY <1>2, <3>1, <3>4
    <3> QED
      BY <3>3, <3>4
  <2> QED
    BY <1>2, <2>1
<1>4. build' \in [Builders -> [at : Steps, snap : Snapshots]]
  BY <1>1 DEF IInv, TypeOK, Idle, Steps, Nothing, Snapshots
<1>5. Channels' /\ Trying'
  BY <1>2 DEF IInv, Channels, Trying
<1>6. Subscribed'
  BY <1>1, <1>2, BuilderKinds DEF IInv, TypeOK, Subscribed, At
<1>7. TypeOK'
  BY <1>2, <1>3, <1>4 DEF IInv, TypeOK
<1> QED
  BY <1>5, <1>6, <1>7 DEF IInv

LEMMA StreamInv ==
    ASSUME IInv, NEW c \in Clients,
           Connect(c) \/ Greet(c) \/ Subscribe(c) \/ Deliver(c) \/ Break(c) \/ Poll(c) \/ Answer(c) \/ PollFails(c)
    PROVE  IInv'
<1>1. /\ table \in Contents /\ states \in Contents \cup {0} /\ lastKey \in Snapshots /\ view \in [Clients -> Snapshots]
      /\ build \in [Builders -> [at : Steps, snap : Snapshots]] /\ {"idle", "rules", "subscribe", "open"} \subseteq Steps
      /\ Stream(c) \in Builders /\ PollOf(c) \in Builders
      /\ build[Stream(c)].snap \in Snapshots /\ build[PollOf(c)].snap \in Snapshots /\ Nothing \in Snapshots
  BY BuilderKinds, Forms DEF IInv, TypeOK, Steps
<1>2. CASE Connect(c) \/ Poll(c)
  <2>1. PICK b \in {Stream(c), PollOf(c)} : Goto(b, "rules") /\ build[b].at = "idle"
    BY <1>2 DEF Connect, Poll, At
  <2>2. UNCHANGED <<table, states, stage, term, attempt, lastKey, subs, queue, view, bounds>>
    BY <1>2 DEF Connect, Poll, proc
  <2> QED
    BY <1>1, <2>1, <2>2, Forms, BuildInv, Counted
<1>3. CASE Greet(c) \/ Answer(c)
  <2>1. PICK b \in {Stream(c), PollOf(c)}, s \in {"subscribe", "idle"} :
            /\ Await(b, s) /\ build[b].at = "built" /\ view' = [view EXCEPT ![c] = build[b].snap]
    BY <1>3 DEF Greet, Answer, At
  <2>2. UNCHANGED <<table, states, stage, term, attempt, lastKey, subs, queue, bounds>>
    BY <1>3 DEF Greet, Answer, proc
  <2>3. view' \in [Clients -> Snapshots]
    BY <1>1, <2>1
  <2>4. build' = [build EXCEPT ![b] = [at |-> s, snap |-> Nothing]]
    BY <2>1 DEF Await
  <2> QED
    BY <1>1, <2>1, <2>2, <2>3, <2>4, BuildInv, Counted
<1>4. CASE PollFails(c)
  <2>1. /\ build' = [build EXCEPT ![PollOf(c)] = Idle] /\ Fault
        /\ UNCHANGED <<table, states, stage, term, attempt, lastKey, subs, queue, view>>
    BY <1>4 DEF PollFails, PollOver, proc
  <2>2. build' \in [Builders -> [at : Steps, snap : Snapshots]]
    BY <1>1, <2>1 DEF Idle
  <2>3. TypeOK' /\ Trying' /\ Channels'
    BY <2>1, <2>2, Counted DEF IInv, TypeOK, Trying, Channels
  <2>4. Subscribed'
    BY <1>1, <2>1, BuilderKinds DEF IInv, TypeOK, Subscribed, At
  <2> QED
    BY <2>3, <2>4 DEF IInv
<1>5. CASE Subscribe(c)
  <2>1. /\ Goto(Stream(c), "open") /\ subs' = subs \cup {c}
        /\ UNCHANGED <<table, states, stage, term, attempt, lastKey, queue, view, changes, faults>>
    BY <1>5 DEF Subscribe, proc, bounds
  <2>2. build' = [build EXCEPT ![Stream(c)] = [at |-> "open", snap |-> build[Stream(c)].snap]]
    BY <1>1, <2>1, Forms
  <2>3. TypeOK' /\ Trying' /\ Channels'
    BY <1>1, <2>1, <2>2 DEF IInv, TypeOK, Trying, Channels
  <2>4. Subscribed'
    BY <1>1, <2>1, <2>2, BuilderKinds DEF IInv, TypeOK, Subscribed, At
  <2> QED
    BY <2>3, <2>4 DEF IInv
<1>6. CASE Deliver(c)
  <2>1. /\ view' = [view EXCEPT ![c] = Head(queue[c])] /\ queue' = [queue EXCEPT ![c] = Tail(queue[c])] /\ queue[c] # <<>>
        /\ UNCHANGED <<table, states, stage, term, attempt, build, lastKey, subs, changes, faults>>
    BY <1>6 DEF Deliver, proc, bounds
  <2>2. queue \in [Clients -> Seq(Snapshots)] /\ Len(queue[c]) <= QueueSize
    BY DEF IInv, TypeOK
  <2>3. Head(queue[c]) \in Snapshots /\ Tail(queue[c]) \in Seq(Snapshots) /\ Len(Tail(queue[c])) <= QueueSize
    BY <2>1, <2>2, SizeAssumption
  <2>4. TypeOK' /\ Trying' /\ Subscribed'
    BY <1>1, <2>1, <2>2, <2>3 DEF IInv, TypeOK, Trying, Subscribed, At
  <2>5. c \in subs
    BY <2>1 DEF IInv, Channels
  <2>6. Channels'
    BY <2>1, <2>2, <2>5 DEF IInv, Channels
  <2> QED
    BY <2>4, <2>6 DEF IInv
<1>7. CASE Break(c)
  <2>1. /\ build' = [build EXCEPT ![Stream(c)] = Idle] /\ subs' = subs \ {c} /\ queue' = [queue EXCEPT ![c] = <<>>]
        /\ UNCHANGED <<table, states, stage, term, attempt, lastKey, view>> /\ Fault
    BY <1>7 DEF Break, proc
  <2>2. <<>> \in Seq(Snapshots) /\ Len(<<>>) = 0 /\ Idle \in [at : Steps, snap : Snapshots]
    BY <1>1 DEF Idle
  <2>3. queue' \in [Clients -> Seq(Snapshots)] /\ \A d \in Clients : Len(queue'[d]) <= QueueSize
    BY <2>1, <2>2, SizeAssumption DEF IInv, TypeOK
  <2>4. TypeOK' /\ Trying'
    BY <1>1, <2>1, <2>2, <2>3, Counted DEF IInv, TypeOK, Trying
  <2>5. Channels'
    BY <2>1 DEF IInv, TypeOK, Channels
  <2>6. Subscribed'
    BY <1>1, <2>1, BuilderKinds DEF IInv, TypeOK, Subscribed, At
  <2> QED
    BY <2>4, <2>5, <2>6 DEF IInv
<1> QED
  BY <1>2, <1>3, <1>4, <1>5, <1>6, <1>7

LEMMA NextInv == IInv /\ [Next]_vars => IInv'
<1> SUFFICES ASSUME IInv, [Next]_vars PROVE IInv'
  OBVIOUS
<1>t. /\ table \in Contents /\ states \in Contents \cup {0} /\ attempt \in 0..Attempts
      /\ lastKey \in Snapshots /\ view \in [Clients -> Snapshots] /\ (stage = "first" => attempt < Attempts)
      /\ {"idle", "rules", "publish"} \subseteq Steps /\ term \in BOOLEAN
      /\ stage \in {"down", "first", "workers", "closing", "late"}
  BY DEF IInv, TypeOK, Trying, Steps
<1>1. CASE Start \/ Signal \/ FirstRound \/ FirstRoundFails \/ Round \/ Close \/ Expire
  <2>1. UNCHANGED <<table, build, lastKey, subs, queue, view>>
    BY <1>1 DEF Start, Signal, FirstRound, FirstRoundFails, Round, Close, Expire
  <2>2. changes' \in 0..MaxChanges /\ faults' \in 0..MaxFaults
    BY <1>1, Counted DEF Start, Signal, FirstRound, FirstRoundFails, Round, Close, Expire
  <2>3. stage' = "first" => attempt' < Attempts
    BY <1>1, <1>t, SizeAssumption DEF Start, Signal, FirstRound, FirstRoundFails, Round, Close, Expire, proc
  <2>4. attempt' \in 0..Attempts /\ states' \in Contents \cup {0}
    <3>1. CASE FirstRoundFails
      BY <1>t, <3>1, SizeAssumption DEF FirstRoundFails
    <3>2. CASE Start \/ Signal \/ FirstRound \/ Round \/ Close \/ Expire
      BY <1>t, <3>2, SizeAssumption DEF Start, Signal, FirstRound, Round, Close, Expire, proc
    <3> QED
      BY <1>1, <3>1, <3>2
  <2>5. stage' \in {"down", "first", "workers", "closing", "late"}
    BY <1>1, <1>t DEF Start, Signal, FirstRound, FirstRoundFails, Round, Close, Expire, proc
  <2>6. term' = term \/ term' = TRUE
    BY <1>1 DEF Start, Signal, FirstRound, FirstRoundFails, Round, Close, Expire, proc
  <2>7. term' \in BOOLEAN
    BY <1>t, <2>6
  <2> QED
    BY <2>1, <2>2, <2>3, <2>4, <2>5, <2>7, ServeInv
<1>2. CASE Exit \/ Crash
  BY <1>2, Counted, GoneInv DEF Exit, Crash
<1>3. CASE Call \/ Tick
  <2>1. PICK b \in {Service, Ticker} : Goto(b, "rules") /\ build[b].at = "idle"
    BY <1>3 DEF Call, Tick, At
  <2>2. table' \in Contents /\ changes' \in 0..MaxChanges /\ faults' \in 0..MaxFaults
    BY <1>3, <1>t, Counted DEF Call, Tick
  <2>3. UNCHANGED <<states, stage, term, attempt, lastKey, subs, queue, view>>
    BY <1>3 DEF Call, Tick, proc
  <2> QED
    BY <1>t, <2>1, <2>2, <2>3, BuilderKinds, Forms, BuildInv
<1>4. ASSUME NEW b \in Builders, Reading(b) \/ ReadFails(b) PROVE IInv'
  BY <1>4, ReadingInv
<1>5. ASSUME NEW b \in {Service, Ticker}, SetKey(b) PROVE IInv'
  <2>1. b \in Builders /\ build[b].at = "built" /\ build[b].snap \in Snapshots /\ Nothing \in Snapshots
    BY <1>5, BuilderKinds, Forms DEF SetKey, At
  <2>2. PICK s \in Steps, snap \in Snapshots : build' = [build EXCEPT ![b] = [at |-> s, snap |-> snap]]
    BY <1>5, <1>t, <2>1, Forms DEF SetKey
  <2>3. lastKey' \in Snapshots /\ UNCHANGED <<table, states, stage, term, attempt, subs, queue, view, bounds>>
    BY <1>5, <2>1 DEF SetKey, proc
  <2> QED
    BY <1>t, <2>1, <2>2, <2>3, BuildInv, Counted
<1>6. ASSUME NEW b \in {Service, Ticker}, Publish(b) PROVE IInv'
  BY <1>6, PublishInv
<1>7. ASSUME NEW c \in Clients, Connect(c) \/ Greet(c) \/ Subscribe(c) \/ Deliver(c) \/ Break(c)
                                \/ Poll(c) \/ Answer(c) \/ PollFails(c)
      PROVE  IInv'
  BY <1>7, StreamInv
<1>8. CASE UNCHANGED vars
  BY <1>8 DEF vars, proc, bounds, IInv, TypeOK, Trying, Channels, Subscribed, At
<1> QED
  BY <1>1, <1>2, <1>3, <1>4, <1>5, <1>6, <1>7, <1>8 DEF Next, Serve

LEMMA InitInv == Init => IInv
<1> SUFFICES ASSUME Init PROVE IInv
  OBVIOUS
<1>1. Nothing \in Snapshots /\ Idle \in [at : Steps, snap : Snapshots] /\ <<>> \in Seq(Snapshots) /\ Len(<<>>) = 0
  BY DEF Nothing, Snapshots, Idle, Steps
<1>2. term \in BOOLEAN
  BY DEF Init
<1>3. TypeOK
  BY <1>1, <1>2, SizeAssumption, BoundAssumption DEF Init, TypeOK
<1>4. Trying /\ Channels /\ Subscribed
  BY DEF Init, Trying, Channels, Subscribed
<1> QED
  BY <1>3, <1>4 DEF IInv

-----------------------------------------------------------------------------
\* Snapshots, channels, streams and stages keep their types, and no channel is ever
\* longer than its capacity, which is what publishers drop messages for.
THEOREM TypeCorrect == Spec => []TypeOK
<1>1. IInv => TypeOK
  BY DEF IInv
<1> QED
  BY <1>1, InitInv, NextInv, PTL DEF Spec
-----------------------------------------------------------------------------
(* The lasting half of CatchesUp.                                          *)

\* Whatever a builder has read is what is stored now, and so is what waits in a
\* channel and what a panel shows.
Upright(b) ==
    /\ At(b, "states") => build[b].snap.rules = table
    /\ At(b, "built") \/ At(b, "publish") => build[b].snap = Now
Settled ==
    /\ \A b \in Builders : Upright(b)
    /\ \A c \in Clients : view[c] = Now /\ \A n \in 1..Len(queue[c]) : queue[c][n] = Now

\* Once panels show the truth and nothing older is under way to them, they show it
\* until a rule or a state changes or something fails: no order of publishers, streams
\* and polls brings an older picture back (server.go:363-378, handlers.go:47-66).
StaysTrue == [][Settled /\ UNCHANGED <<table, states, faults>> => Settled']_vars

\* A builder's step keeps everything settled if what it has then is the truth.
LEMMA BuildSettled ==
    ASSUME IInv, Settled, UNCHANGED <<table, states, queue, view>>, NEW b \in Builders,
           NEW at \in Steps, NEW snap \in Snapshots,
           build' = [build EXCEPT ![b] = [at |-> at, snap |-> snap]],
           at = "states" => snap.rules = table, at \in {"built", "publish"} => snap = Now
    PROVE  Settled'
<1>1. build' \in [Builders -> [at : Steps, snap : Snapshots]] /\ build'[b] = [at |-> at, snap |-> snap]
  BY DEF IInv, TypeOK
<1>2. \A d \in Builders \ {b} : build'[d] = build[d]
  BY DEF IInv, TypeOK
<1>3. Now' = Now
  BY DEF Now
<1>4. ASSUME NEW d \in Builders PROVE Upright(d)'
  <2>1. CASE d = b
    BY <1>1, <1>3, <2>1 DEF Upright, At
  <2>2. CASE d # b
    BY <1>2, <1>3, <2>2 DEF Settled, Upright, At
  <2> QED
    BY <2>1, <2>2
<1> QED
  BY <1>3, <1>4 DEF Settled

\* What is shown or sent next is one of the pictures that are settled already.
LEMMA ShowSettled ==
    ASSUME IInv, Settled, UNCHANGED <<table, states>>, NEW b \in Builders, NEW at \in {"idle", "subscribe", "open"},
           build' = [build EXCEPT ![b] = [at |-> at, snap |-> Nothing]] \/ UNCHANGED build,
           \A c \in Clients : view'[c] = Now /\ \A n \in 1..Len(queue'[c]) : queue'[c][n] = Now
    PROVE  Settled'
<1>1. Now' = Now
  BY DEF Now
<1>2. ASSUME NEW d \in Builders PROVE Upright(d)'
  <2>1. build'[d] = build[d] \/ build'[d] = [at |-> at, snap |-> Nothing]
    BY DEF IInv, TypeOK
  <2> QED
    BY <1>1, <2>1 DEF Settled, Upright, At
<1> QED
  BY <1>1, <1>2 DEF Settled

LEMMA ReadSettled ==
    ASSUME IInv, Settled, NEW b \in Builders, Reading(b) PROVE Settled'
<1>1. UNCHANGED <<table, states, queue, view>> /\ table \in Contents /\ states \in Contents \cup {0}
  BY DEF Reading, ReadRules, ReadStates, IInv, TypeOK
<1>2. CASE ReadRules(b)
  <2>1. [Nothing EXCEPT !.rules = table] = [rules |-> table, states |-> 0]
    BY DEF Nothing
  <2>2. build' = [build EXCEPT ![b] = [at |-> "states", snap |-> [rules |-> table, states |-> 0]]]
    BY <1>2, <2>1 DEF ReadRules
  <2> DEFINE snap == [rules |-> table, states |-> 0]
  <2>3. snap \in Snapshots /\ snap.rules = table /\ "states" \in Steps
    BY <1>1 DEF Steps, Snapshots
  <2> HIDE DEF snap
  <2> QED
    BY <1>1, <2>2, <2>3, BuildSettled DEF snap
<1>3. CASE ReadStates(b)
  <2>1. build[b].snap \in Snapshots /\ build[b].snap.rules = table
    BY <1>3 DEF ReadStates, IInv, TypeOK, Settled, Upright
  <2>2. [build[b].snap EXCEPT !.states = states] = Now
    BY <2>1 DEF Snapshots, Now
  <2>3. build' = [build EXCEPT ![b] = [at |-> "built", snap |-> Now]] /\ Now \in Snapshots
    BY <1>1, <1>3, <2>2 DEF ReadStates, Now, Snapshots
  <2> QED
    BY <1>1, <2>3, BuildSettled DEF Steps
<1> QED
  BY <1>2, <1>3 DEF Reading

LEMMA PublishSettled ==
    ASSUME IInv, Settled, NEW b \in {Service, Ticker}, Publish(b) PROVE Settled'
<1>1. b \in Builders /\ build[b].snap = Now /\ UNCHANGED <<table, states, view>>
  BY BuilderKinds DEF Publish, Settled, Upright
<1>2. build' = [build EXCEPT ![b] = [at |-> "idle", snap |-> Nothing]]
  BY DEF Publish, Await
<1>3. ASSUME NEW c \in Clients, NEW n \in 1..Len(queue'[c]) PROVE queue'[c][n] = Now
  <2>1. queue[c] \in Seq(Snapshots) /\ \A m \in 1..Len(queue[c]) : queue[c][m] = Now
    BY DEF IInv, TypeOK, Settled
  <2>2. queue'[c] = Append(queue[c], build[b].snap) \/ queue'[c] = queue[c]
    BY DEF Publish
  <2> QED
    BY <1>1, <1>3, <2>1, <2>2
<1> QED
  BY <1>1, <1>2, <1>3, ShowSettled DEF Settled

LEMMA ClientSettled ==
    ASSUME IInv, Settled, NEW c \in Clients, UNCHANGED <<table, states, faults>>,
           Connect(c) \/ Greet(c) \/ Subscribe(c) \/ Deliver(c) \/ Poll(c) \/ Answer(c)
    PROVE  Settled'
<1>1. /\ Stream(c) \in Builders /\ PollOf(c) \in Builders /\ Nothing \in Snapshots
      /\ view \in [Clients -> Snapshots] /\ queue \in [Clients -> Seq(Snapshots)]
  BY BuilderKinds DEF IInv, TypeOK, Nothing, Snapshots
<1>2. CASE Connect(c) \/ Poll(c) \/ Subscribe(c)
  <2>1. PICK b \in {Stream(c), PollOf(c)}, at \in {"rules", "open"} : Goto(b, at)
    BY <1>2 DEF Connect, Poll, Subscribe
  <2>2. UNCHANGED <<queue, view>>
    BY <1>2 DEF Connect, Poll, Subscribe
  <2> QED
    BY <1>1, <2>1, <2>2, Forms, BuildSettled DEF Steps
<1>3. CASE Greet(c) \/ Answer(c)
  <2>1. PICK b \in {Stream(c), PollOf(c)}, at \in {"subscribe", "idle"} :
            Await(b, at) /\ At(b, "built") /\ view' = [view EXCEPT ![c] = build[b].snap]
    BY <1>3 DEF Greet, Answer
  <2>2. build[b].snap = Now
    BY <1>1, <2>1 DEF Settled, Upright
  <2>3. \A d \in Clients : view'[d] = Now /\ \A n \in 1..Len(queue'[d]) : queue'[d][n] = Now
    BY <1>1, <1>3, <2>1, <2>2 DEF Settled, Greet, Answer
  <2>4. b \in Builders /\ build' = [build EXCEPT ![b] = [at |-> at, snap |-> Nothing]]
    BY <1>1, <2>1 DEF Await
  <2> QED
    BY <2>3, <2>4, ShowSettled
<1>4. CASE Deliver(c)
  <2>1. queue[c] \in Seq(Snapshots) /\ queue[c] # <<>> /\ \A n \in 1..Len(queue[c]) : queue[c][n] = Now
    BY <1>1, <1>4 DEF Deliver, Settled
  <2>2. Head(queue[c]) = Now /\ \A n \in 1..Len(Tail(queue[c])) : Tail(queue[c])[n] = Now
    BY <2>1
  <2>3. /\ view' = [view EXCEPT ![c] = Head(queue[c])] /\ queue' = [queue EXCEPT ![c] = Tail(queue[c])]
        /\ UNCHANGED build
    BY <1>4 DEF Deliver
  <2>4. ASSUME NEW d \in Clients PROVE view'[d] = Now /\ \A n \in 1..Len(queue'[d]) : queue'[d][n] = Now
    BY <1>1, <2>2, <2>3 DEF Settled
  <2> QED
    BY <1>1, <2>3, <2>4, ShowSettled
<1> QED
  BY <1>2, <1>3, <1>4

\* Nothing older comes back to a panel that shows the truth (StaysTrue).
THEOREM NothingOlderReturns == Spec => StaysTrue
<1>1. ASSUME IInv, [Next]_vars, Settled, UNCHANGED <<table, states, faults>> PROVE Settled'
  <2>b. Service \in Builders /\ Ticker \in Builders /\ ~Fault
    BY <1>1, BuilderKinds, BoundAssumption DEF Fault, IInv, TypeOK
  <2>1. CASE Start \/ FirstRound \/ FirstRoundFails \/ Round \/ Close \/ Expire \/ UNCHANGED vars
    <3>1. UNCHANGED <<table, states, build, queue, view>>
      BY <1>1, <2>1 DEF Start, FirstRound, FirstRoundFails, Round, Close, Expire, vars
    <3> QED
      BY <1>1, <3>1 DEF Settled, Upright, At, Now
  <2>2. CASE Exit
    <3>1. Now' = Now
      BY <1>1 DEF Now
    <3>2. \A b \in Builders : build'[b].at = "idle"
      BY <2>2 DEF Exit, Gone, Idle
    <3>3. \A c \in Clients : view'[c] = view[c] /\ Len(queue'[c]) = 0
      BY <2>2 DEF Exit, Gone
    <3> QED
      BY <1>1, <3>1, <3>2, <3>3 DEF Settled, Upright, At
  <2>3. CASE Call \/ Tick
    <3>1. PICK b \in {Service, Ticker} : Goto(b, "rules")
      BY <2>3 DEF Call, Tick
    <3>2. UNCHANGED <<queue, view>>
      BY <2>3 DEF Call, Tick
    <3> QED
      BY <1>1, <2>b, <3>1, <3>2, Forms, BuildSettled DEF Steps
  <2>4. ASSUME NEW b \in Builders, Reading(b) PROVE Settled'
    BY <1>1, <2>4, ReadSettled
  <2>5. ASSUME NEW b \in {Service, Ticker}, SetKey(b) PROVE Settled'
    <3>1. build[b].snap = Now /\ build[b].snap \in Snapshots /\ Nothing \in Snapshots /\ UNCHANGED <<queue, view>>
      BY <1>1, <2>5, <2>b, Forms DEF SetKey, Settled, Upright
    <3>2. CASE Await(b, "idle")
      BY <1>1, <2>b, <3>1, <3>2, BuildSettled DEF Await, Steps
    <3>3. CASE Goto(b, "publish")
      BY <1>1, <2>b, <3>1, <3>3, Forms, BuildSettled DEF Steps
    <3> QED
      BY <2>5, <3>2, <3>3 DEF SetKey
  <2>6. ASSUME NEW b \in {Service, Ticker}, Publish(b) PROVE Settled'
    BY <1>1, <2>6, PublishSettled
  <2>7. ASSUME NEW c \in Clients, Connect(c) \/ Greet(c) \/ Subscribe(c) \/ Deliver(c) \/ Poll(c) \/ Answer(c)
        PROVE  Settled'
    BY <1>1, <2>7, ClientSettled
  <2> QED
    BY <1>1, <2>b, <2>1, <2>2, <2>3, <2>4, <2>5, <2>6, <2>7
    DEF Next, Serve, Signal, Crash, ReadFails, Break, PollFails
<1> QED
  BY <1>1, InitInv, NextInv, PTL DEF Spec, StaysTrue
=============================================================================
