----------------------------- MODULE IPSlotProofs -----------------------------
(***************************************************************************)
(* Theorems about IPSlot, for any set of addresses, any limits and windows. *)
(* IInv adds to the properties what holds in the middle of a round: which   *)
(* established addresses have had their turn, and what became of them.      *)
(***************************************************************************)
EXTENDS IPSlot, FiniteSetTheorems, TLAPS

Admitting == round.pc = "admit"

\* An established address loses its provisional status at its turn, and is only
\* without a slot after its turn when every slot is a formal one.
Full == prov = {} /\ limit > 0 /\ Cardinality(granted) >= limit
Turned == Admitting => prov \cap round.active \subseteq round.left
Served == \A ip \in round.active \ (granted \cup round.released \cup round.left) : Full
Young == Admitting => \A ip \in prov : now - candAt[ip] <= ProvTTL
Resting == Idling => round.left = {}

IInv == TypeOK /\ NoOversell /\ Turned /\ Served /\ Young /\ Resting

-----------------------------------------------------------------------------
\* The sizes a step can give the set of holders.
LEMMA Sizes ==
    ASSUME TypeOK
    PROVE  /\ IsFiniteSet(granted) /\ Cardinality(granted) \in Nat
           /\ \A S \in SUBSET granted :
                IsFiniteSet(S) /\ Cardinality(S) \in Nat /\ Cardinality(S) <= Cardinality(granted)
           /\ \A ip \in IPs \ granted : Cardinality(granted \cup {ip}) = Cardinality(granted) + 1
           /\ \A ip \in IPs \ granted, v \in granted :
                Cardinality((granted \ {v}) \cup {ip}) = Cardinality(granted)
<1>1. IsFiniteSet(granted)
  BY IPAssumption, FS_Subset DEF TypeOK
<1>2. Cardinality(granted) \in Nat
  BY <1>1, FS_CardinalityType
<1>3. ASSUME NEW S \in SUBSET granted
      PROVE  IsFiniteSet(S) /\ Cardinality(S) \in Nat /\ Cardinality(S) <= Cardinality(granted)
  BY <1>1, FS_Subset, FS_CardinalityType
<1>4. ASSUME NEW ip \in IPs \ granted
      PROVE  Cardinality(granted \cup {ip}) = Cardinality(granted) + 1
  BY <1>1, FS_AddElement
<1>5. ASSUME NEW ip \in IPs \ granted, NEW v \in granted
      PROVE  Cardinality((granted \ {v}) \cup {ip}) = Cardinality(granted)
  <2>1. IsFiniteSet(granted \ {v}) /\ Cardinality(granted \ {v}) = Cardinality(granted) - 1
    BY <1>1, FS_RemoveElement
  <2>2. Cardinality((granted \ {v}) \cup {ip}) = Cardinality(granted \ {v}) + 1
    BY <2>1, FS_AddElement
  <2> QED
    BY <1>2, <2>1, <2>2
<1> QED
  BY <1>1, <1>2, <1>3, <1>4, <1>5

LEMMA OnlyType ==
    ASSUME NEW S, NEW f \in [IPs -> Nat]
    PROVE  /\ Only(S, f) \in [IPs -> Nat]
           /\ \A ip \in S \cap IPs : Only(S, f)[ip] = f[ip]
  BY DEF Only

LEMMA InitInv == Init => IInv
<1> SUFFICES ASSUME Init PROVE IInv
  OBVIOUS
<1>1. NoTimes \in [IPs -> Nat] /\ NoRound \in Round
  BY DEF NoTimes, NoRound, Round
<1>2. TypeOK
  BY <1>1 DEF Init, TypeOK, Never
<1>3. Cardinality(granted) = 0 /\ limit \in Nat
  BY FS_EmptySet, LimitAssumption DEF Init
<1> QED
  BY <1>2, <1>3 DEF Init, IInv, NoOversell, Turned, Served, Young, Resting, Admitting, NoRound

-----------------------------------------------------------------------------
(* Every step keeps the invariant.                                         *)

\* Observing and releasing: the slots that are left are a subset, and every
\* established address of the listing has its turn ahead or has been released.
LEMMA StartInv ==
    ASSUME IInv, NEW A \in SUBSET IPs, NEW C \in SUBSET IPs, NEW max \in Limits, Start(A, C, max)
    PROVE  IInv'
<1> DEFINE out == Released(A, C)
           rank == [ip \in IPs |-> Rank(ip, A, granted \ out, prov \ out)]
<1>0. TypeOK
  BY DEF IInv
<1>1. rank \in [IPs -> 0 .. 3] /\ out \subseteq IPs
  BY <1>0 DEF Rank, Released, TypeOK
<1> HIDE DEF out, rank
<1>2. /\ round'.pc = "admit" /\ round'.active = A /\ round'.released = out
      /\ round'.left = (A \cup C) \ out
      /\ granted' = granted \ out /\ prov' = prov \ out /\ candAt' = Only(prov \ out, candAt)
      /\ limit' = max /\ now' = now
  BY DEF Start, out, rank
<1>3. TypeOK'
  <2>0. granted \in SUBSET IPs
    BY <1>0 DEF TypeOK
  <2>1. round' \in Round
    BY <1>1, <2>0, Zenon DEF Start, Round, out, rank
  <2>2. candAt' \in [IPs -> Nat]
    BY <1>0, <1>2, OnlyType DEF TypeOK
  <2>3. firstSeen' \in [IPs -> Nat] /\ lastSeen' \in [IPs -> Nat]
    BY <1>0 DEF Start, TypeOK
  <2>4. rejected' \in [IPs -> Nat \cup {Never}]
    BY <1>0 DEF Start, TypeOK
  <2>5. observed' \subseteq IPs
    BY <1>0 DEF Start, TypeOK
  <2> QED
    BY <1>0, <1>2, <2>1, <2>2, <2>3, <2>4, <2>5 DEF TypeOK
<1>4. NoOversell'
  <2>1. Cardinality(granted') <= Cardinality(granted) /\ Cardinality(granted') \in Nat
        /\ Cardinality(granted) \in Nat
    BY <1>0, <1>2, Sizes
  <2> QED
    BY <2>1, LimitAssumption DEF NoOversell, IInv
<1>5. Turned' /\ Served' /\ Resting'
  BY <1>0, <1>2 DEF Turned, Served, Resting, Idling, Admitting, TypeOK
<1>6. Young'
  <2> SUFFICES ASSUME NEW ip \in prov' PROVE now' - candAt'[ip] <= ProvTTL
    BY DEF Young
  <2>1. candAt'[ip] = candAt[ip] /\ ip \in prov \ out
    BY <1>0, <1>2, OnlyType DEF TypeOK
  <2>2. ~(now - candAt[ip] > ProvTTL)
    BY <2>1 DEF out, Released
  <2> QED
    BY <1>0, <1>2, <2>1, <2>2, TimeAssumption DEF TypeOK
<1> QED
  BY <1>3, <1>4, <1>5, <1>6 DEF IInv

\* What every admission leaves alone.
LEMMA AdmitFrame ==
    ASSUME IInv, NEW ip \in IPs, Turn(ip), Done(ip), UNCHANGED <<limit, now>>
    PROVE  /\ round'.pc = round.pc /\ round'.active = round.active
           /\ round'.released = round.released /\ round'.left = round.left \ {ip}
           /\ round' \in Round /\ Admitting /\ ip \in round.left
  BY DEF IInv, TypeOK, Round, Done, Turn, Resting, Idling, Admitting

LEMMA AdmitInv ==
    ASSUME IInv, NEW ip \in IPs, Admit(ip)
    PROVE  IInv'
<1> USE DEF IInv
<1>0. Turn(ip) /\ Done(ip) /\ UNCHANGED <<seen, limit, now>> /\ TypeOK
  BY DEF Admit, Keep, Grant, Preempt, Reject
<1>1. /\ round'.pc = round.pc /\ round'.active = round.active
      /\ round'.released = round.released /\ round'.left = round.left \ {ip}
      /\ round' \in Round /\ Admitting /\ ip \in round.left
  BY <1>0, AdmitFrame
<1>2. limit \in Nat /\ limit' = limit /\ now' = now /\ now \in Nat /\ ProvTTL \in Nat
  BY <1>0, LimitAssumption, TimeAssumption DEF TypeOK
<1>3. Resting'
  BY <1>1 DEF Resting, Idling, Admitting
<1>4. CASE Keep(ip)
  <2>1. prov' \subseteq prov /\ granted' = granted /\ (ip \in round.active => ip \notin prov')
    BY <1>4 DEF Keep, Settled
  <2>2. candAt' \in [IPs -> Nat] /\ \A p \in prov' : candAt'[p] = candAt[p]
    BY <1>0, <1>4, <2>1, OnlyType DEF Keep, TypeOK
  <2>3. TypeOK'
    BY <1>0, <1>1, <1>4, <2>1, <2>2 DEF Keep, TypeOK, seen
  <2>4. NoOversell' /\ Turned' /\ Young'
    BY <1>1, <1>2, <2>1, <2>2 DEF NoOversell, Turned, Young, Admitting
  <2>5. Served'
    BY <1>1, <1>2, <1>4, <2>1 DEF Served, Full, Keep
  <2> QED
    BY <1>3, <2>3, <2>4, <2>5
<1>5. CASE Grant(ip)
  <2>1. /\ granted' = granted \cup {ip} /\ ip \notin granted /\ HasRoom
        /\ prov' \subseteq prov \cup {ip} /\ prov \subseteq prov'
        /\ (ip \in round.active => prov' = prov)
    BY <1>5 DEF Grant, Give
  <2>2. candAt' \in [IPs -> Nat] /\ \A p \in prov' : candAt'[p] \in {candAt[p], now}
        /\ (p # ip => candAt'[p] = candAt[p])
        /\ (p = ip => candAt'[p] = now)
    <3>1. CASE ip \in round.active
      BY <1>0, <1>5, <3>1 DEF Grant, Give, TypeOK
    <3>2. CASE ip \notin round.active
      BY <1>0, <1>5, <3>2 DEF Grant, Give, TypeOK
    <3> QED
      BY <3>1, <3>2
  <2>3. TypeOK'
    BY <1>0, <1>1, <1>5, <2>1, <2>2 DEF Grant, TypeOK, seen
  <2>4. Cardinality(granted') = Cardinality(granted) + 1 /\ Cardinality(granted) \in Nat
    BY <1>0, <2>1, Sizes
  <2>5. NoOversell'
    <3>1. limit \in Limits /\ (limit = 0 \/ Cardinality(granted) < limit) /\ limit \in Nat
      BY <1>0, <2>1, LimitAssumption DEF HasRoom, TypeOK
    <3>2. limit = 0 \/ Cardinality(granted') <= limit
      BY <2>4, <3>1
    <3> QED
      BY <3>1, <3>2 DEF NoOversell
  <2>6. Turned'
    <3>1. ip \notin prov
      BY <1>0, <2>1 DEF TypeOK
    <3> QED
      BY <1>1, <2>1, <3>1 DEF Turned, Admitting
  <2>7. Young'
    BY <1>1, <1>2, <2>1, <2>2 DEF Young, Admitting
  <2>8. Served'
    <3>1. ~Full
      BY <1>2, <2>1, <2>4 DEF Full, HasRoom
    <3> QED
      BY <1>1, <2>1, <3>1 DEF Served
  <2> QED
    BY <1>3, <2>3, <2>5, <2>6, <2>7, <2>8
<1>6. ASSUME NEW victim \in granted, Preempt(ip, victim) PROVE IInv'
  <2>1. /\ granted' = (granted \ {victim}) \cup {ip} /\ ip \notin granted
        /\ victim \in prov /\ prov' = prov \ {victim} /\ ip \in round.active
        /\ candAt' = Only(prov \ {victim}, candAt)
        /\ rejected' = [rejected EXCEPT ![victim] = now]
    BY <1>6 DEF Preempt, Oldest, MayPreempt
  <2>2. candAt' \in [IPs -> Nat] /\ \A p \in prov' : candAt'[p] = candAt[p]
    BY <1>0, <2>1, OnlyType DEF TypeOK
  <2>3. TypeOK'
    BY <1>0, <1>1, <2>1, <2>2 DEF TypeOK, seen
  <2>4. Cardinality(granted') = Cardinality(granted)
    BY <1>0, <2>1, Sizes
  <2>5. NoOversell' /\ Turned' /\ Young'
    <3>1. ip \notin prov
      BY <1>0, <2>1 DEF TypeOK
    <3>2. NoOversell'
      BY <1>2, <2>4 DEF NoOversell
    <3>3. Turned' /\ Young'
      BY <1>1, <1>2, <2>1, <2>2, <3>1 DEF Turned, Young, Admitting
    <3> QED
      BY <3>2, <3>3
  <2>6. Served'
    <3>1. ~Full
      BY <2>1 DEF Full
    <3>2. victim \in round.active => victim \in round.left /\ victim # ip
      BY <1>1, <2>1 DEF Turned
    <3> QED
      BY <1>1, <2>1, <3>1, <3>2 DEF Served
  <2> QED
    BY <1>3, <2>3, <2>5, <2>6
<1>7. CASE Reject(ip)
  <2>1. /\ UNCHANGED slots /\ rejected' = [rejected EXCEPT ![ip] = now]
        /\ ip \notin granted /\ ~HasRoom /\ ~MayPreempt(ip)
    BY <1>7 DEF Reject
  <2>2. TypeOK'
    BY <1>0, <1>1, <2>1 DEF TypeOK, slots, seen
  <2>3. NoOversell' /\ Turned' /\ Young'
    <3>1. ip \notin prov
      BY <1>0, <2>1 DEF TypeOK
    <3> QED
      BY <1>1, <1>2, <2>1, <3>1 DEF NoOversell, Turned, Young, Admitting, slots
  <2>4. Served'
    <3>1. ip \in round.active => Full
      BY <1>0, <1>2, <2>1, Sizes DEF MayPreempt, HasRoom, Full
    <3>2. Full' <=> Full
      BY <1>2, <2>1 DEF Full, slots
    <3> QED
      BY <1>1, <2>1, <3>1, <3>2 DEF Served, slots
  <2> QED
    BY <1>3, <2>2, <2>3, <2>4
<1> QED
  BY <1>4, <1>5, <1>6, <1>7 DEF Admit

LEMMA FinishInv == ASSUME IInv, Finish PROVE IInv'
<1>0. TypeOK /\ round.pc = "admit" /\ round.left = {} /\ UNCHANGED <<slots, rejected, limit, now>>
  BY DEF IInv, Finish
<1>1. observed' \subseteq IPs
  BY <1>0 DEF Finish, TypeOK, Quiet
<1>2. firstSeen' \in [IPs -> Nat] /\ lastSeen' \in [IPs -> Nat]
  BY <1>0, OnlyType DEF Finish, TypeOK
<1>3. /\ round' \in Round /\ round'.pc = "idle" /\ round'.active = round.active
      /\ round'.released = round.released /\ round'.left = {}
  <2>1. NoRound \in Round /\ NoRound.pc = "idle" /\ NoRound.left = {}
    BY DEF Round, NoRound, NoTimes
  <2>2. round.active \subseteq IPs /\ round.released \subseteq IPs
    BY <1>0 DEF TypeOK, Round
  <2>3. round' = [NoRound EXCEPT !.active = round.active, !.released = round.released]
    BY DEF Finish
  <2> HIDE DEF NoRound
  <2> QED
    BY <2>1, <2>2, <2>3 DEF Round
<1>4. TypeOK'
  BY <1>0, <1>1, <1>2, <1>3 DEF TypeOK, slots
<1>5. NoOversell' /\ Turned' /\ Served' /\ Young' /\ Resting'
  BY <1>0, <1>3 DEF IInv, NoOversell, Turned, Served, Full, Young, Resting, Admitting, slots
<1> QED
  BY <1>4, <1>5 DEF IInv

LEMMA NextInv == IInv /\ [Next]_vars => IInv'
<1> SUFFICES ASSUME IInv, [Next]_vars PROVE IInv'
  OBVIOUS
<1>1. ASSUME NEW A \in SUBSET IPs, NEW C \in SUBSET IPs, NEW max \in Limits, Start(A, C, max)
      PROVE  IInv'
  BY <1>1, StartInv
<1>2. ASSUME NEW ip \in IPs, Admit(ip) PROVE IInv'
  BY <1>2, AdmitInv
<1>3. CASE Finish
  BY <1>3, FinishInv
<1>4. CASE Forget
  <2>1. NoTimes \in [IPs -> Nat] /\ NoRound \in Round
    BY DEF NoTimes, NoRound, Round
  <2>2. TypeOK'
    BY <1>4, <2>1 DEF Forget, IInv, TypeOK
  <2>3. Cardinality(granted') = 0 /\ limit' \in Nat
    BY <1>4, FS_EmptySet, LimitAssumption DEF Forget, IInv, TypeOK
  <2>4. NoOversell'
    BY <2>3, LimitAssumption DEF NoOversell, IInv
  <2> QED
    BY <1>4, <2>2, <2>3, <2>4 DEF Forget, IInv, Turned, Served, Young, Resting,
       Admitting, NoRound
<1>5. CASE Tick
  <2>1. TypeOK' /\ ~Admitting'
    BY <1>5 DEF Tick, IInv, TypeOK, slots, seen, Admitting, Idling
  <2>2. NoOversell' /\ Served'
    BY <1>5 DEF Tick, IInv, NoOversell, Served, Full, slots
  <2> QED
    BY <1>5, <2>1, <2>2 DEF Tick, IInv, Turned, Young, Resting, Idling
<1>6. CASE UNCHANGED vars
  BY <1>6 DEF vars, slots, seen, IInv, TypeOK, NoOversell, Turned, Served, Full, Young,
     Resting, Idling, Admitting
<1> QED
  BY <1>1, <1>2, <1>3, <1>4, <1>5, <1>6 DEF Next

LEMMA Invariance == Spec => []IInv
  BY InitInv, NextInv, PTL DEF Spec

-----------------------------------------------------------------------------
(* The properties.                                                         *)

\* Every variable of the admission has its type in every state.
THEOREM TypeCorrect == Spec => []TypeOK
<1>1. IInv => TypeOK
  BY DEF IInv
<1> QED
  BY <1>1, Invariance, PTL

\* With a limit that does not change, a rule never has more slots than it allows.
THEOREM Bounded == Spec => []NoOversell
<1>1. IInv => NoOversell
  BY DEF IInv
<1> QED
  BY <1>1, Invariance, PTL

\* No flood of SYN-only addresses keeps an established client without a slot.
THEOREM Starvationless == Spec => []NoStarvation
<1>1. IInv => NoStarvation
  BY DEF IInv, NoStarvation, Served, Full, Resting
<1> QED
  BY <1>1, Invariance, PTL

\* After a round every provisional slot is a young one of a SYN-only address.
THEOREM ProvisionalShort == Spec => []ProvisionalBounded
<1>1. IInv => ProvisionalBounded
  BY DEF IInv, ProvisionalBounded, Turned, Young, Admitting
<1> QED
  BY <1>1, Invariance, PTL

LEMMA StepKept == IInv /\ [Next]_vars => Kept
<1> SUFFICES ASSUME IInv, [Next]_vars, NEW ip \in granted \ prov,
                    round'.pc = "admit", ip \in round'.active
             PROVE  ip \in granted' \ prov'
  BY DEF Kept
<1>1. ASSUME NEW A \in SUBSET IPs, NEW C \in SUBSET IPs, NEW max \in Limits, Start(A, C, max)
      PROVE  ip \in granted' \ prov'
  BY <1>1 DEF Start, Released
<1>2. ASSUME NEW other \in IPs, Admit(other) PROVE ip \in granted' \ prov'
  BY <1>2 DEF Admit, Keep, Settled, Grant, Give, Preempt, Oldest, Reject, slots
<1>3. ~Finish /\ ~Forget
  <2>1. NoRound \in Round /\ NoRound.pc = "idle"
    BY DEF Round, NoRound, NoTimes
  <2>2. Finish => round' = [NoRound EXCEPT !.active = round.active, !.released = round.released]
    BY DEF Finish
  <2>3. Forget => round' = NoRound
    BY DEF Forget
  <2> HIDE DEF NoRound
  <2> QED
    BY <2>1, <2>2, <2>3 DEF Round
<1>4. CASE Tick \/ UNCHANGED vars
  BY <1>4 DEF Tick, vars, slots
<1> QED
  BY <1>1, <1>2, <1>3, <1>4 DEF Next

\* An established client with a formal slot keeps it through every round.
THEOREM EstablishedSafe == Spec => EstablishedKept
  BY Invariance, StepKept, PTL DEF Spec, EstablishedKept

LEMMA StepNoWorse == IInv /\ [Next]_vars => NoWorse
<1> SUFFICES ASSUME IInv, [Next]_vars, limit' > 0
             PROVE  \/ Cardinality(granted') <= limit'
                    \/ Cardinality(granted') <= Cardinality(granted)
  BY DEF NoWorse
<1>0. TypeOK /\ limit \in Nat
  BY LimitAssumption DEF IInv, TypeOK
<1>1. CASE granted' \subseteq granted
  BY <1>0, <1>1, Sizes
<1>2. ASSUME NEW ip \in IPs, Grant(ip) PROVE Cardinality(granted') <= limit'
  <2>1. granted' = granted \cup {ip} /\ ip \notin granted /\ HasRoom /\ limit' = limit
    BY <1>2 DEF Grant
  <2>2. Cardinality(granted') = Cardinality(granted) + 1 /\ Cardinality(granted) \in Nat
    BY <1>0, <2>1, Sizes
  <2> QED
    BY <1>0, <2>1, <2>2 DEF HasRoom
<1>3. ASSUME NEW ip \in IPs, NEW victim \in granted, Preempt(ip, victim)
      PROVE  Cardinality(granted') = Cardinality(granted) /\ Cardinality(granted) \in Nat
  BY <1>0, <1>3, Sizes DEF Preempt
<1>4. ASSUME NEW A \in SUBSET IPs, NEW C \in SUBSET IPs, NEW max \in Limits, Start(A, C, max)
      PROVE  granted' \subseteq granted
  BY <1>4 DEF Start
<1>5. ASSUME NEW ip \in IPs, Keep(ip) \/ Reject(ip) PROVE granted' \subseteq granted
  BY <1>5 DEF Keep, Reject, slots
<1>6. CASE Finish \/ Forget \/ Tick \/ UNCHANGED vars
  <2>1. granted' \subseteq granted
    BY <1>6 DEF Finish, Forget, Tick, vars, slots
  <2> QED
    BY <1>1, <2>1
<1> QED
  BY <1>1, <1>2, <1>3, <1>4, <1>5, <1>6 DEF Next, Admit

\* No step adds to what a lowered limit left beyond it.
THEOREM ExcessNeverGrows == Spec => NeverMoreOversold
  BY Invariance, StepNoWorse, PTL DEF Spec, NeverMoreOversold

-----------------------------------------------------------------------------
(* The round keeps the promise of module Admission: Start is its Read, Finish *)
(* its Decide, and the admissions in between are stutters.  What makes Finish *)
(* a Decide holds after each of them.                                        *)

Seen == round.active \cup round.cand
Fitting ==
    Admitting => /\ granted \subseteq Seen /\ round.left \subseteq Seen
                 /\ Promise!Fits(Cardinality(granted), round.before, limit)
RInv == IInv /\ Fitting

LEMMA SameCardinality == \A S : Promise!Cardinality(S) = Cardinality(S)
  BY DEF Promise!Cardinality, Cardinality

LEMMA StepFitting == RInv /\ [Next]_vars => RInv'
<1> SUFFICES ASSUME RInv, [Next]_vars PROVE Fitting'
  BY NextInv DEF RInv
<1>0. IInv /\ TypeOK /\ limit \in Nat /\ Cardinality(granted) \in Nat
  BY LimitAssumption, Sizes DEF RInv, IInv, TypeOK
<1>1. ASSUME NEW A \in SUBSET IPs, NEW C \in SUBSET IPs, NEW max \in Limits, Start(A, C, max)
      PROVE  Fitting'
  <2> DEFINE out == Released(A, C)
  <2>1. /\ round'.active = A /\ round'.cand = C \ A /\ round'.left = (A \cup C) \ out
        /\ round'.before = granted /\ granted' = granted \ out
    BY <1>1 DEF Start
  <2>2. granted \ out \subseteq A \cup C
    BY DEF Released
  <2>3. Cardinality(granted') <= Cardinality(granted)
    BY <1>0, <2>1, Sizes
  <2> HIDE DEF out
  <2> QED
    BY <2>1, <2>2, <2>3, SameCardinality DEF Fitting, Seen, Promise!Fits
<1>2. ASSUME NEW ip \in IPs, Admit(ip) PROVE Fitting'
  <2>1. Turn(ip) /\ Done(ip) /\ limit' = limit
    BY <1>2 DEF Admit, Keep, Grant, Preempt, Reject
  <2>2. /\ Admitting /\ ip \in round.left /\ round'.left = round.left \ {ip}
        /\ Seen' = Seen /\ round'.before = round.before
    BY <1>0, <2>1 DEF TypeOK, Round, Turn, Done, Seen, IInv, Resting, Idling, Admitting
  <2>3. granted' \subseteq granted \cup {ip}
    BY <1>2 DEF Admit, Keep, Grant, Preempt, Reject, slots
  <2>4. granted' \subseteq Seen' /\ round'.left \subseteq Seen'
    BY <2>2, <2>3 DEF RInv, Fitting
  <2>5. Promise!Fits(Cardinality(granted'), round'.before, limit')
    <3>1. CASE Grant(ip)
      <4>1. Cardinality(granted') = Cardinality(granted) + 1
        BY <1>0, <3>1, Sizes DEF Grant
      <4> QED
        BY <1>0, <2>1, <3>1, <4>1 DEF Grant, HasRoom, Promise!Fits
    <3>2. ASSUME NEW victim \in granted, Preempt(ip, victim)
          PROVE  Cardinality(granted') = Cardinality(granted)
      BY <1>0, <3>2, Sizes DEF Preempt
    <3>3. CASE Keep(ip) \/ Reject(ip)
      BY <2>1, <2>2, <3>3 DEF Keep, Reject, slots, RInv, Fitting
    <3> QED
      BY <1>2, <2>1, <2>2, <3>1, <3>2, <3>3 DEF Admit, RInv, Fitting
  <2> QED
    BY <2>4, <2>5 DEF Fitting
<1>3. CASE Finish \/ Forget
  <2>1. NoRound.pc = "idle" /\ NoRound \in Round
    BY DEF NoRound, Round, NoTimes
  <2>2. round'.pc = "idle"
    <3> HIDE DEF NoRound
    <3> QED
      BY <1>3, <2>1 DEF Finish, Forget, Round
  <2> QED
    BY <2>2 DEF Fitting, Admitting
<1>4. CASE Tick \/ UNCHANGED vars
  BY <1>4 DEF Tick, vars, slots, RInv, Fitting, Admitting, Seen
<1> QED
  BY <1>1, <1>2, <1>3, <1>4 DEF Next

LEMMA InitPromise == Init => Promise!Init /\ RInv
<1> SUFFICES ASSUME Init PROVE Promise!Init /\ RInv
  OBVIOUS
<1>1. round.pc = "idle" /\ granted = {} /\ limit \in Limits
  BY DEF Init, NoRound
<1> QED
  BY <1>1, InitInv DEF Promise!Init, Holders, Listed, Idling, RInv, Fitting, Admitting

LEMMA StepPromise == RInv /\ [Next]_vars => [Promise!Next]_(Promise!vars)
<1> SUFFICES ASSUME RInv, [Next]_vars PROVE [Promise!Next]_(Promise!vars)
  OBVIOUS
<1>0. TypeOK
  BY DEF RInv, IInv
<1>1. ASSUME NEW A \in SUBSET IPs, NEW C \in SUBSET IPs, NEW max \in Limits, Start(A, C, max)
      PROVE  Promise!Read
  <2>1. /\ Idling /\ ~Idling' /\ round'.active = A /\ round'.cand = C \ A
        /\ round'.before = granted /\ limit' = max
    BY <1>1 DEF Start, Idling
  <2> QED
    BY <2>1 DEF Promise!Read, Holders, Listed
<1>2. ASSUME NEW ip \in IPs, Admit(ip) PROVE UNCHANGED Promise!vars
  <2>1. Turn(ip) /\ Done(ip) /\ limit' = limit
    BY <1>2 DEF Admit, Keep, Grant, Preempt, Reject
  <2>2. /\ round'.pc = "admit" /\ round.pc = "admit" /\ round'.active = round.active
        /\ round'.cand = round.cand /\ round'.before = round.before
    BY <1>0, <2>1 DEF TypeOK, Round, Turn, Done, RInv, IInv, Resting, Idling
  <2> QED
    BY <2>1, <2>2 DEF Promise!vars, Holders, Listed, Idling
<1>3. CASE Finish
  <2>1. NoRound.pc = "idle" /\ NoRound.cand = {} /\ NoRound \in Round
    BY DEF NoRound, Round, NoTimes
  <2>2. /\ round.pc = "admit" /\ round'.pc = "idle" /\ granted' = granted /\ limit' = limit
    <3> HIDE DEF NoRound
    <3> QED
      BY <1>3, <2>1 DEF Finish, Round, slots
  <2>3. granted \in Promise!Admitted(round.before, Seen, limit)
    BY <2>2, SameCardinality DEF RInv, Fitting, Admitting, Promise!Admitted, Promise!Fits
  <2> QED
    BY <2>2, <2>3 DEF Promise!Decide, Promise!Next, Holders, Listed, Idling, Seen
<1>4. CASE Forget
  <2>1. NoRound.pc = "idle"
    BY DEF NoRound
  <2>2. Idling /\ Idling' /\ granted' = {} /\ limit' = limit
    BY <1>4, <2>1 DEF Forget, Idling
  <2> QED
    BY <2>2 DEF Promise!Forget, Promise!Next, Holders, Listed
<1>5. CASE Tick \/ UNCHANGED vars
  BY <1>5 DEF Tick, vars, slots, Promise!vars, Holders, Listed, Idling
<1> QED
  BY <1>1, <1>2, <1>3, <1>4, <1>5 DEF Next, Promise!Next

\* A round, however it orders, expires and preempts, is one step of the promise that
\* the sync is modelled with.
THEOREM PromiseKept == Spec => KeepsPromise
  BY InitPromise, StepFitting, StepPromise, PTL DEF Spec, KeepsPromise, Promise!Spec
=============================================================================
