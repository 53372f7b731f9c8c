---------------------------- MODULE TrafficProofs ----------------------------
(***************************************************************************)
(* Theorems about Traffic, for any rules, quotas and amounts of traffic.    *)
(*                                                                         *)
(* The properties compare what is stored with what really went through; the *)
(* invariant adds, for every reading and snapshot under way, that what it   *)
(* will be turned into is no more than that either.  Everything the traffic *)
(* and the kernel can do to one counter is a CounterStep, and a CounterStep *)
(* never makes a bill grow faster than the traffic.  That a real-time total   *)
(* leaves nothing out is an invariant of snapshots by itself (Together).     *)
(***************************************************************************)
EXTENDS Traffic, TLAPS

Billed == \A n \in Names : total[n] + Increment(counter[n], base[n]) <= forwarded[n]

\* A reading that is still to be committed.
InFlight ==
    tick.pc = "read" =>
      \A n \in Names :
        total[n] + Increment(tick.read[n], base[n]) + Increment(counter[n], tick.read[n])
          <= forwarded[n]
Saved == tick.pc = "committed" => base = tick.read

\* While its counter has not been destroyed, readings follow each other upwards.
Rising(n) ==
    /\ base[n] <= counter[n]
    /\ tick.pc = "read" => base[n] <= tick.read[n] /\ tick.read[n] <= counter[n]
Undisturbed == \A n \in Names \ disturbed : Rising(n)

\* A snapshot of the collector and what the counters have gained since.
Snap(committed, b, c, f, r) ==
    committed[r] + Gain(c[<<r, Up>>], b[<<r, Up>>]) + Gain(c[<<r, Down>>], b[<<r, Down>>]) <= Sum(f, r)
ColSnap ==
    \A r \in Rules :
      /\ col.committed[r] <= Sum(total, r)
      /\ col.ready => Snap(col.committed, col.base, counter, forwarded, r)
PolSnap ==
    \A r \in Rules :
      /\ pol.pc = "fallback" => ~pol.ready
      /\ pol.pc = "read" => pol.committed[r] <= Sum(forwarded, r)
      /\ pol.pc = "read" /\ pol.ready => Snap(pol.committed, pol.base, counter, forwarded, r)
Stored ==
    \A r \in Rules :
      /\ pol.used[r] <= Sum(forwarded, r) /\ quotaTotals[r] <= Sum(forwarded, r)
      /\ req[r] <= Sum(forwarded, r)
      /\ reset[r] <= Sum(forwarded, r) /\ pol.reset[r] <= Sum(forwarded, r)

IInv ==
    /\ TypeOK
    /\ Billed /\ InFlight /\ Saved
    /\ ExactBilling /\ Undisturbed
    /\ ColSnap /\ PolSnap /\ Stored /\ BlockedOnlyWhenUsed

-----------------------------------------------------------------------------
(* Arithmetic of the two ways to read a counter.                           *)

\* Increment and Gain are amounts; nothing is gained on a counter that is gone
\* or new, and the collector never bills less than the policy expects it to.
LEMMA Amounts ==
    ASSUME NEW c \in Bytes, NEW b \in Bytes
    PROVE  /\ Increment(c, b) \in Nat /\ Gain(c, b) \in Nat /\ Gain(c, b) <= Increment(c, b)
           /\ Increment(c, c) = 0
           /\ c \in {Absent, 0} => Increment(c, b) = 0 /\ Gain(c, b) = 0
  BY DEF Increment, Gain, Bytes, Absent

\* One more byte adds one at most, and exactly one to a counter that has risen.
LEMMA OneMore ==
    ASSUME NEW c \in Nat, NEW b \in Bytes
    PROVE  /\ Increment(c + 1, b) <= Increment(c, b) + 1 /\ Gain(c + 1, b) <= Gain(c, b) + 1
           /\ b <= c => Increment(c + 1, b) = Increment(c, b) + 1
  BY DEF Increment, Gain, Bytes, Absent

\* Two readings that follow each other upwards bill what one reading would.
LEMMA Splits ==
    ASSUME NEW c \in Bytes, NEW m \in Bytes, NEW b \in Bytes, b <= m, m <= c
    PROVE  Increment(m, b) + Increment(c, m) = Increment(c, b)
  BY DEF Increment, Bytes, Absent

-----------------------------------------------------------------------------
(* Type correctness.                                                       *)

LEMMA SumType == ASSUME NEW f \in [Names -> Nat], NEW r \in Rules PROVE Sum(f, r) \in Nat
  BY DEF Sum, Names, Dirs

LEMMA TotalsType == TypeOK => Totals \in [Rules -> Nat]
  BY SumType DEF TypeOK, Totals

LEMMA ConstantTypes ==
    /\ NoReading \in Readings
    /\ NoTick \in TickState /\ NoSync \in SyncState /\ NoMemory \in Memory
    /\ [r \in Rules |-> Absent] \in [Rules -> Bytes]
  BY DEF NoReading, Readings, NoTick, NoSync, NoMemory, Bytes, TickState, SyncState, Memory

\* What a usable listing says of every counter is a reading.
LEMMA ListingType == TypeOK => Listings \subseteq Readings
  BY DEF TypeOK, Listings, Readings, Bytes

LEMMA InitType == Init => TypeOK
<1> SUFFICES ASSUME Init PROVE TypeOK
  OBVIOUS
<1>1. reset \in [Rules -> Nat] /\ total \in [Names -> Nat] /\ forwarded \in [Names -> Nat]
  BY DEF Init
<1>2. enabled \subseteq Rules /\ blocked \subseteq Rules /\ disturbed \subseteq Names
      /\ table \in BOOLEAN /\ faults \in Nat
  BY DEF Init
<1>3. base \in Readings /\ counter \in Readings
      /\ col \in Memory /\ tick \in TickState /\ pol \in SyncState
      /\ quotaTotals \in [Rules -> Bytes] /\ req \in [Rules -> Bytes]
  BY ConstantTypes DEF Init
<1> QED
  BY <1>1, <1>2, <1>3 DEF TypeOK

LEMMA NextType == TypeOK /\ [Next]_vars => TypeOK'
<1> SUFFICES ASSUME TypeOK, [Next]_vars PROVE TypeOK'
  OBVIOUS
<1> USE DEF TypeOK, db, kernel, env
<1>1. CASE TickRead
  BY <1>1, ListingType DEF TickRead, TickState
<1>2. CASE TickAbandon
  BY <1>2 DEF TickAbandon, Memory
<1>3. CASE TickCommit
  <2>1. \A n \in Names : Increment(tick.read[n], base[n]) \in Nat
    BY Amounts DEF Readings, TickState
  <2>2. total' \in [Names -> Nat]
    BY <1>3, <2>1 DEF TickCommit
  <2> QED
    BY <1>3, <2>2 DEF TickCommit, TickState
<1>4. CASE TickFails
  <2>1. [col EXCEPT !.error = TRUE] \in Memory
    BY DEF Memory
  <2> QED
    BY <1>4, <2>1, ConstantTypes DEF TickFails, Fault
<1>5. ASSUME NEW committed \in [Rules -> Nat], Publish(committed), faults' \in Nat PROVE TypeOK'
  <2>1. col' \in Memory
    BY <1>5 DEF Publish, Memory, TickState
  <2> QED
    BY <1>5, <2>1, ConstantTypes DEF Publish
<1>18. CASE TickPublish \/ TickPublishStale
  BY <1>5, <1>18, TotalsType DEF TickPublish, TickPublishStale, Fault, Memory
<1>6. CASE PolicySnap
  <2>1. Baselines \subseteq [Rules -> Nat]
    <3>1. \A r \in Rules : req[r] # Absent => [reset EXCEPT ![r] = req[r]] \in [Rules -> Nat]
      BY DEF Bytes
    <3> QED
      BY <3>1 DEF Baselines
  <2>2. RuleSets \subseteq SUBSET Rules
    BY DEF RuleSets
  <2>3. \A R \in SUBSET Rules, baseline \in [Rules -> Nat] : Snapshot(R, baseline) \in SyncState
    BY ConstantTypes DEF Snapshot, SyncState, Memory
  <2> QED
    BY <1>6, <2>1, <2>2, <2>3 DEF PolicySnap
<1>7. CASE PolicyFallback
  BY <1>7, TotalsType DEF PolicyFallback, SyncState
<1>8. CASE PolicyRead
  <2>1. \A r \in Rules : Used(r) \in Nat
    <3> SUFFICES ASSUME NEW r \in Rules PROVE Used(r) \in Nat
      OBVIOUS
    <3>1. /\ Gain(counter[<<r, Up>>], pol.base[<<r, Up>>]) \in Nat
          /\ Gain(counter[<<r, Down>>], pol.base[<<r, Down>>]) \in Nat
      BY Amounts DEF Readings, Names, Dirs, SyncState
    <3>2. pol.committed[r] \in Nat
      BY DEF SyncState
    <3> QED
      BY <3>1, <3>2 DEF Used, Gains
  <2> QED
    BY <1>8, <2>1, ConstantTypes DEF PolicyRead, SyncState
<1>9. CASE PolicyStruct
  <2>1. \A n \in Names : Rebuilt(n) \in Bytes
    BY DEF Rebuilt, Bytes, Readings
  <2> QED
    BY <1>9, <2>1 DEF PolicyStruct, Readings, SyncState
<1>21. Decided \subseteq Rules /\ Published \in [Rules -> Bytes]
  BY DEF Decided, Published, SyncState, Bytes
<1>10. CASE PolicyElems
  BY <1>10, <1>21, ConstantTypes DEF PolicyElems, Bytes, SyncState
<1>11. CASE PolicyFails
  BY <1>11, <1>21, ConstantTypes DEF PolicyFails, Fault
<1>12. ASSUME NEW r \in Rules, ResetRequest(r) PROVE TypeOK'
  <2>1. Lifetime(r) \in Bytes
    BY TotalsType DEF Lifetime, Bytes
  <2> QED
    BY <1>12, <2>1 DEF ResetRequest
<1>13. ASSUME NEW n \in Names, Packet(n) PROVE TypeOK'
  BY <1>13 DEF Packet, Readings, Bytes, Absent
<1>19. LoseTable => /\ counter' \in Readings /\ blocked' \subseteq Rules /\ table' \in BOOLEAN
                    /\ disturbed' \subseteq Names
  BY ConstantTypes DEF LoseTable
<1>20. Forget => /\ col' \in Memory /\ tick' \in TickState /\ pol' \in SyncState
                 /\ quotaTotals' \in [Rules -> Bytes] /\ req' \in [Rules -> Bytes]
  BY ConstantTypes, Zenon DEF Forget
<1>14. CASE TableLoss
  BY <1>14, <1>19 DEF TableLoss, Fault
<1>15. CASE Crash
  BY <1>15, <1>20 DEF Crash, Fault
<1>16. CASE Reboot
  BY <1>16, <1>19, <1>20 DEF Reboot, Fault
<1>17. CASE UNCHANGED vars
  BY <1>17 DEF vars
<1> QED
  BY <1>1, <1>2, <1>3, <1>4, <1>5, <1>6, <1>7, <1>8, <1>9, <1>10, <1>11, <1>12, <1>13, <1>14, <1>15,
     <1>16, <1>17, <1>18 DEF Next, Collector, CollectorFails, PolicySync

\* Every variable has its type in every state, whatever the listings miss.
THEOREM TypeCorrect == Spec => []TypeOK
  BY InitType, NextType, PTL DEF Spec

-----------------------------------------------------------------------------
(* What a step may do to the traffic and to a counter.                     *)

Same(n) == counter'[n] = counter[n] /\ forwarded'[n] = forwarded[n]
OneByte(n) == counter[n] \in Nat /\ counter'[n] = counter[n] + 1 /\ forwarded'[n] = forwarded[n] + 1
Lost(n) == counter'[n] = Absent /\ forwarded'[n] = forwarded[n]
New(n) == counter[n] = Absent /\ counter'[n] = 0 /\ forwarded'[n] = forwarded[n]
CounterStep(n) == Same(n) \/ OneByte(n) \/ Lost(n) \/ New(n)

\* A counter is marked as disturbed when it loses what it held.
Marks(n) == n \notin disturbed' => n \notin disturbed /\ (Same(n) \/ OneByte(n) \/ New(n))
CounterSteps == \A n \in Names : CounterStep(n) /\ Marks(n)

LEMMA StepCounters == TypeOK /\ [Next]_vars => CounterSteps
<1> SUFFICES ASSUME TypeOK, [Next]_vars PROVE CounterSteps
  OBVIOUS
<1> USE DEF db, kernel, env
<1>1. ASSUME UNCHANGED <<counter, forwarded, disturbed>> PROVE CounterSteps
  BY <1>1 DEF CounterSteps, CounterStep, Marks, Same
<1>2. CASE Collector \/ CollectorFails
  BY <1>1, <1>2 DEF Collector, CollectorFails, TickRead, TickCommit, TickPublish, TickAbandon,
     TickFails, TickPublishStale, Publish
<1>3. CASE PolicySnap \/ PolicyFallback \/ PolicyRead \/ PolicyElems \/ PolicyFails
           \/ \E r \in Rules : ResetRequest(r)
  BY <1>1, <1>3 DEF PolicySnap, PolicyFallback, PolicyRead, PolicyElems, PolicyFails, ResetRequest
<1>4. CASE PolicyStruct
  <2> SUFFICES ASSUME NEW n \in Names PROVE CounterStep(n) /\ Marks(n)
    BY DEF CounterSteps
  <2>1. counter'[n] = Rebuilt(n) /\ forwarded'[n] = forwarded[n]
    BY <1>4 DEF PolicyStruct
  <2>2. n \notin disturbed' => n \notin disturbed /\ (counter[n] = Absent \/ Rebuilt(n) = counter[n])
    BY <1>4 DEF PolicyStruct
  <2>3. Rebuilt(n) \in {Absent, counter[n], 0} /\ (Rebuilt(n) = 0 => counter[n] \in {Absent, 0})
    BY DEF Rebuilt, Absent
  <2> QED
    BY <2>1, <2>2, <2>3 DEF CounterStep, Marks, Same, Lost, New
<1>5. ASSUME NEW m \in Names, Packet(m) PROVE CounterSteps
  <2> SUFFICES ASSUME NEW n \in Names PROVE CounterStep(n) /\ Marks(n)
    BY DEF CounterSteps
  <2>1. CASE n = m
    BY <1>5, <2>1 DEF Packet, CounterStep, Marks, OneByte, TypeOK, Readings, Bytes
  <2>2. CASE n # m
    BY <1>5, <2>2 DEF Packet, CounterStep, Marks, Same, TypeOK, Readings
  <2> QED
    BY <2>1, <2>2
<1>6. ASSUME LoseTable, UNCHANGED forwarded PROVE CounterSteps
  BY <1>6 DEF LoseTable, CounterSteps, CounterStep, Marks, Same, Lost, NoReading
<1>7. CASE TableLoss \/ Crash \/ Reboot
  BY <1>1, <1>6, <1>7 DEF TableLoss, Crash, Reboot
<1>8. CASE UNCHANGED vars
  BY <1>1, <1>8 DEF vars
<1> QED
  BY <1>2, <1>3, <1>4, <1>5, <1>7, <1>8 DEF Next, PolicySync

\* Whatever happens to a counter, what it would bill grows no faster than the
\* traffic, and just as fast while it is not disturbed.
LEMMA NoFaster ==
    ASSUME TypeOK, TypeOK', NEW n \in Names, CounterStep(n), NEW b \in Bytes
    PROVE  /\ forwarded'[n] >= forwarded[n]
           /\ Increment(counter'[n], b) + forwarded[n] <= Increment(counter[n], b) + forwarded'[n]
           /\ Gain(counter'[n], b) + forwarded[n] <= Gain(counter[n], b) + forwarded'[n]
           /\ Marks(n) /\ n \notin disturbed' /\ b <= counter[n] =>
                /\ b <= counter'[n]
                /\ Increment(counter'[n], b) + forwarded[n] = Increment(counter[n], b) + forwarded'[n]
<1>0. forwarded[n] \in Nat /\ forwarded'[n] \in Nat /\ counter[n] \in Bytes /\ counter'[n] \in Bytes
  BY DEF TypeOK, Readings
<1>1. /\ Increment(counter[n], b) \in Nat /\ Increment(counter'[n], b) \in Nat
      /\ Gain(counter[n], b) \in Nat /\ Gain(counter'[n], b) \in Nat
  BY <1>0, Amounts
<1>2. CASE Same(n)
  BY <1>0, <1>1, <1>2 DEF Same
<1>3. CASE OneByte(n)
  BY <1>0, <1>1, <1>3, OneMore DEF OneByte, Bytes, Absent
<1>4. CASE New(n)
  <2>1. Increment(counter'[n], b) = 0 /\ Gain(counter'[n], b) = 0 /\ Increment(counter[n], b) = 0
    BY <1>0, <1>4, Amounts DEF New
  <2> QED
    BY <1>0, <1>1, <1>4, <2>1 DEF New, Absent, Bytes
<1>5. CASE Lost(n) /\ ~Same(n) /\ ~New(n)
  <2>1. Increment(counter'[n], b) = 0 /\ Gain(counter'[n], b) = 0
    BY <1>0, <1>5, Amounts DEF Lost
  <2>2. Marks(n) => n \in disturbed'
    BY <1>0, <1>5 DEF Marks, Lost, OneByte, Absent
  <2> QED
    BY <1>0, <1>1, <1>5, <2>1, <2>2 DEF Lost
<1> QED
  BY <1>2, <1>3, <1>4, <1>5 DEF CounterStep

-----------------------------------------------------------------------------
(* The inductive invariant.                                                *)

LEMMA InitInv == Init => IInv
<1> SUFFICES ASSUME Init PROVE IInv
  OBVIOUS
<1>0. TypeOK
  BY InitType
<1>1. \A n \in Names : /\ total[n] = 0 /\ forwarded[n] = 0 /\ base[n] = Absent /\ counter[n] = Absent
                       /\ Increment(counter[n], base[n]) = 0
  <2>1. \A n \in Names : total[n] = 0 /\ forwarded[n] = 0
    BY DEF Init
  <2>2. \A n \in Names : base[n] = Absent /\ counter[n] = Absent
    BY DEF Init, NoReading
  <2> QED
    BY <2>1, <2>2 DEF Increment
<1>2. tick.pc = "idle" /\ pol.pc = "idle" /\ ~col.ready /\ blocked = {}
  <2>1. tick = NoTick /\ pol = NoSync /\ col = NoMemory /\ blocked = {}
    BY DEF Init
  <2> QED
    BY <2>1 DEF NoTick, NoSync, NoMemory
<1>3. Billed /\ InFlight /\ Saved /\ ExactBilling /\ Undisturbed
  BY <1>1, <1>2 DEF Billed, InFlight, Saved, ExactBilling, Undisturbed, Rising, Absent
<1>4. \A r \in Rules : Sum(total, r) \in Nat /\ Sum(forwarded, r) \in Nat
  BY <1>0, SumType DEF TypeOK
<1>5. \A r \in Rules : /\ col.committed[r] = 0 /\ pol.used[r] = 0 /\ pol.reset[r] = 0 /\ reset[r] = 0
                       /\ quotaTotals[r] = -1 /\ req[r] = -1
  BY DEF Init, NoMemory, NoSync, Absent
<1>8. \A m \in Nat : 0 <= m /\ -1 <= m
  OBVIOUS
<1>6. ColSnap /\ PolSnap
  <2>1. \A r \in Rules : col.committed[r] <= Sum(total, r)
    BY <1>4, <1>5, <1>8
  <2> QED
    BY <1>2, <2>1 DEF ColSnap, PolSnap
<1>7. Stored
  <2> SUFFICES ASSUME NEW r \in Rules
               PROVE  /\ pol.used[r] <= Sum(forwarded, r) /\ quotaTotals[r] <= Sum(forwarded, r)
                      /\ req[r] <= Sum(forwarded, r)
                      /\ reset[r] <= Sum(forwarded, r) /\ pol.reset[r] <= Sum(forwarded, r)
    BY DEF Stored
  <2> QED
    BY <1>4, <1>5, <1>8
<1> QED
  BY <1>0, <1>2, <1>3, <1>6, <1>7 DEF IInv, BlockedOnlyWhenUsed

\* The traffic of a rule and what is stored for it only grow.
LEMMA Grows ==
    ASSUME TypeOK, TypeOK', [Next]_vars
    PROVE  /\ \A n \in Names : total'[n] >= total[n] /\ forwarded'[n] >= forwarded[n]
           /\ \A r \in Rules : Sum(total', r) >= Sum(total, r) /\ Sum(forwarded', r) >= Sum(forwarded, r)
<1>1. \A n \in Names : total'[n] >= total[n]
  <2>1. CASE TickCommit
    <3> SUFFICES ASSUME NEW n \in Names PROVE total'[n] >= total[n]
      OBVIOUS
    <3>1. Increment(tick.read[n], base[n]) \in Nat
      BY Amounts DEF TypeOK, TickState, Readings
    <3>2. total[n] \in Nat /\ total'[n] = total[n] + Increment(tick.read[n], base[n])
      BY <2>1 DEF TypeOK, TickCommit
    <3> QED
      BY <3>1, <3>2
  <2>2. CASE UNCHANGED total
    BY <2>2 DEF TypeOK
  <2>3. ~TickCommit => UNCHANGED total
    BY DEF Next, Collector, CollectorFails, PolicySync, TickRead, TickPublish, TickAbandon,
       TickFails, TickPublishStale, Publish, PolicySnap, PolicyFallback, PolicyRead, PolicyStruct,
       PolicyElems, PolicyFails, ResetRequest, Packet, TableLoss, Crash, Reboot, vars, db
  <2> QED
    BY <2>1, <2>2, <2>3
<1>2. \A n \in Names : forwarded'[n] >= forwarded[n]
  <2> SUFFICES ASSUME NEW n \in Names PROVE forwarded'[n] >= forwarded[n]
    OBVIOUS
  <2>1. CounterStep(n) /\ base[n] \in Bytes
    BY StepCounters DEF CounterSteps, TypeOK, Readings
  <2> QED
    BY <2>1, NoFaster
<1>3. ASSUME NEW r \in Rules
      PROVE  Sum(total', r) >= Sum(total, r) /\ Sum(forwarded', r) >= Sum(forwarded, r)
  <2>1. <<r, Up>> \in Names /\ <<r, Down>> \in Names
    BY DEF Names, Dirs
  <2>2. \A n \in Names : /\ total[n] \in Nat /\ total'[n] \in Nat
                         /\ forwarded[n] \in Nat /\ forwarded'[n] \in Nat
    BY DEF TypeOK
  <2> QED
    BY <1>1, <1>2, <2>1, <2>2 DEF Sum
<1> QED
  BY <1>1, <1>2, <1>3

\* The accounts of the collector, whoever moves the counters.
Accounts == Billed /\ InFlight /\ Saved /\ ExactBilling /\ Undisturbed

LEMMA AccountsKept ==
    ASSUME TypeOK, TypeOK', Accounts, CounterSteps, UNCHANGED <<total, base>>, tick' \in {tick, NoTick}
    PROVE  Accounts'
<1>1. tick'.pc # "idle" => tick' = tick
  BY DEF NoTick
<1>2. ASSUME NEW n \in Names
      PROVE  /\ total[n] \in Nat /\ base[n] \in Bytes /\ tick.read[n] \in Bytes
             /\ counter[n] \in Bytes /\ counter'[n] \in Bytes
             /\ forwarded[n] \in Nat /\ forwarded'[n] \in Nat /\ CounterStep(n) /\ Marks(n)
  BY DEF TypeOK, Readings, TickState, CounterSteps
<1>3. Billed'
  <2> SUFFICES ASSUME NEW n \in Names
               PROVE  total[n] + Increment(counter'[n], base[n]) <= forwarded'[n]
    BY DEF Billed
  <2>1. Increment(counter'[n], base[n]) + forwarded[n] <= Increment(counter[n], base[n]) + forwarded'[n]
    BY <1>2, NoFaster
  <2>2. total[n] + Increment(counter[n], base[n]) <= forwarded[n]
    BY DEF Accounts, Billed
  <2>3. Increment(counter'[n], base[n]) \in Nat /\ Increment(counter[n], base[n]) \in Nat
    BY <1>2, Amounts
  <2> QED
    BY <1>2, <2>1, <2>2, <2>3
<1>4. InFlight'
  <2> SUFFICES ASSUME tick.pc = "read", tick' = tick, NEW n \in Names
               PROVE  total[n] + Increment(tick.read[n], base[n]) + Increment(counter'[n], tick.read[n])
                        <= forwarded'[n]
    BY <1>1 DEF InFlight
  <2>1. Increment(counter'[n], tick.read[n]) + forwarded[n]
          <= Increment(counter[n], tick.read[n]) + forwarded'[n]
    BY <1>2, NoFaster
  <2>2. total[n] + Increment(tick.read[n], base[n]) + Increment(counter[n], tick.read[n]) <= forwarded[n]
    BY DEF Accounts, InFlight
  <2>3. /\ Increment(counter'[n], tick.read[n]) \in Nat /\ Increment(counter[n], tick.read[n]) \in Nat
        /\ Increment(tick.read[n], base[n]) \in Nat
    BY <1>2, Amounts
  <2> QED
    BY <1>2, <2>1, <2>2, <2>3
<1>5. Saved'
  BY <1>1 DEF Accounts, Saved
<1>6. ASSUME NEW n \in Names, n \notin disturbed'
      PROVE  total[n] + Increment(counter'[n], base[n]) = forwarded'[n] /\ Rising(n)'
  <2>1. n \notin disturbed
    BY <1>2, <1>6 DEF Marks
  <2>2. Rising(n) /\ total[n] + Increment(counter[n], base[n]) = forwarded[n]
    BY <2>1 DEF Accounts, Undisturbed, ExactBilling
  <2>3. /\ base[n] <= counter'[n]
        /\ Increment(counter'[n], base[n]) + forwarded[n] = Increment(counter[n], base[n]) + forwarded'[n]
    BY <1>2, <1>6, <2>2, NoFaster DEF Rising
  <2>4. tick.pc = "read" => tick.read[n] <= counter'[n]
    BY <1>2, <1>6, <2>2, NoFaster DEF Rising
  <2>5. Increment(counter'[n], base[n]) \in Nat /\ Increment(counter[n], base[n]) \in Nat
    BY <1>2, Amounts
  <2> QED
    BY <1>1, <1>2, <2>2, <2>3, <2>4, <2>5 DEF Rising
<1>7. ExactBilling' /\ Undisturbed'
  BY <1>6 DEF ExactBilling, Undisturbed
<1> QED
  BY <1>3, <1>4, <1>5, <1>7 DEF Accounts

\* A listing that misses nothing bills nothing twice: what it holds is what the
\* counters hold.
LEMMA ReadAccounts ==
    ASSUME TypeOK, Accounts, PartialReads = FALSE, TickRead
    PROVE  Accounts'
<1>1. UNCHANGED <<total, base, counter, forwarded, disturbed>>
  BY DEF TickRead, db, kernel, env
<1>2. tick'.pc = "read" /\ \A n \in Names : tick'.read[n] = counter[n]
  BY DEF TickRead, Listings
<1>3. ASSUME NEW n \in Names
      PROVE  /\ Increment(counter[n], counter[n]) = 0 /\ counter[n] <= counter[n]
             /\ total[n] \in Nat /\ Increment(counter[n], base[n]) \in Nat
  <2>1. counter[n] \in Bytes /\ base[n] \in Bytes /\ total[n] \in Nat
    BY DEF TypeOK, Readings
  <2>2. counter[n] <= counter[n]
    BY <2>1 DEF Bytes, Absent
  <2> QED
    BY <2>1, <2>2, Amounts
<1>4. InFlight'
  BY <1>1, <1>2, <1>3 DEF Accounts, Billed, InFlight
<1>5. Undisturbed'
  BY <1>1, <1>2, <1>3 DEF Accounts, Undisturbed, Rising
<1>6. Billed' /\ ExactBilling' /\ Saved'
  BY <1>1, <1>2 DEF Accounts, Billed, ExactBilling, Saved
<1> QED
  BY <1>4, <1>5, <1>6 DEF Accounts

\* Committing an increment and its baseline together moves bytes from what is
\* still to be billed to what is, and leaves their sum alone.
LEMMA CommitAccounts ==
    ASSUME TypeOK, Accounts, TickCommit
    PROVE  Accounts'
<1>1. /\ tick.pc = "read" /\ tick'.pc = "committed" /\ base' = tick.read /\ tick'.read = tick.read
      /\ \A n \in Names : total'[n] = total[n] + Increment(tick.read[n], base[n])
      /\ UNCHANGED <<counter, forwarded, disturbed>>
  BY DEF TickCommit, TypeOK, TickState, kernel, env
<1>2. Billed' /\ InFlight' /\ Saved'
  BY <1>1 DEF Accounts, Billed, InFlight, Saved
<1>3. ASSUME NEW n \in Names \ disturbed
      PROVE  total'[n] + Increment(counter[n], tick.read[n]) = forwarded[n] /\ tick.read[n] <= counter[n]
  <2>1. Rising(n) /\ total[n] + Increment(counter[n], base[n]) = forwarded[n]
    BY DEF Accounts, Undisturbed, ExactBilling
  <2>2. counter[n] \in Bytes /\ tick.read[n] \in Bytes /\ base[n] \in Bytes /\ total[n] \in Nat
    BY DEF TypeOK, Readings, TickState
  <2>3. Increment(tick.read[n], base[n]) + Increment(counter[n], tick.read[n]) = Increment(counter[n], base[n])
    BY <1>1, <2>1, <2>2, Splits DEF Rising
  <2>4. Increment(tick.read[n], base[n]) \in Nat /\ Increment(counter[n], tick.read[n]) \in Nat
    BY <2>2, Amounts
  <2> QED
    BY <1>1, <2>1, <2>2, <2>3, <2>4 DEF Rising
<1>4. ExactBilling' /\ Undisturbed'
  BY <1>1, <1>3 DEF ExactBilling, Undisturbed, Rising
<1> QED
  BY <1>2, <1>4 DEF Accounts

\* A step that is none of the collector's readings, commits and publications
\* leaves what the collector has stored and what it is about to store alone.
LEMMA OtherStep ==
    ASSUME [Next]_vars
    PROVE  \/ TickRead \/ TickCommit
           \/ UNCHANGED <<total, base>> /\ (UNCHANGED tick \/ tick' = NoTick)
<1> USE DEF db, kernel, env
<1>1. CASE Collector \/ CollectorFails
  BY <1>1 DEF Collector, CollectorFails, TickPublish, TickAbandon, TickFails, TickPublishStale,
     Publish
<1>2. CASE PolicySync \/ PolicyFails
  BY <1>2 DEF PolicySync, PolicyFails, PolicySnap, PolicyFallback, PolicyRead, PolicyStruct, PolicyElems
<1>3. CASE TableLoss \/ Crash \/ Reboot
  BY <1>3 DEF TableLoss, Crash, Reboot, Forget
<1>4. ASSUME NEW r \in Rules, ResetRequest(r) PROVE UNCHANGED <<total, base, tick>>
  BY <1>4 DEF ResetRequest
<1>5. ASSUME NEW n \in Names, Packet(n) PROVE UNCHANGED <<total, base, tick>>
  BY <1>5 DEF Packet
<1>6. CASE UNCHANGED vars
  BY <1>6 DEF vars
<1> QED
  BY <1>1, <1>2, <1>3, <1>4, <1>5, <1>6 DEF Next

LEMMA NextAccounts ==
    ASSUME TypeOK, TypeOK', Accounts, PartialReads = FALSE, [Next]_vars
    PROVE  Accounts'
<1>1. CASE TickRead
  BY <1>1, ReadAccounts
<1>2. CASE TickCommit
  BY <1>2, CommitAccounts
<1>3. CASE UNCHANGED <<total, base>> /\ (UNCHANGED tick \/ tick' = NoTick)
  BY <1>3, StepCounters, AccountsKept
<1> QED
  BY <1>1, <1>2, <1>3, OtherStep

-----------------------------------------------------------------------------
(* Snapshots of the collector.                                             *)

LEMMA SumTypes == TypeOK => \A r \in Rules : Sum(total, r) \in Nat /\ Sum(forwarded, r) \in Nat
  BY SumType DEF TypeOK

\* The two counters of a rule, and what has been gained on them.
LEMMA Gained ==
    ASSUME NEW c \in Readings, NEW b \in Readings, NEW r \in Rules
    PROVE  /\ <<r, Up>> \in Names /\ <<r, Down>> \in Names
           /\ c[<<r, Up>>] \in Bytes /\ c[<<r, Down>>] \in Bytes
           /\ b[<<r, Up>>] \in Bytes /\ b[<<r, Down>>] \in Bytes
           /\ Gain(c[<<r, Up>>], b[<<r, Up>>]) \in Nat /\ Gain(c[<<r, Down>>], b[<<r, Down>>]) \in Nat
<1>1. <<r, Up>> \in Names /\ <<r, Down>> \in Names
  BY DEF Names, Dirs
<1>2. /\ c[<<r, Up>>] \in Bytes /\ c[<<r, Down>>] \in Bytes
      /\ b[<<r, Up>>] \in Bytes /\ b[<<r, Down>>] \in Bytes
  BY <1>1 DEF Readings
<1> QED
  BY <1>1, <1>2, Amounts

\* What a snapshot makes of a rule's traffic stays below the traffic.
LEMMA SnapKept ==
    ASSUME TypeOK, TypeOK', CounterSteps, NEW committed \in [Rules -> Nat], NEW b \in Readings,
           NEW r \in Rules, Snap(committed, b, counter, forwarded, r)
    PROVE  Snap(committed, b, counter', forwarded', r)
<1>1. counter \in Readings /\ counter' \in Readings
  BY DEF TypeOK
<1>2. ASSUME NEW n \in Names
      PROVE  /\ forwarded[n] \in Nat /\ forwarded'[n] \in Nat
             /\ Gain(counter'[n], b[n]) + forwarded[n] <= Gain(counter[n], b[n]) + forwarded'[n]
  <2>1. CounterStep(n) /\ b[n] \in Bytes
    BY DEF CounterSteps, Readings
  <2> QED
    BY <2>1, NoFaster DEF TypeOK
<1>3. /\ <<r, Up>> \in Names /\ <<r, Down>> \in Names
      /\ Gain(counter[<<r, Up>>], b[<<r, Up>>]) \in Nat
      /\ Gain(counter[<<r, Down>>], b[<<r, Down>>]) \in Nat
      /\ Gain(counter'[<<r, Up>>], b[<<r, Up>>]) \in Nat
      /\ Gain(counter'[<<r, Down>>], b[<<r, Down>>]) \in Nat
  BY <1>1, Gained
<1>4. committed[r] \in Nat
  OBVIOUS
<1> QED
  BY <1>2, <1>3, <1>4 DEF Snap, Sum

\* The committed part of a snapshot alone is below the traffic too.
LEMMA SnapBound ==
    ASSUME TypeOK, NEW committed \in [Rules -> Nat], NEW b \in Readings,
           NEW r \in Rules, Snap(committed, b, counter, forwarded, r)
    PROVE  committed[r] <= Sum(forwarded, r)
<1>1. counter \in Readings /\ committed[r] \in Nat /\ Sum(forwarded, r) \in Nat
  BY SumTypes DEF TypeOK
<1>2. /\ Gain(counter[<<r, Up>>], b[<<r, Up>>]) \in Nat
      /\ Gain(counter[<<r, Down>>], b[<<r, Down>>]) \in Nat
  BY <1>1, Gained
<1> QED
  BY <1>1, <1>2 DEF Snap

\* Stored totals, with the stored baselines, make a sound snapshot.
LEMMA StoredSnap ==
    ASSUME TypeOK, Billed, NEW committed \in [Rules -> Nat], NEW r \in Rules,
           committed[r] <= Sum(total, r)
    PROVE  /\ Snap(committed, base, counter, forwarded, r)
           /\ Sum(total, r) <= Sum(forwarded, r)
<1>1. counter \in Readings /\ base \in Readings
  BY DEF TypeOK
<1>2. ASSUME NEW n \in Names
      PROVE  /\ total[n] \in Nat /\ forwarded[n] \in Nat /\ Gain(counter[n], base[n]) \in Nat
             /\ total[n] + Gain(counter[n], base[n]) <= forwarded[n]
  <2>1. counter[n] \in Bytes /\ base[n] \in Bytes /\ total[n] \in Nat /\ forwarded[n] \in Nat
    BY <1>1 DEF Readings, TypeOK
  <2>2. /\ Gain(counter[n], base[n]) \in Nat /\ Increment(counter[n], base[n]) \in Nat
        /\ Gain(counter[n], base[n]) <= Increment(counter[n], base[n])
    BY <2>1, Amounts
  <2>3. total[n] + Increment(counter[n], base[n]) <= forwarded[n]
    BY DEF Billed
  <2> QED
    BY <2>1, <2>2, <2>3
<1>3. <<r, Up>> \in Names /\ <<r, Down>> \in Names
  BY <1>1, Gained
<1>4. committed[r] \in Nat
  OBVIOUS
<1> QED
  BY <1>2, <1>3, <1>4 DEF Snap, Sum

\* Only a publication gives the collector's memory new totals.
LEMMA ColStep ==
    ASSUME TypeOK, [Next]_vars
    PROVE  \/ TickPublish \/ TickPublishStale \/ col' = NoMemory
           \/ /\ col'.ready = col.ready /\ col'.committed = col.committed
              /\ col'.base = col.base /\ col'.stale = col.stale
<1> USE DEF db, kernel, env
<1>1. CASE TickAbandon \/ TickFails
  BY <1>1 DEF TickAbandon, TickFails, TypeOK, Memory
<1>2. CASE TickRead \/ TickCommit
  BY <1>2 DEF TickRead, TickCommit
<1>3. CASE PolicySync \/ PolicyFails
  BY <1>3 DEF PolicySync, PolicyFails, PolicySnap, PolicyFallback, PolicyRead, PolicyStruct, PolicyElems
<1>4. CASE TableLoss \/ Crash \/ Reboot
  BY <1>4 DEF TableLoss, Crash, Reboot, Forget
<1>5. ASSUME NEW r \in Rules, ResetRequest(r) PROVE col' = col
  BY <1>5 DEF ResetRequest
<1>6. ASSUME NEW n \in Names, Packet(n) PROVE col' = col
  BY <1>6 DEF Packet
<1>7. CASE UNCHANGED vars
  BY <1>7 DEF vars
<1> QED
  BY <1>1, <1>2, <1>3, <1>4, <1>5, <1>6, <1>7 DEF Next, Collector, CollectorFails

LEMMA NextColSnap ==
    ASSUME TypeOK, TypeOK', Billed, Saved, ColSnap, [Next]_vars
    PROVE  ColSnap'
<1> SUFFICES ASSUME NEW r \in Rules
             PROVE  /\ col'.committed[r] <= Sum(total', r)
                    /\ col'.ready => Snap(col'.committed, col'.base, counter', forwarded', r)
  BY DEF ColSnap
<1>0. /\ col.committed \in [Rules -> Nat] /\ col.base \in Readings /\ col.committed[r] \in Nat
      /\ Sum(total, r) \in Nat /\ Sum(total', r) \in Nat
  BY SumTypes, SumType DEF TypeOK, Memory
<1>1. CASE col'.ready = col.ready /\ col'.committed = col.committed /\ col'.base = col.base
  <2>1. Sum(total', r) >= Sum(total, r)
    BY Grows
  <2>2. col.committed[r] <= Sum(total, r)
    BY DEF ColSnap
  <2>3. col.ready => Snap(col.committed, col.base, counter', forwarded', r)
    BY <1>0, StepCounters, SnapKept DEF ColSnap
  <2> QED
    BY <1>0, <1>1, <2>1, <2>2, <2>3
<1>2. CASE col' = NoMemory
  BY <1>0, <1>2 DEF NoMemory
<1>3. ASSUME NEW committed \in [Rules -> Nat], committed[r] <= Sum(total, r), Publish(committed)
      PROVE  /\ col'.committed[r] <= Sum(total', r)
             /\ Snap(col'.committed, col'.base, counter', forwarded', r)
  <2>1. /\ col'.committed = committed /\ col'.base = tick.read /\ tick.pc = "committed"
        /\ UNCHANGED <<total, counter, forwarded>>
    BY <1>3 DEF Publish, db, kernel
  <2>2. base = tick.read
    BY <2>1 DEF Saved
  <2>3. Snap(committed, base, counter, forwarded, r)
    BY <1>3, StoredSnap
  <2> QED
    BY <1>3, <2>1, <2>2, <2>3
<1>4. CASE TickPublish
  <2>1. Totals \in [Rules -> Nat] /\ Totals[r] <= Sum(total, r)
    BY <1>0, TotalsType DEF Totals
  <2> QED
    BY <1>3, <1>4, <2>1 DEF TickPublish
<1>5. CASE TickPublishStale
  BY <1>0, <1>3, <1>5 DEF TickPublishStale, ColSnap
<1> QED
  BY <1>1, <1>2, <1>4, <1>5, ColStep

\* Only the steps of a sync change what it has read.
LEMMA PolStep ==
    ASSUME [Next]_vars
    PROVE  \/ PolicySync /\ UNCHANGED <<total, counter, forwarded>>
           \/ PolicyStruct
           \/ UNCHANGED pol \/ pol' = NoSync
<1> USE DEF db, kernel, env
<1>1. CASE Collector \/ CollectorFails
  BY <1>1 DEF Collector, CollectorFails, TickRead, TickCommit, TickPublish, TickAbandon,
     TickFails, TickPublishStale, Publish
<1>2. CASE PolicySync
  BY <1>2 DEF PolicySync, PolicySnap, PolicyFallback, PolicyRead, PolicyElems
<1>3. CASE PolicyFails \/ TableLoss \/ Crash \/ Reboot
  BY <1>3 DEF PolicyFails, TableLoss, Crash, Reboot, Forget
<1>4. ASSUME NEW r \in Rules, ResetRequest(r) PROVE UNCHANGED pol
  BY <1>4 DEF ResetRequest
<1>5. ASSUME NEW n \in Names, Packet(n) PROVE UNCHANGED pol
  BY <1>5 DEF Packet
<1>6. CASE UNCHANGED vars
  BY <1>6 DEF vars
<1> QED
  BY <1>1, <1>2, <1>3, <1>4, <1>5, <1>6 DEF Next

LEMMA NextPolSnap ==
    ASSUME TypeOK, TypeOK', Billed, ColSnap, PolSnap, [Next]_vars
    PROVE  PolSnap'
<1> SUFFICES ASSUME NEW r \in Rules
             PROVE  /\ pol'.pc = "fallback" => ~pol'.ready
                    /\ pol'.pc = "read" => pol'.committed[r] <= Sum(forwarded', r)
                    /\ pol'.pc = "read" /\ pol'.ready =>
                         Snap(pol'.committed, pol'.base, counter', forwarded', r)
  BY DEF PolSnap
<1>0. /\ col.committed \in [Rules -> Nat] /\ col.base \in Readings
      /\ pol.committed \in [Rules -> Nat] /\ pol.base \in Readings /\ pol.committed[r] \in Nat
      /\ Sum(forwarded, r) \in Nat /\ Sum(forwarded', r) \in Nat
  BY SumTypes, SumType DEF TypeOK, Memory, SyncState
<1>1. CASE UNCHANGED pol
  <2>1. Sum(forwarded', r) >= Sum(forwarded, r)
    BY Grows
  <2>2. pol.pc = "read" /\ pol.ready => Snap(pol.committed, pol.base, counter', forwarded', r)
    BY <1>0, StepCounters, SnapKept DEF PolSnap
  <2>3. pol.pc = "read" => pol.committed[r] <= Sum(forwarded', r)
    BY <1>0, <2>1 DEF PolSnap
  <2> QED
    BY <1>1, <2>2, <2>3 DEF PolSnap
<1>2. CASE pol'.pc \notin {"fallback", "read"}
  BY <1>2
<1>3. CASE PolicySnap /\ UNCHANGED <<total, counter, forwarded>>
  <2>1. PICK R, baseline : pol' = Snapshot(R, baseline)
    BY <1>3 DEF PolicySnap
  <2>2. /\ pol'.pc = IF col.ready THEN "read" ELSE "fallback"
        /\ pol'.ready = col.ready /\ pol'.committed = col.committed /\ pol'.base = col.base
    BY <2>1 DEF Snapshot, NoSync
  <2>3. col.ready => Snap(col.committed, col.base, counter, forwarded, r)
    BY DEF ColSnap
  <2>4. col.ready => col.committed[r] <= Sum(forwarded, r)
    BY <1>0, <2>3, SnapBound
  <2>5. pol'.pc = "fallback" => ~col.ready
    BY <2>2
  <2>6. pol'.pc = "read" => col.ready
    BY <2>2
  <2> QED
    BY <1>3, <2>2, <2>3, <2>4, <2>5, <2>6
<1>4. CASE PolicyFallback /\ UNCHANGED <<total, counter, forwarded>>
  <2>1. pol.pc = "fallback" /\ pol'.committed = Totals /\ pol'.ready = pol.ready /\ pol'.pc = "read"
    BY <1>4 DEF PolicyFallback, TypeOK, SyncState
  <2>2. Totals \in [Rules -> Nat] /\ Totals[r] = Sum(total, r) /\ Totals[r] <= Sum(total, r)
    BY TotalsType, SumTypes DEF Totals
  <2>3. Sum(total, r) <= Sum(forwarded, r)
    BY <2>2, StoredSnap
  <2> QED
    BY <1>4, <2>1, <2>2, <2>3 DEF PolSnap
<1>5. CASE PolicyRead \/ PolicyStruct \/ PolicyElems \/ pol' = NoSync
  <2>2. PolicyRead => pol'.pc = "struct"
    BY DEF PolicyRead, TypeOK, SyncState
  <2>3. PolicyStruct => pol'.pc = "elems"
    BY DEF PolicyStruct, TypeOK, SyncState
  <2>4. PolicyElems => pol' = NoSync
    BY DEF PolicyElems
  <2>5. NoSync.pc = "idle"
    BY DEF NoSync
  <2>1. pol'.pc \in {"struct", "elems", "idle"}
    BY <1>5, <2>2, <2>3, <2>4, <2>5
  <2> QED
    BY <1>2, <2>1
<1> QED
  BY <1>1, <1>3, <1>4, <1>5, PolStep DEF PolicySync

-----------------------------------------------------------------------------
(* What is published, decided and stored.                                  *)

LEMMA UsedBound ==
    ASSUME TypeOK, PolSnap, pol.pc = "read", NEW r \in Rules
    PROVE  Used(r) <= Sum(forwarded, r)
<1>1. /\ counter \in Readings /\ pol.base \in Readings /\ pol.committed[r] \in Nat
      /\ Sum(forwarded, r) \in Nat
  BY SumTypes DEF TypeOK, SyncState
<1>2. /\ Gain(counter[<<r, Up>>], pol.base[<<r, Up>>]) \in Nat
      /\ Gain(counter[<<r, Down>>], pol.base[<<r, Down>>]) \in Nat
  BY <1>1, Gained
<1>3. CASE pol.ready
  <2>1. Snap(pol.committed, pol.base, counter, forwarded, r)
    BY <1>3 DEF PolSnap
  <2> QED
    BY <1>1, <1>2, <1>3, <2>1 DEF Snap, Used, Gains
<1>4. CASE ~pol.ready
  <2>1. pol.committed[r] <= Sum(forwarded, r)
    BY DEF PolSnap
  <2> QED
    BY <1>1, <1>4, <2>1 DEF Used, Gains
<1> QED
  BY <1>3, <1>4

\* A total a client reads is one it has been shown, or the stored one.
LEMMA LifetimeBound ==
    ASSUME TypeOK, Billed, Stored, NEW r \in Rules
    PROVE  Lifetime(r) <= Sum(forwarded, r)
<1>1. Totals \in [Rules -> Nat] /\ Totals[r] = Sum(total, r) /\ Totals[r] <= Sum(total, r)
  BY TotalsType, SumTypes DEF Totals
<1>2. Sum(total, r) <= Sum(forwarded, r)
  BY <1>1, StoredSnap
<1> QED
  BY <1>1, <1>2 DEF Lifetime, Stored

\* Stored, of one rule.
StoredOf(r) ==
    /\ pol.used[r] <= Sum(forwarded, r) /\ quotaTotals[r] <= Sum(forwarded, r)
    /\ req[r] <= Sum(forwarded, r)
    /\ reset[r] <= Sum(forwarded, r) /\ pol.reset[r] <= Sum(forwarded, r)

\* What the steps outside a sync leave of it.
LEMMA StoredStep ==
    ASSUME [Next]_vars
    PROVE  \/ PolicySync /\ UNCHANGED forwarded
           \/ \E r \in Rules : ResetRequest(r)
           \/ Forget /\ UNCHANGED reset
           \/ /\ UNCHANGED <<req, reset>> /\ (UNCHANGED pol \/ pol' = NoSync)
              /\ quotaTotals' \in {quotaTotals, Published}
<1> USE DEF db, kernel, env
<1>1. CASE Collector \/ CollectorFails
  BY <1>1 DEF Collector, CollectorFails, TickRead, TickCommit, TickPublish, TickAbandon,
     TickFails, TickPublishStale, Publish
<1>2. CASE PolicySync
  BY <1>2 DEF PolicySync, PolicySnap, PolicyFallback, PolicyRead, PolicyStruct, PolicyElems
<1>3. CASE PolicyFails \/ TableLoss \/ Crash \/ Reboot
  BY <1>3 DEF PolicyFails, TableLoss, Crash, Reboot
<1>5. ASSUME NEW n \in Names, Packet(n) PROVE UNCHANGED <<quotaTotals, req, reset, pol>>
  BY <1>5 DEF Packet
<1>6. CASE UNCHANGED vars
  BY <1>6 DEF vars
<1> QED
  BY <1>1, <1>2, <1>3, <1>5, <1>6 DEF Next

LEMMA NextStored ==
    ASSUME TypeOK, TypeOK', Billed, PolSnap, Stored, [Next]_vars
    PROVE  Stored'
<1> SUFFICES ASSUME NEW r \in Rules PROVE StoredOf(r)'
  BY DEF Stored, StoredOf
<1>0. /\ pol.used[r] \in Nat /\ pol.reset[r] \in Nat /\ reset[r] \in Nat
      /\ quotaTotals[r] \in Bytes /\ req[r] \in Bytes
      /\ Sum(forwarded, r) \in Nat /\ Sum(forwarded', r) \in Nat
      /\ Sum(forwarded', r) >= Sum(forwarded, r)
  BY SumTypes, SumType, Grows DEF TypeOK, SyncState
<1>1. StoredOf(r)
  BY DEF Stored, StoredOf
<1>2. ASSUME NEW x \in Bytes, x <= Sum(forwarded, r) PROVE x <= Sum(forwarded', r)
  BY <1>0, <1>2 DEF Bytes, Absent
<1>3. 0 <= Sum(forwarded', r) /\ Absent <= Sum(forwarded', r)
  BY <1>0 DEF Absent
<1>4. NoSync.used[r] = 0 /\ NoSync.reset[r] = 0
  BY DEF NoSync
<1>5. /\ pol.used[r] <= Sum(forwarded', r) /\ pol.reset[r] <= Sum(forwarded', r)
      /\ quotaTotals[r] <= Sum(forwarded', r) /\ req[r] <= Sum(forwarded', r)
      /\ reset[r] <= Sum(forwarded', r)
  BY <1>0, <1>1, <1>2 DEF StoredOf, Bytes
<1>14. Published[r] <= Sum(forwarded', r)
  BY <1>3, <1>5 DEF Published
<1>6. CASE /\ UNCHANGED <<req, reset>> /\ (UNCHANGED pol \/ pol' = NoSync)
           /\ quotaTotals' \in {quotaTotals, Published}
  <2>1. quotaTotals'[r] <= Sum(forwarded', r)
    BY <1>5, <1>6, <1>14
  <2> QED
    BY <1>3, <1>4, <1>5, <1>6, <2>1 DEF StoredOf
<1>7. CASE Forget /\ UNCHANGED reset
  <2>1. pol' = NoSync /\ quotaTotals'[r] = Absent /\ req'[r] = Absent
    BY <1>7 DEF Forget
  <2> QED
    BY <1>3, <1>4, <1>5, <1>7, <2>1 DEF StoredOf
<1>8. ASSUME NEW q \in Rules, ResetRequest(q) PROVE StoredOf(r)'
  <2>1. UNCHANGED <<quotaTotals, reset, pol, forwarded>> /\ req' = [req EXCEPT ![q] = Lifetime(q)]
    BY <1>8 DEF ResetRequest, db, env
  <2>2. req'[r] = req[r] \/ req'[r] = Lifetime(r)
    BY <2>1 DEF TypeOK
  <2>3. req'[r] <= Sum(forwarded', r)
    BY <1>5, <2>1, <2>2, LifetimeBound
  <2> QED
    BY <1>5, <2>1, <2>3 DEF StoredOf
<1>9. CASE PolicySnap /\ UNCHANGED forwarded
  <2>1. PICK R \in RuleSets, baseline \in Baselines : pol' = Snapshot(R, baseline)
    BY <1>9 DEF PolicySnap
  <2>2. pol'.used[r] = 0 /\ pol'.reset[r] = baseline[r]
    BY <2>1 DEF Snapshot, NoSync
  <2>3. baseline[r] = reset[r] \/ baseline[r] = req[r]
    BY DEF Baselines, TypeOK
  <2>4. UNCHANGED <<quotaTotals, req, reset>>
    BY <1>9 DEF PolicySnap, db
  <2> QED
    BY <1>3, <1>5, <2>2, <2>3, <2>4 DEF StoredOf
<1>10. CASE PolicyFallback /\ UNCHANGED forwarded
  <2>1. pol'.used = pol.used /\ pol'.reset = pol.reset
    BY <1>10 DEF PolicyFallback, TypeOK, SyncState
  <2>2. UNCHANGED <<quotaTotals, req, reset>>
    BY <1>10 DEF PolicyFallback, db
  <2> QED
    BY <1>5, <2>1, <2>2 DEF StoredOf
<1>11. CASE PolicyRead /\ UNCHANGED forwarded
  <2>1. pol'.used[r] = Used(r) /\ pol'.reset = pol.reset /\ pol.pc = "read"
    BY <1>11 DEF PolicyRead, TypeOK, SyncState
  <2>2. UNCHANGED <<quotaTotals, req, reset, forwarded>>
    BY <1>11 DEF PolicyRead, db
  <2>3. Used(r) <= Sum(forwarded, r)
    BY <2>1, UsedBound
  <2> QED
    BY <1>5, <2>1, <2>2, <2>3 DEF StoredOf
<1>12. CASE PolicyStruct /\ UNCHANGED forwarded
  <2>1. pol'.used = pol.used /\ pol'.reset = pol.reset
    BY <1>12 DEF PolicyStruct, TypeOK, SyncState
  <2>2. UNCHANGED <<quotaTotals, req, reset>>
    BY <1>12 DEF PolicyStruct, db
  <2> QED
    BY <1>5, <2>1, <2>2 DEF StoredOf
<1>13. CASE PolicyElems /\ UNCHANGED forwarded
  <2>1. pol' = NoSync /\ reset' = pol.reset
    BY <1>13 DEF PolicyElems
  <2>2. quotaTotals'[r] <= Sum(forwarded', r)
    BY <1>13, <1>14 DEF PolicyElems
  <2>3. req'[r] = req[r] \/ req'[r] = Absent
    BY <1>13 DEF PolicyElems
  <2> QED
    BY <1>3, <1>4, <1>5, <2>1, <2>2, <2>3 DEF StoredOf
<1> QED
  BY <1>6, <1>7, <1>8, <1>9, <1>10, <1>11, <1>12, <1>13, StoredStep DEF PolicySync

\* A decision to block is made on the total of the round and never outlives the
\* traffic it was made on, which only grows.
LEMMA NextBlocked ==
    ASSUME TypeOK, TypeOK', Stored, BlockedOnlyWhenUsed, [Next]_vars
    PROVE  BlockedOnlyWhenUsed'
<1>1. ASSUME NEW r \in Rules
      PROVE  /\ Limit[r] \in Nat /\ Sum(forwarded, r) \in Nat /\ Sum(forwarded', r) \in Nat
             /\ Sum(forwarded', r) >= Sum(forwarded, r)
             /\ pol.used[r] \in Nat /\ pol.reset[r] \in Nat /\ pol.used[r] <= Sum(forwarded, r)
  BY SumTypes, SumType, Grows, LimitAssumption DEF TypeOK, SyncState, Stored
<1>2. CASE blocked' = Decided
  <2>1. blocked' = {r \in pol.rules : Exceeded(r)} /\ pol.rules \subseteq Rules
    BY <1>2 DEF Decided, TypeOK, SyncState
  <2> SUFFICES ASSUME NEW r \in Rules, Exceeded(r) PROVE Sum(forwarded', r) >= Limit[r]
    BY <2>1 DEF BlockedOnlyWhenUsed
  <2>2. pol.used[r] - pol.reset[r] >= Limit[r]
    BY DEF Exceeded
  <2> QED
    BY <1>1, <2>2
<1>3. CASE blocked' \subseteq blocked
  <2> SUFFICES ASSUME NEW r \in blocked PROVE Sum(forwarded', r) >= Limit[r]
    BY <1>3 DEF BlockedOnlyWhenUsed
  <2>1. r \in Rules /\ Sum(forwarded, r) >= Limit[r]
    BY DEF TypeOK, BlockedOnlyWhenUsed
  <2> QED
    BY <1>1, <2>1
<1>4. blocked' = Decided \/ blocked' \subseteq blocked
  BY DEF Next, Collector, CollectorFails, PolicySync, PolicyElems, TickRead, TickCommit, TickPublish, TickAbandon,
     TickFails, TickPublishStale, Publish, PolicySnap, PolicyFallback, PolicyRead, PolicyStruct,
     PolicyFails, ResetRequest, Packet, TableLoss, Crash, Reboot, LoseTable, vars, kernel
<1> QED
  BY <1>2, <1>3, <1>4

-----------------------------------------------------------------------------
LEMMA NextInv == PartialReads = FALSE /\ IInv /\ [Next]_vars => IInv'
<1> SUFFICES ASSUME PartialReads = FALSE, IInv, [Next]_vars PROVE IInv'
  OBVIOUS
<1>1. TypeOK /\ TypeOK'
  BY NextType DEF IInv
<1>2. Accounts /\ Accounts'
  BY <1>1, NextAccounts DEF IInv, Accounts
<1>3. ColSnap' /\ PolSnap'
  BY <1>1, NextColSnap, NextPolSnap DEF IInv
<1>4. Stored' /\ BlockedOnlyWhenUsed'
  BY <1>1, NextStored, NextBlocked DEF IInv
<1> QED
  BY <1>1, <1>2, <1>3, <1>4 DEF IInv, Accounts

LEMMA Invariance == ASSUME PartialReads = FALSE PROVE Spec => []IInv
<1>1. IInv /\ [Next]_vars => IInv'
  BY NextInv
<1> QED
  BY <1>1, InitInv, PTL DEF Spec

-----------------------------------------------------------------------------
(* The properties, for listings that miss no counter: with partial reads a  *)
(* byte can be billed twice (TrafficPartial), and nothing that is computed   *)
(* from the totals is bounded by the traffic any more.                      *)

\* No byte is ever billed twice: the persistent total of a direction never
\* exceeds what it carried, through crashes, reboots, failed commits, table
\* losses and counters that are rebuilt or reset between two rounds.
THEOREM NeverOverbilled == ASSUME PartialReads = FALSE PROVE Spec => []NoOverbilling
<1>1. IInv => NoOverbilling
  <2> SUFFICES ASSUME IInv, NEW n \in Names PROVE total[n] <= forwarded[n]
    BY DEF NoOverbilling
  <2>1. counter[n] \in Bytes /\ base[n] \in Bytes /\ total[n] \in Nat /\ forwarded[n] \in Nat
    BY DEF IInv, TypeOK, Readings
  <2>2. Increment(counter[n], base[n]) \in Nat
    BY <2>1, Amounts
  <2>3. total[n] + Increment(counter[n], base[n]) <= forwarded[n]
    BY DEF IInv, Billed
  <2> QED
    BY <2>1, <2>2, <2>3
<1> QED
  BY <1>1, Invariance, PTL

\* While a counter has not been destroyed, what is stored and what the next
\* round will add are together exactly what went through.
THEOREM BilledExactly == ASSUME PartialReads = FALSE PROVE Spec => []ExactBilling
<1>1. IInv => ExactBilling
  BY DEF IInv
<1> QED
  BY <1>1, Invariance, PTL

\* The real-time total a sync decides on, and the one it publishes, never
\* exceed the traffic, however the collector's rounds interleave with it.
THEOREM RealtimeSound == ASSUME PartialReads = FALSE PROVE Spec => []NeverOvercharged
<1>1. IInv => NeverOvercharged
  BY DEF IInv, Stored, NeverOvercharged
<1> QED
  BY <1>1, Invariance, PTL

\* No rule is cut off before it has carried its quota.
THEOREM BlockedJustly == ASSUME PartialReads = FALSE PROVE Spec => []BlockedOnlyWhenUsed
<1>1. IInv => BlockedOnlyWhenUsed
  BY DEF IInv
<1> QED
  BY <1>1, Invariance, PTL

\* A reset baseline, read before any lock, is never more than the rule has
\* carried, so a reset grants no allowance beyond the quota.
THEOREM ResetSound == ASSUME PartialReads = FALSE PROVE Spec => []ResetWithinTraffic
<1>1. IInv => ResetWithinTraffic
  BY DEF IInv, Stored, ResetWithinTraffic
<1> QED
  BY <1>1, Invariance, PTL

\* A round that is carried through leaves blocked only rules that have carried
\* their quota since the baseline it stores, and among the rules it enables no
\* other whose total reached the quota.  (A round that fails after nft took its
\* blocks may leave one that a lower baseline, never stored, asked for.)
RoundsBlockJustly ==
    [][PolicyElems => \A r \in Rules :
         /\ r \in blocked' => Sum(forwarded', r) - reset'[r] >= Limit[r]
         /\ r \in enabled' \ blocked' => Limit[r] = 0 \/ quotaTotals'[r] - reset'[r] < Limit[r]]_vars

\* What a completed round blocks is what the traffic since the stored baseline
\* asks for, whichever baseline a client had it store.
THEOREM RoundsJust == ASSUME PartialReads = FALSE PROVE Spec => RoundsBlockJustly
<1>1. IInv /\ PolicyElems => \A r \in Rules :
         /\ r \in blocked' => Sum(forwarded', r) - reset'[r] >= Limit[r]
         /\ r \in enabled' \ blocked' => Limit[r] = 0 \/ quotaTotals'[r] - reset'[r] < Limit[r]
  <2> SUFFICES ASSUME IInv, PolicyElems, NEW r \in Rules
               PROVE  /\ r \in blocked' => Sum(forwarded', r) - reset'[r] >= Limit[r]
                      /\ r \in enabled' \ blocked' =>
                           Limit[r] = 0 \/ quotaTotals'[r] - reset'[r] < Limit[r]
    OBVIOUS
  <2>1. /\ Limit[r] \in Nat /\ Sum(forwarded, r) \in Nat /\ pol.used[r] \in Nat /\ pol.reset[r] \in Nat
        /\ pol.used[r] <= Sum(forwarded, r)
    BY SumType, LimitAssumption DEF IInv, TypeOK, SyncState, Stored
  <2>2. /\ blocked' = Decided /\ reset' = pol.reset /\ enabled' = pol.rules
        /\ quotaTotals' = Published /\ forwarded' = forwarded
    BY DEF PolicyElems, env
  <2>3. Sum(forwarded', r) = Sum(forwarded, r)
    BY <2>2
  <2>4. ASSUME r \in blocked' PROVE Sum(forwarded', r) - reset'[r] >= Limit[r]
    <3>1. pol.used[r] - pol.reset[r] >= Limit[r]
      BY <2>2, <2>4 DEF Decided, Exceeded
    <3> QED
      BY <2>1, <2>2, <2>3, <3>1
  <2>5. ASSUME r \in enabled' \ blocked'
        PROVE  Limit[r] = 0 \/ quotaTotals'[r] - reset'[r] < Limit[r]
    <3>1. r \in pol.rules /\ ~Exceeded(r)
      BY <2>2, <2>5 DEF Decided
    <3>2. quotaTotals'[r] = pol.used[r]
      BY <2>2, <3>1 DEF Published
    <3> QED
      BY <2>1, <2>2, <3>1, <3>2 DEF Exceeded
  <2> QED
    BY <2>4, <2>5
<1> QED
  BY <1>1, Invariance, PTL DEF RoundsBlockJustly

-----------------------------------------------------------------------------
(* The other half of the real-time total: it leaves nothing out.  A snapshot *)
(* that goes together is whole from its publication to its reading, because   *)
(* a counter that is intact gains exactly what passes.                      *)

Whole(committed, b, c, f, d, r) ==
    <<r, Up>> \notin d /\ <<r, Down>> \notin d =>
      /\ b[<<r, Up>>] <= c[<<r, Up>>] /\ b[<<r, Down>>] <= c[<<r, Down>>]
      /\ committed[r] + Gain(c[<<r, Up>>], b[<<r, Up>>]) + Gain(c[<<r, Down>>], b[<<r, Down>>])
           = Sum(f, r)
Together ==
    \A r \in Rules :
      /\ col.ready /\ ~col.stale => Whole(col.committed, col.base, counter, forwarded, disturbed, r)
      /\ pol.pc = "read" /\ pol.ready /\ ~pol.stale =>
           Whole(pol.committed, pol.base, counter, forwarded, disturbed, r)

\* On a counter that has risen the two ways to read it agree.
LEMMA SameAmount ==
    ASSUME NEW c \in Bytes, NEW b \in Bytes, b <= c
    PROVE  Gain(c, b) = Increment(c, b)
  BY DEF Gain, Increment, Bytes, Absent

\* Traffic, rebuilt counters and crashes leave a snapshot as whole as it was.
LEMMA WholeKept ==
    ASSUME TypeOK, TypeOK', CounterSteps, NEW committed \in [Rules -> Nat], NEW b \in Readings,
           NEW r \in Rules, Whole(committed, b, counter, forwarded, disturbed, r)
    PROVE  Whole(committed, b, counter', forwarded', disturbed', r)
<1> DEFINE Rose(n) == /\ b[n] <= counter'[n] /\ n \notin disturbed
                      /\ Gain(counter'[n], b[n]) + forwarded[n] = Gain(counter[n], b[n]) + forwarded'[n]
<1>1. ASSUME NEW n \in Names, n \notin disturbed', b[n] <= counter[n] PROVE Rose(n)
  <2>1. CounterStep(n) /\ Marks(n) /\ b[n] \in Bytes /\ counter[n] \in Bytes /\ counter'[n] \in Bytes
    BY DEF CounterSteps, Readings, TypeOK
  <2>2. /\ b[n] <= counter'[n]
        /\ Increment(counter'[n], b[n]) + forwarded[n] = Increment(counter[n], b[n]) + forwarded'[n]
    BY <1>1, <2>1, NoFaster
  <2>3. Gain(counter'[n], b[n]) = Increment(counter'[n], b[n]) /\ Gain(counter[n], b[n]) = Increment(counter[n], b[n])
    BY <1>1, <2>1, <2>2, SameAmount
  <2> QED
    BY <1>1, <2>1, <2>2, <2>3 DEF Marks
<1>2. ASSUME NEW n \in Names, n \notin disturbed' PROVE n \notin disturbed
  BY <1>2 DEF CounterSteps, Marks
<1>3. \A n \in Names : forwarded[n] \in Nat /\ forwarded'[n] \in Nat
  BY DEF TypeOK
<1>4. /\ <<r, Up>> \in Names /\ <<r, Down>> \in Names /\ committed[r] \in Nat
      /\ \A n \in {<<r, Up>>, <<r, Down>>} : Gain(counter[n], b[n]) \in Nat /\ Gain(counter'[n], b[n]) \in Nat
  BY Gained DEF TypeOK
<1> SUFFICES ASSUME <<r, Up>> \notin disturbed', <<r, Down>> \notin disturbed'
             PROVE  /\ b[<<r, Up>>] <= counter'[<<r, Up>>] /\ b[<<r, Down>>] <= counter'[<<r, Down>>]
                    /\ committed[r] + Gain(counter'[<<r, Up>>], b[<<r, Up>>])
                          + Gain(counter'[<<r, Down>>], b[<<r, Down>>]) = Sum(forwarded', r)
  BY DEF Whole
<1>5. /\ b[<<r, Up>>] <= counter[<<r, Up>>] /\ b[<<r, Down>>] <= counter[<<r, Down>>]
      /\ committed[r] + Gain(counter[<<r, Up>>], b[<<r, Up>>])
            + Gain(counter[<<r, Down>>], b[<<r, Down>>]) = Sum(forwarded, r)
  BY <1>2, <1>4 DEF Whole
<1>6. Rose(<<r, Up>>) /\ Rose(<<r, Down>>)
  BY <1>1, <1>4, <1>5
<1> QED
  BY <1>3, <1>4, <1>5, <1>6 DEF Sum

\* The stored totals, with the stored baselines, are a whole snapshot.
LEMMA StoredWhole ==
    ASSUME TypeOK, ExactBilling, Undisturbed, NEW r \in Rules
    PROVE  Whole(Totals, base, counter, forwarded, disturbed, r)
<1>1. ASSUME NEW n \in Names, n \notin disturbed
      PROVE  /\ base[n] <= counter[n] /\ total[n] + Gain(counter[n], base[n]) = forwarded[n]
             /\ total[n] \in Nat /\ Gain(counter[n], base[n]) \in Nat
  <2>1. base[n] \in Bytes /\ counter[n] \in Bytes /\ total[n] \in Nat
    BY DEF TypeOK, Readings
  <2>2. base[n] <= counter[n] /\ total[n] + Increment(counter[n], base[n]) = forwarded[n]
    BY <1>1 DEF ExactBilling, Undisturbed, Rising
  <2>3. Gain(counter[n], base[n]) = Increment(counter[n], base[n]) /\ Gain(counter[n], base[n]) \in Nat
    BY <2>1, <2>2, SameAmount, Amounts
  <2> QED
    BY <2>1, <2>2, <2>3
<1>2. <<r, Up>> \in Names /\ <<r, Down>> \in Names /\ Totals[r] = total[<<r, Up>>] + total[<<r, Down>>]
  BY DEF Names, Dirs, Totals, Sum
<1> QED
  BY <1>1, <1>2 DEF Whole, Sum

LEMMA InitTogether == Init => Together
<1> SUFFICES ASSUME Init PROVE Together
  OBVIOUS
<1>1. ~col.ready /\ pol.pc = "idle"
  BY DEF Init, NoMemory, NoSync
<1> QED
  BY <1>1 DEF Together

LEMMA NextTogether ==
    ASSUME IInv, TypeOK', Together, [Next]_vars
    PROVE  Together'
<1> SUFFICES ASSUME NEW r \in Rules
             PROVE  /\ col'.ready /\ ~col'.stale =>
                         Whole(col'.committed, col'.base, counter', forwarded', disturbed', r)
                    /\ pol'.pc = "read" /\ pol'.ready /\ ~pol'.stale =>
                         Whole(pol'.committed, pol'.base, counter', forwarded', disturbed', r)
  BY DEF Together
<1>0. /\ TypeOK /\ CounterSteps
      /\ col.committed \in [Rules -> Nat] /\ col.base \in Readings
      /\ pol.committed \in [Rules -> Nat] /\ pol.base \in Readings
  BY StepCounters DEF IInv, TypeOK, Memory, SyncState
<1>1. /\ col.ready /\ ~col.stale => Whole(col.committed, col.base, counter', forwarded', disturbed', r)
      /\ pol.pc = "read" /\ pol.ready /\ ~pol.stale =>
           Whole(pol.committed, pol.base, counter', forwarded', disturbed', r)
  BY <1>0, WholeKept DEF Together
<1>2. ASSUME NEW committed, Publish(committed), ~col'.stale
      PROVE  Whole(col'.committed, col'.base, counter', forwarded', disturbed', r)
  <2>1. /\ col'.committed = Totals /\ col'.base = tick.read /\ tick.pc = "committed"
        /\ UNCHANGED <<counter, forwarded, disturbed>>
    BY <1>2 DEF Publish, kernel
  <2>2. base = tick.read
    BY <2>1 DEF IInv, Saved
  <2> QED
    BY <1>0, <2>1, <2>2, StoredWhole DEF IInv
<1>3. col'.ready /\ ~col'.stale => Whole(col'.committed, col'.base, counter', forwarded', disturbed', r)
  <2>1. CASE TickPublish \/ TickPublishStale
    BY <1>2, <2>1 DEF TickPublish, TickPublishStale
  <2>2. CASE col' = NoMemory
    BY <2>2 DEF NoMemory
  <2>3. CASE /\ col'.ready = col.ready /\ col'.committed = col.committed
             /\ col'.base = col.base /\ col'.stale = col.stale
    BY <1>1, <2>3
  <2> QED
    BY <1>0, <2>1, <2>2, <2>3, ColStep
<1>4. pol'.pc = "read" /\ pol'.ready /\ ~pol'.stale =>
        Whole(pol'.committed, pol'.base, counter', forwarded', disturbed', r)
  <2>1. CASE UNCHANGED pol
    BY <1>1, <2>1
  <2>2. CASE PolicySnap
    <3>1. PICK R, baseline : pol' = Snapshot(R, baseline)
      BY <2>2 DEF PolicySnap
    <3>2. /\ pol'.ready = col.ready /\ pol'.committed = col.committed /\ pol'.base = col.base
          /\ pol'.stale = col.stale
      BY <3>1 DEF Snapshot, NoSync
    <3> QED
      BY <1>1, <3>2
  <2>3. CASE PolicyFallback
    <3>1. pol.pc = "fallback" /\ pol'.ready = pol.ready
      BY <1>0, <2>3 DEF PolicyFallback, TypeOK, SyncState
    <3>2. ~pol.ready
      BY <3>1 DEF IInv, PolSnap
    <3> QED
      BY <3>1, <3>2
  <2>4. CASE PolicyRead \/ PolicyStruct \/ PolicyElems \/ pol' = NoSync
    <3>1. PolicyRead => pol'.pc = "struct"
      BY DEF PolicyRead, NoSync
    <3>2. PolicyStruct => pol'.pc = "elems"
      BY <1>0 DEF PolicyStruct, TypeOK, SyncState
    <3>3. PolicyElems => pol' = NoSync
      BY DEF PolicyElems
    <3>4. NoSync.pc = "idle"
      BY DEF NoSync
    <3>5. pol'.pc # "read"
      BY <2>4, <3>1, <3>2, <3>3, <3>4
    <3> QED
      BY <3>5
  <2> QED
    BY <2>1, <2>2, <2>3, <2>4, PolStep DEF PolicySync
<1> QED
  BY <1>3, <1>4

\* The total a sync reads is exactly the traffic, as the comment on the collector's
\* snapshot says (collector.go:418-420), with the one exception that the code beside
\* it makes: old totals are kept when they cannot be reloaded.
THEOREM RealtimeComplete == ASSUME PartialReads = FALSE PROVE Spec => RealtimeExact
<1>1. IInv /\ Together /\ PolicyRead /\ pol.ready /\ ~pol.stale =>
        \A r \in Rules : Intact(r) => pol'.used[r] = Sum(forwarded, r)
  <2> SUFFICES ASSUME IInv, Together, PolicyRead, pol.ready, ~pol.stale, NEW r \in Rules, Intact(r)
               PROVE  pol'.used[r] = Sum(forwarded, r)
    OBVIOUS
  <2>1. pol.pc = "read" /\ pol'.used[r] = Used(r)
    BY DEF PolicyRead, NoSync
  <2>2. Whole(pol.committed, pol.base, counter, forwarded, disturbed, r)
    BY <2>1 DEF Together
  <2>3. pol.committed[r] + Gain(counter[<<r, Up>>], pol.base[<<r, Up>>])
          + Gain(counter[<<r, Down>>], pol.base[<<r, Down>>]) = Sum(forwarded, r)
    BY <2>2 DEF Whole, Intact
  <2>4. /\ pol.committed[r] \in Nat
        /\ Gain(counter[<<r, Up>>], pol.base[<<r, Up>>]) \in Nat
        /\ Gain(counter[<<r, Down>>], pol.base[<<r, Down>>]) \in Nat
    BY Gained DEF IInv, TypeOK, SyncState
  <2> QED
    BY <2>1, <2>3, <2>4 DEF Used, Gains
<1>2. IInv /\ IInv' /\ Together /\ [Next]_vars => Together'
  BY NextTogether DEF IInv
<1> QED
  BY <1>1, <1>2, InitTogether, Invariance, PTL DEF Spec, RealtimeExact
=============================================================================
