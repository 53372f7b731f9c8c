-------------------------- MODULE EnforceSyncProofs --------------------------
(***************************************************************************)
(* What holds of EnforceSync for any rules, addresses and limits.          *)
(*                                                                         *)
(* The inductive invariant follows one sync.  From the moment it has read   *)
(* the kernel, and as long as nobody tampers, what it has read is what the  *)
(* kernel holds (ReadTrue); once the structure is written the chain is the  *)
(* wanted one (Built), and after the elements the candidate rules are in    *)
(* force (Applied).  A sync that began with everything in force and cannot  *)
(* use conntrack wants the elements that are already there (Replaying).     *)
(* What a sync in progress wants to let pass is within the limit, or no more *)
(* than passes now (Bounded), as long as nothing has gone wrong.            *)
(***************************************************************************)
EXTENDS EnforceSync, FiniteSetTheorems, TLAPS

Untouched == "tamper" \notin suspect
ForceOf(rules) ==
    /\ chain = Structure(rules)
    /\ \A r \in LimitedBy(rules) : allow[r] = slots[r]
    /\ \A r \in Rules : ~rules[r].on => slots[r] = {}

Forgotten == sync.pc \in {"struct", "elems", "commit"} =>
                 \A r \in Rules : ~sync.rules[r].on => slots[r] = {}
ReadTrue  == sync.pc \in {"struct", "elems"} /\ Untouched =>
                 sync.curChain = chain /\ sync.curAllow = allow
Built     == sync.pc = "elems" /\ Untouched => chain = Wanted
Applied   == sync.pc = "commit" /\ Untouched => ForceOf(sync.rules)
AtRest    == sync.pc \in {"idle", "begin"} /\ suspect = {} => ForceOf(db)
Replaying == sync.pc \in {"struct", "elems"} /\ suspect = {} =>
                 \A r \in Rules : Frozen(r) => allow[r] = slots[r]

IInv == TypeOK /\ Forgotten /\ ReadTrue /\ Built /\ Applied /\ AtRest /\ Replaying

-----------------------------------------------------------------------------
\* The structure of a rule set has a shape for every rule.
LEMMA ShapeType == ASSUME NEW rules \in Settings PROVE Structure(rules) \in Shapes
  BY DEF Structure, Shape, Shapes

\* A rule that is limited is on, and its shape says so.
LEMMA LimitedShape ==
    ASSUME NEW rules \in Settings, NEW r \in Rules
    PROVE  r \in LimitedBy(rules) <=> Structure(rules)[r] = "limited"
  BY DEF LimitedBy, Structure

\* The constant values of Init have their types.
LEMMA Constants ==
    /\ NoRules \in Settings /\ NoSets \in Sets /\ NoChains \in Shapes /\ NoSync \in Sync
    /\ NoSync.pc = "idle" /\ NoSync.kind = "round"
<1>1. NoRules \in Settings
  BY LimitAssumption DEF NoRules, Settings, Setting
<1>2. NoSets \in Sets /\ NoChains \in Shapes
  BY DEF NoSets, Sets, NoChains, Shapes
<1> QED
  BY <1>1, <1>2 DEF NoSync, Sync

LEMMA InitInv == Init => IInv
<1> SUFFICES ASSUME Init PROVE IInv
  OBVIOUS
<1>1. TypeOK
  BY Constants DEF Init, TypeOK
<1>2. ForceOf(db)
  <2>1. \A r \in Rules : ~db[r].on /\ slots[r] = {} /\ chain[r] = "none"
    BY DEF Init, NoRules, NoSets, NoChains
  <2>2. LimitedBy(db) = {}
    BY <2>1 DEF LimitedBy, Shape
  <2>3. chain = Structure(db)
    BY <2>1 DEF Init, NoChains, Structure, Shape
  <2> QED
    BY <2>1, <2>2, <2>3 DEF ForceOf
<1>3. sync.pc = "idle"
  BY Constants DEF Init
<1> QED
  BY <1>1, <1>2, <1>3 DEF IInv, Forgotten, ReadTrue, Built, Applied, AtRest, Replaying

-----------------------------------------------------------------------------
(* Types.                                                                  *)

\* Giving up keeps the types, and leaves a sync at rest or about to roll back.
LEMMA FailingType ==
    ASSUME TypeOK, Failing, db' = db
    PROVE  /\ sync' \in Sync /\ sync'.pc \in {"idle", "begin"}
           /\ suspect' \subseteq Tags /\ "failed" \in suspect'
           /\ (sync'.pc # "idle" /\ sync'.kind # "call" => sync'.rules = db')
<1>1. CASE sync.kind = "call"
  BY <1>1, Constants DEF TypeOK, Failing, Sync, Tags, Previous, NoSync
<1>2. CASE sync.kind # "call"
  BY <1>2, Constants DEF TypeOK, Failing, Tags
<1> QED
  BY <1>1, <1>2

LEMMA NextType == TypeOK /\ [Next]_vars => TypeOK'
<1> SUFFICES ASSUME TypeOK, [Next]_vars PROVE TypeOK'
  OBVIOUS
<1> USE DEF kernel, memory
<1>f. Fault => faults' \in Nat
  BY DEF Fault, TypeOK
<1>1. CASE BeginRound
  BY <1>1, Constants DEF BeginRound, Begin, TypeOK, Sync, NoSync
<1>2. CASE BeginCall
  <2>1. PICK r \in Rules, s \in Setting : Begin("call", [db EXCEPT ![r] = s])
    BY <1>2 DEF BeginCall
  <2>2. [db EXCEPT ![r] = s] \in Settings
    BY DEF TypeOK, Settings
  <2> QED
    BY <2>1, <2>2, Constants DEF Begin, TypeOK, Sync, NoSync
<1>3. CASE Admit
  BY <1>3 DEF Admit, TypeOK, Sync, Tags
<1>4. CASE SkipStruct
  BY <1>4 DEF SkipStruct, TypeOK, Sync
<1>5. ASSUME chain' = Wanted, allow' = RebuiltSets PROVE chain' \in Shapes /\ allow' \in Sets
  BY <1>5, ShapeType DEF TypeOK, Sync, Wanted, RebuiltSets, Sets
<1>6. CASE Rebuild
  BY <1>5, <1>6 DEF Rebuild, TypeOK, Sync
<1>7. Synced \in Sets
  BY DEF Synced, TypeOK, Sets, Surplus, Lacking
<1>8. CASE Elements
  BY <1>7, <1>8, Constants DEF Elements, TypeOK, Sync, Tags
<1>9. CASE Commit
  BY <1>9, Constants DEF Commit, TypeOK, Sync
<1>10. CASE ReadFails \/ ElementsStale \/ CommitFails
  BY <1>f, <1>10, FailingType DEF ReadFails, ElementsStale, CommitFails, TypeOK
<1>11. CASE RebuildFails
  <2>1. chain' \in Shapes /\ allow' \in Sets /\ sig' \in Shapes
    BY <1>5, <1>11, ShapeType DEF RebuildFails, TypeOK, Wanted, Sync
  <2> QED
    BY <1>f, <1>11, <2>1, FailingType DEF RebuildFails, TypeOK
<1>12. CASE ElementsFail
  BY <1>f, <1>7, <1>12, FailingType DEF ElementsFail, TypeOK
<1>13. CASE Crash
  BY <1>f, <1>13, Constants DEF Crash, TypeOK, Tags
<1>14. CASE Tamper
  <2>1. PICK r \in Rules, set \in SUBSET IPs :
           /\ allow' = [allow EXCEPT ![r] = set]
           /\ chain' \in {chain, [chain EXCEPT ![r] = "none"]}
    BY <1>14 DEF Tamper
  <2>2. allow' \in Sets /\ chain' \in Shapes
    BY <2>1 DEF TypeOK, Sets, Shapes
  <2> QED
    BY <1>f, <1>14, <2>2 DEF Tamper, TypeOK, Tags
<1>15. CASE UNCHANGED vars
  BY <1>15 DEF vars, TypeOK
<1> QED
  BY <1>1, <1>2, <1>3, <1>4, <1>6, <1>8, <1>9, <1>10, <1>11, <1>12, <1>13, <1>14, <1>15
     DEF Next, Progress, Failure

-----------------------------------------------------------------------------
(* Every step keeps the invariant.                                         *)

\* Whoever fails has nothing left to promise but the types.
LEMMA FailureInv ==
    ASSUME IInv, TypeOK', Failing, db' = db
    PROVE  IInv'
<1>1. sync'.pc \in {"idle", "begin"} /\ "failed" \in suspect'
  BY FailingType DEF IInv
<1> QED
  BY <1>1 DEF IInv, Forgotten, ReadTrue, Built, Applied, AtRest, Replaying

LEMMA BeginInv == ASSUME IInv, TypeOK', BeginRound \/ BeginCall PROVE IInv'
<1>1. PICK kind, rules : Begin(kind, rules)
  BY DEF BeginRound, BeginCall
<1>2. sync.pc = "idle" /\ sync'.pc = "begin" /\ UNCHANGED <<db, chain, allow, slots, suspect>>
  BY <1>1 DEF Begin, kernel, memory, NoSync
<1> QED
  BY <1>2 DEF IInv, Forgotten, ReadTrue, Built, Applied, AtRest, Replaying, ForceOf

LEMMA AdmitInv == ASSUME IInv, TypeOK', Admit PROVE IInv'
<1>1. PICK usable \in BOOLEAN, seen \in Sets :
         /\ slots' \in {new \in Sets : \A r \in Rules : new[r] \in Outcomes(r, usable, seen)}
         /\ sync' = [sync EXCEPT !.pc = "struct", !.usable = usable,
                                 !.curChain = chain, !.curAllow = allow]
  BY DEF Admit
<1>2. /\ sync.pc = "begin" /\ UNCHANGED <<db, chain, allow>>
      /\ suspect' = IF "tamper" \in suspect THEN (suspect \ {"tamper"}) \cup {"read"} ELSE suspect
  BY DEF Admit, kernel
<1>3. sync'.pc = "struct" /\ sync'.rules = sync.rules /\ sync'.usable = usable
      /\ sync'.curChain = chain /\ sync'.curAllow = allow
  BY <1>1 DEF IInv, TypeOK, Sync
<1>4. \A r \in Rules : slots'[r] \in Outcomes(r, usable, seen)
  BY <1>1
<1>5. Forgotten'
  BY <1>3, <1>4 DEF Forgotten, Outcomes
<1>6. Replaying'
  <2> SUFFICES ASSUME suspect' = {}, NEW r \in Rules, Frozen(r)'
               PROVE  allow'[r] = slots'[r]
    BY DEF Replaying
  <2>1. suspect = {} /\ ForceOf(db)
    BY <1>2 DEF IInv, AtRest
  <2>2. ~usable /\ r \in LimitedBy(db) /\ r \in LimitedBy(sync.rules)
    BY <1>2, <1>3 DEF Frozen, LimitedBy
  <2>3. sync.rules[r].on
    BY <2>2 DEF LimitedBy, Shape
  <2>4. slots'[r] = slots[r]
    BY <1>4, <2>2, <2>3 DEF Outcomes, Replayed
  <2> QED
    BY <1>2, <2>1, <2>2, <2>4 DEF ForceOf
<1> QED
  BY <1>2, <1>3, <1>5, <1>6 DEF IInv, ReadTrue, Built, Applied, AtRest

LEMMA StructInv == ASSUME IInv, TypeOK', SkipStruct \/ Rebuild PROVE IInv'
<1>0. TypeOK /\ sync.pc = "struct" /\ UNCHANGED <<db, slots, suspect>>
  BY DEF IInv, SkipStruct, Rebuild, kernel, memory
<1>1. sync'.pc = "elems" /\ sync'.rules = sync.rules /\ sync'.usable = sync.usable
  BY <1>0 DEF SkipStruct, Rebuild, TypeOK, Sync
<1>2. Wanted' = Wanted
  BY <1>1 DEF Wanted
<1>3. CASE SkipStruct
  <2>1. sync'.curChain = sync.curChain /\ sync'.curAllow = sync.curAllow /\ UNCHANGED <<chain, allow>>
    BY <1>0, <1>3 DEF SkipStruct, TypeOK, Sync, kernel
  <2>2. sync.curChain = Wanted
    BY <1>3 DEF SkipStruct, NeedsRebuild, Drifted
  <2>3. \A r \in Rules : Frozen(r)' => Frozen(r)
    BY <1>0, <1>1 DEF Frozen, LimitedBy
  <2> QED
    BY <1>0, <1>1, <1>2, <2>1, <2>2, <2>3
       DEF IInv, Forgotten, ReadTrue, Built, Applied, AtRest, Replaying, Untouched
<1>4. CASE Rebuild
  <2>1. chain' = Wanted /\ allow' = RebuiltSets
        /\ sync'.curChain = chain' /\ sync'.curAllow = allow'
    BY <1>0, <1>4 DEF Rebuild, TypeOK, Sync
  <2>2. Replaying'
    <3> SUFFICES ASSUME suspect' = {}, NEW r \in Rules, Frozen(r)'
                 PROVE  allow'[r] = slots'[r]
      BY DEF Replaying
    <3>1. Frozen(r) /\ r \in LimitedBy(sync.rules)
      BY <1>0, <1>1 DEF Frozen, LimitedBy
    <3>2. allow'[r] = allow[r]
      BY <2>1, <3>1 DEF RebuiltSets
    <3> QED
      BY <1>0, <3>1, <3>2 DEF IInv, Replaying
  <2> QED
    BY <1>0, <1>1, <1>2, <2>1, <2>2 DEF IInv, Forgotten, ReadTrue, Built, Applied, AtRest
<1> QED
  BY <1>3, <1>4

\* The batch makes every limited set equal to the slots, as long as the state
\* it was computed from is the kernel's.
LEMMA SyncedEqual ==
    ASSUME TypeOK, sync.curAllow = allow, NEW r \in LimitedBy(sync.rules)
    PROVE  Synced[r] = slots[r]
<1>1. r \in Rules
  BY DEF LimitedBy
<1>2. CASE r \in Touched
  BY <1>1, <1>2 DEF Synced, Surplus, Lacking, TypeOK, Sets
<1>3. CASE r \notin Touched
  BY <1>1, <1>3 DEF Synced, Touched, Surplus, Lacking, TypeOK, Sets
<1> QED
  BY <1>2, <1>3

\* A batch that went through in a sync nobody meddled with puts its rules in force.
LEMMA ElementsForce ==
    ASSUME IInv, Elements, Untouched'
    PROVE  /\ chain' = Structure(sync.rules)
           /\ \A r \in LimitedBy(sync.rules) : allow'[r] = slots'[r]
           /\ \A r \in Rules : ~sync.rules[r].on => slots'[r] = {}
<1>1. TypeOK /\ sync.pc = "elems" /\ allow' = Synced /\ UNCHANGED <<chain, slots>> /\ Untouched
  BY DEF IInv, Elements, memory, Untouched
<1>2. chain = Wanted /\ sync.curAllow = allow
  BY <1>1 DEF IInv, Built, ReadTrue
<1>3. \A r \in LimitedBy(sync.rules) : allow'[r] = slots'[r]
  BY <1>1, <1>2, SyncedEqual
<1>4. \A r \in Rules : ~sync.rules[r].on => slots'[r] = {}
  BY <1>1 DEF IInv, Forgotten
<1> QED
  BY <1>1, <1>2, <1>3, <1>4 DEF Wanted

LEMMA ElementsInv == ASSUME IInv, TypeOK', Elements PROVE IInv'
<1>1. TypeOK /\ sync.pc = "elems" /\ UNCHANGED <<db, slots>> /\ suspect' = suspect \cap {"tamper"}
  BY DEF IInv, Elements, memory
<1>2. CASE sync.kind = "call"
  <2>1. sync'.pc = "commit" /\ sync'.rules = sync.rules
    BY <1>1, <1>2 DEF Elements, TypeOK, Sync
  <2>2. Applied'
    BY <2>1, ElementsForce DEF Applied, ForceOf, LimitedBy
  <2>3. Forgotten'
    BY <1>1, <2>1 DEF IInv, Forgotten
  <2> QED
    BY <2>1, <2>2, <2>3 DEF IInv, ReadTrue, Built, AtRest, Replaying
<1>3. CASE sync.kind # "call"
  <2>1. sync'.pc = "idle" /\ sync.rules = db
    BY <1>1, <1>3, Constants DEF Elements, TypeOK
  <2>2. AtRest'
    <3> SUFFICES ASSUME suspect' = {} PROVE ForceOf(db)'
      BY DEF AtRest
    <3>1. Untouched'
      BY DEF Untouched
    <3> QED
      BY <1>1, <2>1, <3>1, ElementsForce DEF ForceOf, LimitedBy
  <2> QED
    BY <2>1, <2>2 DEF IInv, Forgotten, ReadTrue, Built, Applied, Replaying
<1> QED
  BY <1>2, <1>3

LEMMA CommitInv == ASSUME IInv, TypeOK', Commit PROVE IInv'
<1>1. sync.pc = "commit" /\ sync'.pc = "idle" /\ db' = sync.rules
      /\ UNCHANGED <<chain, allow, slots, suspect>>
  BY Constants DEF Commit, kernel, memory
<1>2. AtRest'
  BY <1>1 DEF IInv, Applied, AtRest, Untouched, ForceOf, LimitedBy
<1> QED
  BY <1>1, <1>2 DEF IInv, Forgotten, ReadTrue, Built, Applied, Replaying

LEMMA FailInv ==
    ASSUME IInv, TypeOK', Failure \/ ElementsStale
    PROVE  IInv'
<1>1. Failing /\ db' = db
  BY DEF Failure, ReadFails, RebuildFails, ElementsFail, CommitFails, ElementsStale
<1> QED
  BY <1>1, FailureInv

LEMMA EnvironmentInv == ASSUME IInv, TypeOK', Crash \/ Tamper PROVE IInv'
<1>1. CASE Crash
  <2>1. sync'.pc = "idle" /\ "crash" \in suspect'
    BY <1>1, Constants DEF Crash
  <2> QED
    BY <2>1 DEF IInv, Forgotten, ReadTrue, Built, Applied, AtRest, Replaying
<1>2. CASE Tamper
  <2>1. "tamper" \in suspect' /\ UNCHANGED <<slots, sync>>
    BY <1>2 DEF Tamper, memory
  <2> QED
    BY <2>1 DEF IInv, Forgotten, ReadTrue, Built, Applied, AtRest, Replaying, Untouched
<1> QED
  BY <1>1, <1>2

LEMMA NextInv == IInv /\ [Next]_vars => IInv'
<1> SUFFICES ASSUME IInv, [Next]_vars PROVE IInv'
  OBVIOUS
<1>1. TypeOK'
  BY NextType DEF IInv
<1>2. CASE Next
  BY <1>1, <1>2, BeginInv, AdmitInv, StructInv, ElementsInv, CommitInv, FailInv, EnvironmentInv
     DEF Next, Progress
<1>3. CASE UNCHANGED vars
  BY <1>1, <1>3 DEF vars, kernel, memory, IInv, Forgotten, ReadTrue, Built, Applied, AtRest,
     Replaying, Untouched, ForceOf, Frozen, Wanted
<1> QED
  BY <1>2, <1>3

LEMMA Invariance == Spec => []IInv
  BY InitInv, NextInv, PTL DEF Spec

-----------------------------------------------------------------------------
(* The theorems.                                                           *)

\* Every variable keeps its type, and a round or a rollback in progress works
\* with the rules of the table.
THEOREM TypeCorrect == Spec => []TypeOK
<1>1. IInv => TypeOK
  BY DEF IInv
<1> QED
  BY <1>1, Invariance, PTL

\* Between syncs that went well, the kernel enforces exactly the table's rules
\* and the slots in memory (sync and applyNFT of policy, apply of rulesvc).
THEOREM LimitsEnforced == Spec => []LimitsInForce
<1>1. IInv => LimitsInForce
  BY DEF IInv, AtRest, ForceOf, LimitsInForce, InForce
<1> QED
  BY <1>1, Invariance, PTL

\* No step of a sync takes the element of an address that holds a slot out of
\* the set of a rule that stays limited: genFilterStruct keeps elements, and
\* AllowDiff deletes only addresses without a slot.
THEOREM HoldersSafe == Spec => HoldersStay
<1> DEFINE Kept == faults' = faults =>
               \A r \in Rules : StaysLimited(r) => allow[r] \cap slots'[r] \subseteq allow'[r]
<1>1. TypeOK /\ [Next]_vars => [Kept]_vars
  <2> SUFFICES ASSUME TypeOK, Next, faults' = faults, NEW r \in Rules, StaysLimited(r)
               PROVE  allow[r] \cap slots'[r] \subseteq allow'[r]
    BY DEF Kept
  <2>1. ~Fault
    BY DEF Fault, TypeOK
  <2>2. CASE Rebuild
    <3>1. chain'[r] = "limited" /\ chain' = Structure(sync.rules)
      BY <2>2 DEF StaysLimited, Rebuild, Wanted
    <3>2. r \in LimitedBy(sync.rules)
      BY <3>1, LimitedShape DEF TypeOK, Sync
    <3> QED
      BY <2>2, <3>2 DEF Rebuild, RebuiltSets
  <2>3. CASE Elements
    BY <2>3 DEF Elements, Synced, Surplus, memory
  <2>4. CASE BeginRound \/ BeginCall \/ Admit \/ SkipStruct \/ ElementsStale \/ Commit
    BY <2>4 DEF BeginRound, BeginCall, Begin, Admit, SkipStruct, ElementsStale, Commit, kernel
  <2> QED
    BY <2>1, <2>2, <2>3, <2>4 DEF Next, Progress, Failure, ReadFails, RebuildFails,
       ElementsFail, CommitFails, Crash, Tamper
<1> QED
  BY <1>1, TypeCorrect, PTL DEF Spec, HoldersStay, Kept

\* While conntrack cannot be used, a sync that starts from a consistent state
\* leaves the elements of a rule that stays limited exactly as they are: the
\* replayed slots are what the kernel holds.
THEOREM FreezeHolds == Spec => FrozenKept
<1> DEFINE Kept == suspect = {} /\ faults' = faults =>
               \A r \in Rules : Frozen(r) => allow'[r] = allow[r]
<1>1. IInv /\ [Next]_vars => [Kept]_vars
  <2> SUFFICES ASSUME IInv, Next, suspect = {}, faults' = faults, NEW r \in Rules, Frozen(r)
               PROVE  allow'[r] = allow[r]
    BY DEF Kept
  <2>1. TypeOK /\ ~Fault /\ Untouched
    BY DEF Fault, TypeOK, IInv, Untouched
  <2>2. CASE Rebuild
    BY <2>2 DEF Rebuild, RebuiltSets, Frozen
  <2>3. CASE Elements
    <3>1. sync.curAllow = allow /\ allow[r] = slots[r] /\ r \in LimitedBy(sync.rules)
      BY <2>1, <2>3 DEF Elements, IInv, ReadTrue, Replaying, Frozen
    <3>2. Synced[r] = slots[r]
      BY <2>1, <3>1, SyncedEqual
    <3> QED
      BY <2>3, <3>1, <3>2 DEF Elements
  <2>4. CASE BeginRound \/ BeginCall \/ Admit \/ SkipStruct \/ ElementsStale \/ Commit
    BY <2>4 DEF BeginRound, BeginCall, Begin, Admit, SkipStruct, ElementsStale, Commit, kernel
  <2> QED
    BY <2>1, <2>2, <2>3, <2>4 DEF Next, Progress, Failure, ReadFails, RebuildFails,
       ElementsFail, CommitFails, Crash, Tamper
<1> QED
  BY <1>1, Invariance, PTL DEF Spec, FrozenKept, Kept

-----------------------------------------------------------------------------
(* How many get in.  Admission bounds the slots by the limit or by the slots *)
(* there were; from rest those are the elements of the kernel's set, and a   *)
(* rebuild keeps them, so the same bound reaches the kernel.                 *)

\* The rules a sync finds limited and leaves limited.
Staying == LimitedBy(db) \cap LimitedBy(sync.rules)
\* So many addresses are within the limit applied, or no more than pass now.
NoMore(n, r) == n <= sync.rules[r].max \/ n <= Cardinality(allow[r])
Bounded ==
    sync.pc \in {"struct", "elems"} /\ suspect = {} =>
      \A r \in Staying : NoMore(Cardinality(slots[r]), r)

LEMMA InitBounded == Init => Bounded
  BY Constants DEF Init, Bounded

LEMMA NextBounded == ASSUME IInv, Bounded, [Next]_vars PROVE Bounded'
<1>0. TypeOK /\ TypeOK'
  BY NextType DEF IInv
<1>1. CASE Admit
  <2>1. PICK usable \in BOOLEAN, seen \in Sets :
           /\ \A r \in Rules : slots'[r] \in Outcomes(r, usable, seen)
           /\ sync' = [sync EXCEPT !.pc = "struct", !.usable = usable,
                                   !.curChain = chain, !.curAllow = allow]
    BY <1>1 DEF Admit
  <2>2. /\ sync.pc = "begin" /\ UNCHANGED <<db, chain, allow>>
        /\ sync'.rules = sync.rules /\ (suspect' = {} => suspect = {})
    BY <1>0, <1>1, <2>1 DEF Admit, kernel, TypeOK, Sync
  <2> SUFFICES ASSUME suspect' = {}, NEW r \in Staying'
               PROVE  NoMore(Cardinality(slots[r]), r)'
    BY DEF Bounded
  <2>3. r \in LimitedBy(db) /\ r \in LimitedBy(sync.rules) /\ r \in Rules
    BY <2>2 DEF Staying, LimitedBy
  <2>4. sync.rules[r].on /\ sync.rules[r].max # 0
    BY <2>3 DEF LimitedBy, Shape
  <2>5. allow[r] = slots[r]
    BY <2>2, <2>3 DEF IInv, AtRest, ForceOf
  <2>6. \/ slots'[r] = slots[r]
        \/ slots'[r] \in Admitted(slots[r], seen[r], sync.rules[r].max)
    BY <2>1, <2>3, <2>4 DEF Outcomes, Replayed
  <2>7. \/ slots'[r] = slots[r]
        \/ Cardinality(slots'[r]) <= sync.rules[r].max
        \/ Cardinality(slots'[r]) <= Cardinality(slots[r])
    BY <2>4, <2>6 DEF Admitted, Fits
  <2>8. Cardinality(slots[r]) \in Nat
    BY <1>0, <2>3, FiniteAssumption, FS_Subset, FS_CardinalityType DEF TypeOK, Sets
  <2> QED
    BY <2>2, <2>5, <2>7, <2>8 DEF NoMore
<1>2. CASE SkipStruct \/ Rebuild
  <2>1. /\ sync.pc = "struct" /\ UNCHANGED <<db, slots, suspect>>
        /\ sync'.rules = sync.rules
        /\ (allow' = allow \/ allow' = RebuiltSets)
    BY <1>0, <1>2 DEF SkipStruct, Rebuild, TypeOK, Sync, kernel, memory
  <2> SUFFICES ASSUME suspect = {}, NEW r \in Staying'
               PROVE  NoMore(Cardinality(slots[r]), r)'
    BY <2>1 DEF Bounded
  <2>2. r \in Staying /\ r \in LimitedBy(sync.rules) /\ r \in Rules
    BY <2>1 DEF Staying, LimitedBy
  <2>3. allow'[r] = allow[r]
    BY <2>1, <2>2 DEF RebuiltSets
  <2>4. NoMore(Cardinality(slots[r]), r)
    BY <2>1, <2>2 DEF Bounded
  <2> QED
    BY <2>1, <2>3, <2>4 DEF NoMore
<1>3. CASE BeginRound \/ BeginCall \/ Elements \/ Commit
  <2>1. sync'.pc \notin {"struct", "elems"}
    BY <1>0, <1>3, Constants DEF BeginRound, BeginCall, Begin, Elements, Commit, NoSync, TypeOK, Sync
  <2> QED
    BY <2>1 DEF Bounded
<1>4. CASE Failure \/ ElementsStale
  <2>1. Failing /\ db' = db
    BY <1>4 DEF Failure, ReadFails, RebuildFails, ElementsFail, CommitFails, ElementsStale
  <2> QED
    BY <1>0, <2>1, FailingType DEF Bounded
<1>5. CASE Crash \/ Tamper
  BY <1>5 DEF Crash, Tamper, Bounded
<1>6. CASE UNCHANGED vars
  BY <1>6 DEF vars, kernel, memory, Bounded, Staying, NoMore
<1> QED
  BY <1>1, <1>2, <1>3, <1>4, <1>5, <1>6 DEF Next, Progress

\* A step of a sync, the call's own included, leaves no more addresses passing on
\* a rule that was and stays limited than the limit it applies allows, or than
\* passed before it: a lowered limit evicts no one, and lets no one in either.
NeverCrowds ==
    [][suspect = {} /\ faults' = faults =>
         \A r \in Staying : NoMore(Cardinality(allow'[r]), r)]_vars

\* The promise of one round of admission (SlotContract) holds of the elements in
\* the kernel too, through both batches.  After a failed call it does not: the
\* slots that the call handed out under a higher limit stay in memory, and its
\* rollback puts them into the kernel.
THEOREM KernelFits == Spec => NeverCrowds
<1> DEFINE Kept == suspect = {} /\ faults' = faults =>
               \A r \in Staying : NoMore(Cardinality(allow'[r]), r)
<1>1. IInv /\ Bounded /\ [Next]_vars => [Kept]_vars
  <2> SUFFICES ASSUME IInv, Bounded, Next, suspect = {}, faults' = faults, NEW r \in Staying
               PROVE  NoMore(Cardinality(allow'[r]), r)
    BY DEF Kept
  <2>1. TypeOK /\ ~Fault /\ Untouched /\ r \in LimitedBy(sync.rules) /\ r \in Rules
    BY DEF Fault, TypeOK, IInv, Untouched, Staying, LimitedBy
  <2>2. CASE allow'[r] = allow[r]
    <3>1. Cardinality(allow[r]) \in Nat
      BY <2>1, FiniteAssumption, FS_Subset, FS_CardinalityType DEF TypeOK, Sets
    <3> QED
      BY <2>2, <3>1 DEF NoMore
  <2>3. CASE Rebuild
    BY <2>1, <2>2, <2>3 DEF Rebuild, RebuiltSets
  <2>4. CASE Elements
    <3>1. sync.pc = "elems" /\ sync.curAllow = allow
      BY <2>1, <2>4 DEF Elements, IInv, ReadTrue
    <3>2. allow'[r] = slots[r]
      BY <2>1, <2>4, <3>1, SyncedEqual DEF Elements
    <3> QED
      BY <3>1, <3>2 DEF Bounded
  <2>5. CASE BeginRound \/ BeginCall \/ Admit \/ SkipStruct \/ ElementsStale \/ Commit
    BY <2>2, <2>5 DEF BeginRound, BeginCall, Begin, Admit, SkipStruct, ElementsStale, Commit, kernel
  <2> QED
    BY <2>1, <2>3, <2>4, <2>5 DEF Next, Progress, Failure, ReadFails, RebuildFails,
       ElementsFail, CommitFails, Crash, Tamper
<1> QED
  BY <1>1, InitBounded, NextBounded, Invariance, PTL DEF Spec, NeverCrowds, Kept
=============================================================================
