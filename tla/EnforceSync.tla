----------------------------- MODULE EnforceSync -----------------------------
(***************************************************************************)
(* The two layers of internal/policy sync and the elements of the nft       *)
(* allow sets: structure (chains and sets, one nft batch) and IP slots      *)
(* (set elements, a second batch), in periodic rounds and in the calls of   *)
(* rulesvc with their commit and rollback.                                  *)
(*                                                                         *)
(* Everything runs under runMu, so one sync is in progress at a time; what  *)
(* interleaves with its steps are conntrack, the kernel and crashes.  The   *)
(* admission of one round is any that Admitted allows; module IPSlot has    *)
(* the algorithm.  Quotas are in module Traffic.                            *)
(***************************************************************************)
EXTENDS SlotContract

CONSTANTS
    Rules,      \* rule IDs
    IPs,        \* client addresses
    Limits,     \* values an IP limit may take; 0: IPLimitEnabled is false
    MaxFaults   \* bound: failed calls, crashes and outside changes

ASSUME LimitAssumption == Limits \subseteq Nat /\ 0 \in Limits
ASSUME FiniteAssumption == IsFiniteSet(IPs) /\ MaxFaults \in Nat

VARIABLES
    db,        \* SQLite: is a rule enabled, and with which limit?
    chain,     \* kernel: what the forward chain does with a rule's packets
    allow,     \* kernel: elements of its allow set, {} when there is no set
    slots,     \* policy memory: Slots of ipStates, {} for a rule without
    sig,       \* policy memory: lastStructSig
    sync,      \* locals of the sync in progress
    suspect,   \* history: what has gone wrong since the last good sync
    faults     \* environment: injected failures so far

kernel == <<chain, allow>>
memory == <<slots, sig>>
vars == <<db, kernel, memory, sync, suspect, faults>>

Setting == [on : BOOLEAN, max : Limits]
Settings == [Rules -> Setting]
\* No rule of the chain; counters only; counters, and a drop of what is not in
\* the allow set.
Shapes == [Rules -> {"none", "open", "limited"}]
Sets == [Rules -> SUBSET IPs]
NoSets == [r \in Rules |-> {}]
NoChains == [r \in Rules |-> "none"]
NoRules == [r \in Rules |-> [on |-> FALSE, max |-> 0]]

\* kind: the periodic round, the apply of a call, or its rollback.  rules: the
\* set applied; curChain, curAllow: the state last read from nft.
Sync == [pc : {"idle", "begin", "struct", "elems", "commit"}, kind : {"round", "call", "undo"},
         rules : Settings, usable : BOOLEAN, curChain : Shapes, curAllow : Sets]
NoSync == [pc |-> "idle", kind |-> "round", rules |-> NoRules, usable |-> TRUE,
           curChain |-> NoChains, curAllow |-> NoSets]

\* "tamper": changed from outside; "read": changed from outside before the sync
\* in progress read the state; "failed": a sync failed; "crash": memory lost.
Tags == {"tamper", "read", "failed", "crash"}

TypeOK ==
    /\ db \in Settings /\ chain \in Shapes /\ allow \in Sets
    /\ slots \in Sets /\ sig \in Shapes /\ sync \in Sync
    /\ suspect \subseteq Tags /\ faults \in Nat
    /\ sync.pc # "idle" /\ sync.kind # "call" => sync.rules = db

\* StructSig, and what the structure script makes of a rule.
Shape(s) == IF ~s.on THEN "none" ELSE IF s.max = 0 THEN "open" ELSE "limited"
Structure(rules) == [r \in Rules |-> Shape(rules[r])]
LimitedBy(rules) == {r \in Rules : Shape(rules[r]) = "limited"}

Init ==
    /\ db = NoRules /\ chain = NoChains /\ allow = NoSets
    /\ slots = NoSets /\ sig = NoChains /\ sync = NoSync
    /\ suspect = {} /\ faults = 0

Fault == faults < MaxFaults /\ faults' = faults + 1

-----------------------------------------------------------------------------
(* A sync begins: a round over the table, or a call with one rule changed   *)
(* (created or enabled, disabled or deleted, its limit set).                *)

Begin(kind, rules) ==
    /\ sync.pc = "idle"
    /\ sync' = [NoSync EXCEPT !.pc = "begin", !.kind = kind, !.rules = rules]
    /\ UNCHANGED <<db, kernel, memory, suspect, faults>>
BeginRound == Begin("round", db)
BeginCall == \E r \in Rules, s \in Setting : Begin("call", [db EXCEPT ![r] = s])

\* What ends a failed sync: a call rolls back to the rules it read, which are
\* the table's still as it holds the locks; a round or a rollback is given up.
PreviousCandidate == sync.rules
Previous == db
Failing ==
    /\ sync' = IF sync.kind = "call"
               THEN [NoSync EXCEPT !.pc = "begin", !.kind = "undo", !.rules = Previous]
               ELSE NoSync
    /\ suspect' = suspect \cup {"failed"}

-----------------------------------------------------------------------------
(* Conntrack is read, then the nft state, then the slots of every enabled   *)
(* rule are updated, those of the others forgotten: all before the kernel    *)
(* has accepted anything.                                                   *)

\* A round over a listing that shows the addresses of seen has any outcome that
\* SlotContract allows; module IPSlot has the algorithm and shows that it does.
ReplayedNever(r) == {{}}
Replayed(r) == {slots[r]}
Outcomes(r, usable, seen) ==
    IF ~sync.rules[r].on THEN {{}}
    ELSE IF usable THEN Admitted(slots[r], seen[r], sync.rules[r].max)
    ELSE Replayed(r)

Admit ==
    /\ sync.pc = "begin"
    /\ \E usable \in BOOLEAN, seen \in Sets :
         /\ slots' \in {new \in Sets : \A r \in Rules : new[r] \in Outcomes(r, usable, seen)}
         /\ sync' = [sync EXCEPT !.pc = "struct", !.usable = usable,
                                 !.curChain = chain, !.curAllow = allow]
    /\ suspect' = IF "tamper" \in suspect THEN (suspect \ {"tamper"}) \cup {"read"} ELSE suspect
    /\ UNCHANGED <<db, kernel, sig, faults>>

\* Totals or the nft state cannot be read: nothing has changed.
ReadFails ==
    /\ sync.pc = "begin" /\ Fault
    /\ Failing /\ UNCHANGED <<db, kernel, memory>>

-----------------------------------------------------------------------------
(* applyNFT: the structure is rewritten when its signature has changed or   *)
(* the state read differs from it, and the state is read again.             *)

Wanted == Structure(sync.rules)
DriftedNever == FALSE
Drifted == sync.curChain # Wanted
NeedsRebuild == sig # Wanted \/ Drifted

\* A set of a limited rule is declared and keeps its elements; any other is deleted.
FlushedSets == NoSets
RebuiltSets == [r \in Rules |-> IF r \in LimitedBy(sync.rules) THEN allow[r] ELSE {}]

SkipStruct ==
    /\ sync.pc = "struct" /\ ~NeedsRebuild
    /\ sync' = [sync EXCEPT !.pc = "elems"]
    /\ UNCHANGED <<db, kernel, memory, suspect, faults>>

Rebuild ==
    /\ sync.pc = "struct" /\ NeedsRebuild
    /\ chain' = Wanted /\ allow' = RebuiltSets /\ sig' = Wanted
    /\ sync' = [sync EXCEPT !.pc = "elems", !.curChain = chain', !.curAllow = allow']
    /\ UNCHANGED <<db, slots, suspect, faults>>

\* nft -c or nft -f fails, nft is killed after the kernel took the batch, or the
\* state cannot be read again.
RebuildFails ==
    /\ sync.pc = "struct" /\ NeedsRebuild /\ Fault
    /\ \/ UNCHANGED <<kernel, sig>>
       \/ chain' = Wanted /\ allow' = RebuiltSets /\ sig' \in {sig, Wanted}
    /\ Failing /\ UNCHANGED <<db, slots>>

-----------------------------------------------------------------------------
(* The elements: one batch with what the state last read and the slots      *)
(* differ in.  It fails as a whole when an element to delete has gone from   *)
(* the kernel since, or the set has.                                        *)

SurplusNever(r) == {}
Surplus(r) == sync.curAllow[r] \ slots[r]
Lacking(r) == slots[r] \ sync.curAllow[r]
Touched == {r \in LimitedBy(sync.rules) : Surplus(r) # {} \/ Lacking(r) # {}}
Applicable == \A r \in Touched : Surplus(r) \subseteq allow[r]
SetsLeft == \A r \in Touched : chain[r] = "limited"
Synced == [r \in Rules |-> IF r \in Touched THEN (allow[r] \ Surplus(r)) \cup Lacking(r) ELSE allow[r]]

Elements ==
    /\ sync.pc = "elems" /\ Applicable
    /\ allow' = Synced
    /\ sync' = IF sync.kind = "call" THEN [sync EXCEPT !.pc = "commit"] ELSE NoSync
    /\ suspect' = suspect \cap {"tamper"}
    /\ UNCHANGED <<db, chain, memory, faults>>

ElementsStale ==
    /\ sync.pc = "elems" /\ ~(Applicable /\ SetsLeft)
    /\ Failing /\ UNCHANGED <<db, kernel, memory, faults>>

ElementsFail ==
    /\ sync.pc = "elems" /\ Applicable /\ Touched # {} /\ Fault
    /\ allow' \in {allow, Synced}
    /\ Failing /\ UNCHANGED <<db, chain, memory>>

-----------------------------------------------------------------------------
\* The call's row is written once the kernel holds it.
Commit ==
    /\ sync.pc = "commit"
    /\ db' = sync.rules /\ sync' = NoSync
    /\ UNCHANGED <<kernel, memory, suspect, faults>>
CommitFails ==
    /\ sync.pc = "commit" /\ Fault
    /\ Failing /\ UNCHANGED <<db, kernel, memory>>

(* The environment.                                                        *)

\* The process dies anywhere; a reboot also empties the kernel.
Crash ==
    /\ Fault
    /\ slots' = NoSets /\ sig' = NoChains /\ sync' = NoSync
    /\ \/ UNCHANGED kernel
       \/ chain' = NoChains /\ allow' = NoSets
    /\ suspect' = suspect \cup {"crash"} /\ UNCHANGED db

\* Someone else's nft command: a rule's part of the chain goes, and perhaps its
\* set with it, or the elements of the set change.
Tamper ==
    /\ Fault
    /\ \E r \in Rules, set \in SUBSET IPs :
         /\ allow' = [allow EXCEPT ![r] = set]
         /\ \/ chain[r] # "none" /\ set \in {{}, allow[r]} /\ chain' = [chain EXCEPT ![r] = "none"]
            \/ chain[r] = "limited" /\ UNCHANGED chain
    /\ suspect' = suspect \cup {"tamper"} /\ UNCHANGED <<db, memory, sync>>

-----------------------------------------------------------------------------
Progress == Admit \/ SkipStruct \/ Rebuild \/ Elements \/ ElementsStale \/ Commit
Failure == ReadFails \/ RebuildFails \/ ElementsFail \/ CommitFails

Next == BeginRound \/ BeginCall \/ Progress \/ Failure \/ Crash \/ Tamper
Spec == Init /\ [][Next]_vars

\* The 500 ms loop gets its turn at runMu, a FIFO mutex; a sync that has begun
\* runs to its end.
FairSpec == Spec /\ SF_vars(BeginRound) /\ WF_vars(Progress)

-----------------------------------------------------------------------------
(* Properties.                                                             *)

\* Between syncs, unless something has gone wrong since the last good one, the
\* kernel does what the table and the slots say: a limited rule admits its slots,
\* another one everyone, and a rule that is off has neither chain nor slots.
InForce ==
    /\ chain = Structure(db)
    /\ \A r \in LimitedBy(db) : allow[r] = slots[r]
    /\ \A r \in Rules : ~db[r].on => slots[r] = {}
LimitsInForce == sync.pc = "idle" /\ suspect = {} => InForce

\* No step of a sync takes an address that holds a slot out of the kernel's set:
\* neither rewriting the structure nor the batch of elements interrupts it.
StaysLimited(r) == chain[r] = "limited" /\ chain'[r] = "limited"
HoldersStay ==
    [][faults' = faults => \A r \in Rules : StaysLimited(r) => allow[r] \cap slots'[r] \subseteq allow'[r]]_vars

\* While conntrack cannot be used, a sync neither admits nor evicts anyone on a
\* rule that was and stays limited.
Frozen(r) == ~sync.usable /\ r \in LimitedBy(db) \cap LimitedBy(sync.rules)
FrozenKept ==
    [][suspect = {} /\ faults' = faults => \A r \in Rules : Frozen(r) => allow'[r] = allow[r]]_vars

\* Whatever sets kernel, slots and table apart (a failed call, a crash, another
\* program) is put right by the rounds.
Converges == ~InForce ~> InForce

-----------------------------------------------------------------------------
(* What a comment of ipslot.go says and the code does not do.                *)

\* ipslot.go:282: with conntrack unusable the last allow set is replayed, and no
\* client in use thrown out.  Failed calls are no exception to it.
FrozenNeverEvicts ==
    [][suspect \subseteq {"failed"} /\ faults' = faults =>
         \A r \in Rules : Frozen(r) => allow[r] \subseteq allow'[r]]_vars
=============================================================================
