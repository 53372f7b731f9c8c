------------------------------- MODULE IPSlot --------------------------------
(***************************************************************************)
(* Admission of client IPs to one rule: NodeIPState.Reconcile of            *)
(* internal/policy/ipslot.go, run by each policy sync that has a usable     *)
(* conntrack listing.  A slot puts its IP in the rule's nft allow set.       *)
(* A listing gives the IPs with a live established flow (active) and those  *)
(* that have only sent a SYN (candidates).                                  *)
(*                                                                         *)
(* One call is Start, one Admit for each IP in the order the code sorts     *)
(* them, and Finish; nothing else runs in between.  A round with an         *)
(* unusable listing changes nothing here: time passes without a round.      *)
(***************************************************************************)
EXTENDS Integers, FiniteSets

CONSTANTS
    IPs,        \* client addresses, compared as the code compares strings
    Limits,     \* values the rule's IP limit may take, 0 for no limit
    ProvTTL,    \* provisionalTTL
    RejTTL,     \* rejectedTTL
    Idle,       \* ipIdle: observation window of an IP without UDP sessions
    UdpIdle,    \* udpIdle: the longer one of an IP with UDP sessions
    MaxNow      \* bound: clock readings

ASSUME IPAssumption == IPs \subseteq Nat /\ IsFiniteSet(IPs)
ASSUME LimitAssumption == Limits \subseteq Nat /\ Limits # {}
ASSUME TimeAssumption ==
    ProvTTL \in Nat /\ RejTTL \in Nat /\ Idle \in Nat /\ UdpIdle \in Nat /\ MaxNow \in Nat

VARIABLES
    granted,    \* Slots: the IPs that hold one
    prov,       \* those whose slot is provisional
    candAt,     \* CandidateAt of a provisional slot
    rejected,   \* Rejected: when an IP was last turned away, or Never
    observed,   \* Observed: the IPs in memory
    firstSeen, lastSeen,   \* their FirstSeen and LastSeen
    limit,      \* maxIPs of the latest round
    round,      \* the round in progress, or the latest one
    now         \* environment: the clock

slots == <<granted, prov, candAt>>
seen == <<observed, firstSeen, lastSeen>>
vars == <<slots, rejected, seen, limit, round, now>>

Never == -1
\* left: the IPs still to be admitted; rank: their sort keys, fixed before the
\* first is; before: history, the holders when the round began.
Round == [pc : {"idle", "admit"}, active : SUBSET IPs, cand : SUBSET IPs,
          released : SUBSET IPs, left : SUBSET IPs, rank : [IPs -> 0 .. 3],
          before : SUBSET IPs]

TypeOK ==
    /\ granted \subseteq IPs /\ prov \subseteq granted /\ observed \subseteq IPs
    /\ candAt \in [IPs -> Nat] /\ rejected \in [IPs -> Nat \cup {Never}]
    /\ firstSeen \in [IPs -> Nat] /\ lastSeen \in [IPs -> Nat]
    /\ limit \in Limits /\ now \in Nat
    /\ round \in Round

NoTimes == [ip \in IPs |-> 0]
NoRound == [pc |-> "idle", active |-> {}, cand |-> {}, released |-> {}, left |-> {},
            rank |-> NoTimes, before |-> {}]
Init ==
    /\ granted = {} /\ prov = {} /\ candAt = NoTimes
    /\ rejected = [ip \in IPs |-> Never]
    /\ observed = {} /\ firstSeen = NoTimes /\ lastSeen = NoTimes
    /\ limit \in Limits /\ round = NoRound /\ now = 0

-----------------------------------------------------------------------------
(* The start of a round: observe, expire rejections, release, rank.         *)

\* A slot is released when its IP has neither flow nor SYN in the listing, or
\* when it has been provisional for too long.
ReleasedUnseen(A, C) == granted \ (A \cup C)
ReleasedStale(A, C) == {ip \in prov : now - candAt[ip] > ProvTTL}
Released(A, C) == (granted \ (A \cup C)) \cup {ip \in prov : now - candAt[ip] > ProvTTL}

\* Established holders, established IPs, provisional holders, other candidates.
Rank(ip, A, kept, keptProv) ==
    IF ip \in A THEN IF ip \in kept \ keptProv THEN 0 ELSE 1
    ELSE IF ip \in keptProv THEN 2 ELSE 3

\* What f says of the members of S; the rest has no entry.
Only(S, f) == [ip \in IPs |-> IF ip \in S THEN f[ip] ELSE 0]

Idling == round.pc = "idle"

Start(A, C, max) ==
    /\ Idling
    /\ limit' = max
    /\ observed' = observed \cup A \cup C
    /\ firstSeen' = [ip \in IPs |-> IF ip \in (A \cup C) \ observed THEN now ELSE firstSeen[ip]]
    /\ lastSeen' = [ip \in IPs |-> IF ip \in A \cup C THEN now ELSE lastSeen[ip]]
    /\ rejected' = [ip \in IPs |-> IF now - rejected[ip] > RejTTL THEN Never ELSE rejected[ip]]
    /\ LET out == Released(A, C)
       IN /\ granted' = granted \ out /\ prov' = prov \ out /\ candAt' = Only(prov \ out, candAt)
          /\ round' = [pc |-> "admit", active |-> A, cand |-> C \ A, released |-> out,
                       left |-> (A \cup C) \ out,
                       rank |-> [ip \in IPs |-> Rank(ip, A, granted \ out, prov \ out)],
                       before |-> granted]
    /\ UNCHANGED now

-----------------------------------------------------------------------------
(* Admission of the next IP.                                               *)

\* Sort order: rank, then FirstSeen, then the address.
Precedes(a, b) ==
    \/ round.rank[a] < round.rank[b]
    \/ /\ round.rank[a] = round.rank[b]
       /\ \/ firstSeen[a] < firstSeen[b]
          \/ firstSeen[a] = firstSeen[b] /\ a < b
Turn(ip) == ip \in round.left /\ \A other \in round.left \ {ip} : Precedes(ip, other)
Done(ip) == round' = [round EXCEPT !.left = @ \ {ip}]

HasRoom == limit = 0 \/ Cardinality(granted) < limit

\* oldestProvisional
OldestAny(v) == v \in granted /\ \A o \in granted \ {v} : candAt[v] <= candAt[o]
Oldest(v) ==
    /\ v \in prov
    /\ \A o \in prov \ {v} : candAt[v] < candAt[o] \/ (candAt[v] = candAt[o] /\ v < o)

\* A holder keeps its slot, for good once it is established.
Settled(ip) == IF ip \in round.active THEN prov \ {ip} ELSE prov
Keep(ip) ==
    /\ Turn(ip) /\ ip \in granted
    /\ prov' = Settled(ip) /\ candAt' = Only(Settled(ip), candAt)
    /\ Done(ip) /\ UNCHANGED <<granted, rejected, seen, limit, now>>

\* A slot for an established IP is a formal one, for a candidate a provisional one.
GiveUntimed(ip) ==
    IF ip \in round.active
    THEN UNCHANGED <<prov, candAt>>
    ELSE prov' = prov \cup {ip} /\ candAt' = [candAt EXCEPT ![ip] = Never]
Give(ip) ==
    IF ip \in round.active
    THEN UNCHANGED <<prov, candAt>>
    ELSE prov' = prov \cup {ip} /\ candAt' = [candAt EXCEPT ![ip] = now]

Grant(ip) ==
    /\ Turn(ip) /\ ip \notin granted /\ HasRoom
    /\ granted' = granted \cup {ip} /\ Give(ip)
    /\ Done(ip) /\ UNCHANGED <<rejected, seen, limit, now>>

\* The limit is reached: an established IP takes the slot that has been
\* provisional for longest, if there is one; any other IP is rejected.
MayPreemptNever(ip) == FALSE
MayPreempt(ip) == ip \in round.active /\ prov # {}

Preempt(ip, victim) ==
    /\ Turn(ip) /\ ip \notin granted /\ ~HasRoom /\ MayPreempt(ip) /\ Oldest(victim)
    /\ granted' = (granted \ {victim}) \cup {ip}
    /\ prov' = prov \ {victim} /\ candAt' = Only(prov \ {victim}, candAt)
    /\ rejected' = [rejected EXCEPT ![victim] = now]
    /\ Done(ip) /\ UNCHANGED <<seen, limit, now>>

Reject(ip) ==
    /\ Turn(ip) /\ ip \notin granted /\ ~HasRoom /\ ~MayPreempt(ip)
    /\ rejected' = [rejected EXCEPT ![ip] = now]
    /\ Done(ip) /\ UNCHANGED <<slots, seen, limit, now>>

-----------------------------------------------------------------------------
\* Observed GC: forget who holds no slot, is not rejected and has been quiet
\* for its window, which depends on whether its last sessions were UDP.
Quiet(window) == {ip \in observed \ granted : rejected[ip] = Never /\ now - lastSeen[ip] > window}
Finish ==
    /\ round.pc = "admit" /\ round.left = {}
    /\ \E udp \in SUBSET Quiet(Idle) :
         observed' = observed \ ((Quiet(Idle) \ udp) \cup (udp \cap Quiet(UdpIdle)))
    /\ firstSeen' = Only(observed', firstSeen) /\ lastSeen' = Only(observed', lastSeen)
    /\ round' = [NoRound EXCEPT !.active = round.active, !.released = round.released]
    /\ UNCHANGED <<slots, rejected, limit, now>>

\* The rule is disabled, deleted or the process restarts: ipStates forgets it.
Forget ==
    /\ Idling
    /\ granted' = {} /\ prov' = {} /\ candAt' = NoTimes /\ rejected' = [ip \in IPs |-> Never]
    /\ observed' = {} /\ firstSeen' = NoTimes /\ lastSeen' = NoTimes
    /\ round' = NoRound
    /\ UNCHANGED <<limit, now>>

\* Time passes between rounds; a round reads the clock once.
Tick == /\ Idling /\ now < MaxNow /\ now' = now + 1
        /\ UNCHANGED <<slots, rejected, seen, limit, round>>

Admit(ip) == Keep(ip) \/ Grant(ip) \/ (\E victim \in granted : Preempt(ip, victim)) \/ Reject(ip)

Next ==
    \/ \E A \in SUBSET IPs : \E C \in SUBSET IPs, max \in Limits : Start(A, C, max)
    \/ \E ip \in IPs : Admit(ip)
    \/ Finish \/ Forget \/ Tick

Spec == Init /\ [][Next]_vars

-----------------------------------------------------------------------------
(* Properties.                                                             *)

\* There are never more slots than the largest limit the rule has had allows; of
\* a limit that never changes, never more than that limit.
NoOversell == \E max \in Limits : max = 0 \/ Cardinality(granted) <= max

\* A limit lowered on a rule in use may leave it over-full, but no step of any
\* round adds to the excess.
NoWorse == limit' > 0 => \/ Cardinality(granted') <= limit'
                         \/ Cardinality(granted') <= Cardinality(granted)
NeverMoreOversold == [][NoWorse]_vars

\* A client with an established flow and a formal slot keeps it through the
\* round, whatever else the listing holds.
Kept ==
    \A ip \in granted \ prov :
      round'.pc = "admit" /\ ip \in round'.active => ip \in granted' \ prov'
EstablishedKept == [][Kept]_vars

\* SYN-only addresses never keep an established client out: at the end of a
\* round it has a slot, or has just lost one, or every slot is a formal one.
NoStarvation ==
    Idling => \A ip \in round.active \ (granted \cup round.released) :
                 prov = {} /\ limit > 0 /\ Cardinality(granted) >= limit

\* At the end of a round a provisional slot is one of an IP that has only sent
\* SYNs, and no older than its TTL when the round ran.
ProvisionalBounded ==
    round.pc = "admit" /\ round.left = {} =>
        prov \cap round.active = {} /\ \A ip \in prov : now - candAt[ip] <= ProvTTL

\* Whatever the order and the preemptions within it, a round as a whole keeps the
\* promise the sync relies on (service.go:454-476): the slots it leaves were all
\* listed and are within the limit, or no more than before.  A round counts for the
\* abstract specification when it finishes.
Listed == IF Idling THEN {} ELSE round.active \cup round.cand
Holders == IF Idling THEN granted ELSE round.before
Promise == INSTANCE Admission WITH slots <- Holders, listing <- Listed, max <- limit,
                                   deciding <- ~Idling
KeepsPromise == Promise!Spec

=============================================================================
