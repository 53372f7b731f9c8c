-------------------------------- MODULE Flows --------------------------------
(***************************************************************************)
(* Who is online: conntrack's table, its reading by internal/connection and *)
(* the flow memory of internal/policy (touchFlow, gcFlows, the cached set of *)
(* the host's own addresses), from which every sync computes the addresses   *)
(* with an established flow (active) and with a handshake only (candidate).  *)
(*                                                                         *)
(* A sync is one step: all of this runs under runMu, on one reading of the   *)
(* table.  What admission makes of the addresses is in IPSlot, what nft gets *)
(* in EnforceSync.                                                          *)
(***************************************************************************)
EXTENDS Integers, FiniteSets

CONSTANTS
    Rules,      \* rule IDs
    Conns,      \* possible entries of the conntrack table to sockets of the rules
    Tuple,      \* entry -> its original tuple [proto, port, src, sport, dst]
    Listens,    \* rule -> the pairs <<proto, port>> it listens on
    Movable,    \* addresses the host may take and give up
    Idle,       \* ipIdle, in ticks
    UdpIdle,    \* udpIdle
    SelfTTL,    \* selfIPsTTL
    MaxBytes    \* bound: byte counts of a connection

ASSUME TupleAssumption ==
    \A f \in Conns : /\ DOMAIN Tuple[f] = {"proto", "port", "src", "sport", "dst"}
                     /\ Tuple[f].proto \in {"tcp", "udp"}
ASSUME BoundAssumption == {Idle, UdpIdle, SelfTTL, MaxBytes} \subseteq Nat
\* No two rules share a socket (PortsDisjoint of RuleSvc).
Socket(f) == <<Tuple[f].proto, Tuple[f].port>>
ASSUME SocketAssumption == \A f \in Conns : \E r \in Rules : \A s \in Rules : Socket(f) \in Listens[s] <=> s = r

VARIABLES
    conn,      \* kernel: the conntrack table
    locals,    \* kernel: addresses of the host's interfaces
    on,        \* SQLite: enabled rules
    flows,     \* policy memory: flows, a function on the keys it has
    self,      \* policy memory: selfIPs with the age of selfIPsAt
    active,    \* policy memory: addresses with a live flow, per rule
    fresh,     \* history: flows with news that no usable sync has been shown
    quiet,     \* history: ticks since a usable sync was shown news of a flow
    aliased,   \* history: flows under a key that memory knew before them
    tabled,    \* history: keys of the connections there were at the last usable sync
    must, may, \* history: who was online, surely and perhaps, at the last usable sync
    moved      \* history: ticks since the host's addresses changed or were not readable

kernel == <<conn, locals>>
memory == <<flows, self, active>>
history == <<fresh, quiet, aliased, tabled, must, may, moved>>
vars == <<kernel, on, memory, history>>

Proto(f) == Tuple[f].proto
Src(f) == Tuple[f].src
Addrs == {Src(f) : f \in Conns}
RuleOf == [f \in Conns |-> CHOOSE r \in Rules : Socket(f) \in Listens[r]]
Window == [f \in Conns |-> IF Proto(f) = "udp" THEN UdpIdle ELSE Idle]

\* Ages stop counting where no comparison can tell them apart any more.
Older(age, window) == IF age <= window THEN age + 1 ELSE age

\* flowKey: the destination address is not part of it.
Key == [f \in Conns |-> <<RuleOf[f], Proto(f), Src(f), Tuple[f].sport>>]
Keys == {Key[f] : f \in Conns}

\* "closing" stands for FIN_WAIT, TIME_WAIT and the like; a UDP entry is live
\* from its first packet on.
States == {"none", "syn", "live", "closing"}
Absent == [state |-> "none", bytes |-> 0]
NoAddrs == [r \in Rules |-> {}]

TypeOK ==
    /\ conn \in [Conns -> [state : States, bytes : 0..MaxBytes]]
    /\ locals \subseteq Movable /\ on \subseteq Rules
    /\ DOMAIN flows \subseteq Keys
    /\ \A k \in DOMAIN flows : flows[k] \in [bytes : 0..MaxBytes, age : Nat]
    /\ self \in [known : BOOLEAN, ips : SUBSET Movable, age : Nat]
    /\ {active, must, may} \subseteq [Rules -> SUBSET Addrs]
    /\ fresh \subseteq Conns /\ quiet \in [Conns -> Nat]
    /\ aliased \subseteq Conns /\ tabled \subseteq Keys /\ moved \in Nat

Init ==
    /\ conn = [f \in Conns |-> Absent] /\ locals = {} /\ on = Rules
    /\ flows = [k \in {} |-> 0]
    /\ self = [known |-> FALSE, ips |-> {}, age |-> 0]
    /\ active = NoAddrs
    /\ fresh = {} /\ quiet = [f \in Conns |-> 0] /\ aliased = {}
    /\ tabled = {} /\ must = NoAddrs /\ may = NoAddrs /\ moved = SelfTTL + 1

-----------------------------------------------------------------------------
(* Reading conntrack.                                                       *)

\* A reading: the file may be missing, the scan may break off, lines of other
\* protocols may be there, and one line may be damaged: too few fields, no valid
\* TCP state, no number where one belongs, or no address or port.
Damages == {"short", "state", "number", "missing"}
Readings ==
    [file : {"missing", "broken"}, others : {TRUE}, damaged : {{}}]
        \cup [file : {"whole"}, others : BOOLEAN, damaged : {{}} \cup {{<<f, d>>} : f \in Conns, d \in Damages}]
Entries == {f \in Conns : conn[f].state # "none"}

\* parseLine: a connection that is closing is dropped before its address and port
\* are missed.
Bad(rd) ==
    {f \in Entries :
        \/ {<<f, "short">>, <<f, "number">>} \cap rd.damaged # {}
        \/ <<f, "state">> \in rd.damaged /\ Proto(f) = "tcp"
        \/ <<f, "missing">> \in rd.damaged /\ conn[f].state # "closing"}
Kept(rd) == {f \in Entries \ Bad(rd) : conn[f].state \in {"syn", "live"}}

\* scanConntrack: no line at all means that the kernel does not track.
StatusIgnoring(rd) ==
    IF rd.file = "missing" THEN "unavailable"
    ELSE IF rd.file = "broken" THEN "error"
    ELSE IF Entries = {} /\ ~rd.others THEN "unavailable"
    ELSE "ok"
Status(rd) ==
    IF StatusIgnoring(rd) = "ok" /\ Bad(rd) # {} THEN "partial" ELSE StatusIgnoring(rd)

\* Result.Usable: only a complete reading is judged.
Usable == {rd \in Readings : Status(rd) = "ok"}
Listings == {Kept(rd) : rd \in Usable}

-----------------------------------------------------------------------------
(* The flow memory.                                                         *)

\* selfIPSet: the addresses cached, or read again after SelfTTL; a failure keeps
\* the old ones.
Expired == ~self.known \/ self.age >= SelfTTL
Addresses == [known |-> TRUE, ips |-> locals, age |-> 0]
SelfIPsOnce(readable) == IF self.known \/ ~readable THEN self ELSE Addresses
SelfIPs(readable) == IF Expired /\ readable THEN Addresses ELSE self
SelfRead(readable) ==
    /\ readable \/ Expired
    /\ self' = SelfIPs(readable) /\ moved' = IF readable THEN moved ELSE 0

\* The flows of the clients of rules, and those of them under a key.
Clients(kept, rules, ips) == {f \in kept : RuleOf[f] \in rules /\ Src(f) \notin ips}
LiveOf(clients) == {f \in clients : conn[f].state = "live"}
KeysOf(fs) == {Key[f] : f \in fs}
Under(fs, k) == {f \in fs : Key[f] = k}

\* touchFlow, for all flows under one key: news is a key not yet known or any
\* other byte count; flows of one key take turns at its entry.
News(k, fs) == k \notin DOMAIN flows \/ \E f \in fs : conn[f].bytes # flows[k].bytes
Last(fs) == CHOOSE f \in fs : TRUE
TouchedAdding(k, fs) ==
    [bytes |-> conn[Last(fs)].bytes + (IF k \in DOMAIN flows THEN flows[k].bytes ELSE 0), age |-> 0]
TouchedBySight(k, fs) == [bytes |-> conn[Last(fs)].bytes, age |-> 0]
Touched(k, fs) == [bytes |-> conn[Last(fs)].bytes, age |-> IF News(k, fs) THEN 0 ELSE flows[k].age]
Alive(k, fs) == \A f \in fs : Touched(k, fs).age <= Window[f]

\* gcFlows with what a round has seen, handshakes included.
RetainedAll(seen) == DOMAIN flows
Retained(seen) == DOMAIN flows \cap seen
Updated(clients) ==
    LET live == LiveOf(clients) IN
    [k \in Retained(KeysOf(clients)) \cup KeysOf(live) |->
        IF k \in KeysOf(live) THEN Touched(k, Under(live, k)) ELSE flows[k]]

\* buildActiveCandidates, as far as it judges who is active.
ActiveOf(rules, live) ==
    [r \in Rules |-> {Src(f) : f \in {g \in live : RuleOf[g] = r /\ r \in rules /\ Alive(Key[g], Under(live, Key[g]))}}]
\* dropFlowsOf, and what goes with it, for the rules a sync leaves out.
KeptFor(rules) == {k \in DOMAIN flows : k[1] \in rules}

-----------------------------------------------------------------------------
(* What a usable sync should find, from the table itself.                   *)

\* A flow is forgotten, and new when it comes back, with its rule and while its
\* source is an address of the host.
Forgotten(rules, ips) == {f \in Entries : Src(f) \in ips \/ RuleOf[f] \notin rules}
\* A flow whose predecessor under its key had counted as many bytes is the one
\* that byte counts cannot tell from it.
Telling(f) == Key[f] \in DOMAIN flows => conn[f].bytes # flows[Key[f]].bytes
Online(fs) == [r \in Rules |-> {Src(f) : f \in {g \in fs : RuleOf[g] = r /\ quiet'[g] <= Window[g]}}]

Record(shown, forgotten) ==
    /\ fresh' = (fresh \ shown) \cup forgotten
    /\ quiet' = [f \in Conns |-> IF f \in fresh \cap shown THEN 0 ELSE quiet[f]]
    /\ aliased' = aliased \ ({f \in shown : Telling(f)} \cup forgotten)
    /\ tabled' = KeysOf(Entries)
    /\ may' = Online(shown)
    /\ must' = Online(shown \ aliased')

-----------------------------------------------------------------------------
(* A sync, with the rules it is given: those of the table, or a candidate.   *)

Only(rules, addrs) == [r \in Rules |-> IF r \in rules THEN addrs[r] ELSE {}]

SyncUsable(rules, kept) ==
    \E readable \in BOOLEAN : LET ips == SelfIPs(readable).ips IN
        /\ SelfRead(readable)
        /\ flows' = Updated(Clients(kept, rules, ips))
        /\ active' = ActiveOf(rules, LiveOf(Clients(kept, rules, ips)))
        /\ Record(LiveOf(Entries \ Forgotten(rules, ips)), Forgotten(rules, ips))
        /\ UNCHANGED kernel

\* A reading that is not usable, which can be had in every state (the file may be
\* missing): only what rules that are left out had is dropped.
SyncFrozen(rules) ==
    /\ flows' = [k \in KeptFor(rules) |-> flows[k]]
    /\ active' = Only(rules, active)
    /\ must' = Only(rules, must) /\ may' = Only(rules, may)
    /\ fresh' = fresh \cup Forgotten(rules, {})
    /\ UNCHANGED <<kernel, self, quiet, aliased, tabled, moved>>

RoundUsable == (\E kept \in Listings : SyncUsable(on, kept)) /\ UNCHANGED on
RoundFrozen == SyncFrozen(on) /\ UNCHANGED on
\* A call of rulesvc with other rules: accepted, or refused by nft and rolled back
\* by a later sync.
Call ==
    \E rules \in SUBSET Rules :
        /\ rules # on /\ on' \in {on, rules}
        /\ SyncFrozen(rules) \/ \E kept \in Listings : SyncUsable(rules, kept)
\* The totals or the nft state cannot be read: only the reading of the addresses
\* is left behind.
SyncFails ==
    /\ \E readable \in BOOLEAN : SelfRead(readable)
    /\ UNCHANGED <<kernel, on, flows, active, fresh, quiet, aliased, tabled, must, may>>

-----------------------------------------------------------------------------
(* The environment: connections, the host's addresses, time, restarts.       *)

Enter(f, state, bytes) == conn' = [conn EXCEPT ![f] = [state |-> state, bytes |-> bytes]]
Reused(f) == Key[f] \in DOMAIN flows

\* A new connection, after the old one of its tuple has gone or is closing.
Open(f) ==
    /\ conn[f].state \in {"none", "closing"}
    /\ Enter(f, IF Proto(f) = "tcp" THEN "syn" ELSE "live", 0)
    /\ fresh' = fresh \cup {f}
    /\ aliased' = IF Reused(f) THEN aliased \cup {f} ELSE aliased
    /\ UNCHANGED <<locals, on, memory, quiet, tabled, must, may, moved>>
Establish(f) ==
    /\ conn[f].state = "syn" /\ Enter(f, "live", 0)
    /\ UNCHANGED <<locals, on, memory, history>>
Carry(f) ==
    /\ conn[f].state = "live" /\ conn[f].bytes < MaxBytes
    /\ Enter(f, "live", conn[f].bytes + 1)
    /\ fresh' = fresh \cup {f}
    /\ UNCHANGED <<locals, on, memory, quiet, aliased, tabled, must, may, moved>>
Close(f) ==
    /\ conn[f].state # "none"
    /\ \/ Proto(f) = "tcp" /\ conn[f].state # "closing" /\ Enter(f, "closing", 0)
       \/ Enter(f, "none", 0)
    /\ fresh' = fresh \ {f} /\ aliased' = aliased \ {f} /\ quiet' = [quiet EXCEPT ![f] = 0]
    /\ UNCHANGED <<locals, on, memory, tabled, must, may, moved>>

Readdress ==
    /\ locals' \in SUBSET Movable /\ locals' # locals /\ moved' = 0
    /\ UNCHANGED <<conn, on, memory, fresh, quiet, aliased, tabled, must, may>>

Tick ==
    /\ flows' = [k \in DOMAIN flows |-> [flows[k] EXCEPT !.age = Older(@, IF k[2] = "udp" THEN UdpIdle ELSE Idle)]]
    /\ self' = [self EXCEPT !.age = Older(@, SelfTTL - 1)]
    /\ quiet' = [f \in Conns |-> IF conn[f].state = "live" THEN Older(quiet[f], Window[f]) ELSE 0]
    /\ moved' = Older(moved, SelfTTL)
    /\ UNCHANGED <<kernel, on, active, fresh, aliased, tabled, must, may>>

\* The process dies and starts again.
Restart ==
    /\ flows' = [k \in {} |-> 0] /\ active' = NoAddrs
    /\ self' = [known |-> FALSE, ips |-> {}, age |-> 0]
    /\ must' = NoAddrs /\ may' = NoAddrs /\ fresh' = Entries
    /\ UNCHANGED <<kernel, on, quiet, aliased, tabled, moved>>

-----------------------------------------------------------------------------
Traffic == \E f \in Conns : Open(f) \/ Establish(f) \/ Carry(f) \/ Close(f)
Next == RoundUsable \/ RoundFrozen \/ Call \/ SyncFails \/ Traffic \/ Readdress \/ Tick \/ Restart
Spec == Init /\ [][Next]_vars

-----------------------------------------------------------------------------
(* Properties.                                                             *)

\* Two connections of one client port to two addresses of the host share a key, and
\* with it the memory of how many bytes they had carried.
DistinctKeys == \A f, g \in Conns : Key[f] = Key[g] => f = g

\* A client with a flow that has carried anything within the window is online
\* after every usable sync: no damaged line, no tuple used again, no flow of a
\* host's former address is taken for silence.
BusyStaysOnline == DistinctKeys => \A r \in Rules : must[r] \subseteq active[r]

\* A client all of whose flows have been silent for the window is offline after
\* every usable sync, whatever rounds were frozen and whatever was collected in
\* between.
IdleGoesOffline == DistinctKeys => \A r \in Rules : active[r] \subseteq may[r]

\* An address the host has had for SelfTTL is no client of a usable round, however
\* stale the cached addresses are, unless they could not be read.
SelfIsNoClient ==
    [][moved' > SelfTTL /\ (\E r \in Rules : active'[r] \cap locals # {}) => ~RoundUsable]_vars

\* The memory has no entry of a connection that had gone before the last usable
\* sync: it stays as small as the table, through frozen rounds and failed calls.
EntriesCollected == DOMAIN flows \subseteq tabled
=============================================================================
