----------------------------- MODULE FlowsProofs -----------------------------
(***************************************************************************)
(* What holds of Flows for any rules, connections, addresses and windows.    *)
(*                                                                         *)
(* The invariant says what the entry under a connection's key is worth: when  *)
(* the connection has shown no news, it has the byte count and an age that is  *)
(* no less than the silence, and no more if it was not there before the        *)
(* connection (QuietMemory); news can be told by it (NewsMemory).            *)
(***************************************************************************)
EXTENDS Flows, TLAPS

Of(f) == flows[Key[f]]
Known(f) == Key[f] \in DOMAIN flows
SynMemory == \A f \in Conns : conn[f].state = "syn" => f \in fresh /\ (Known(f) => f \in aliased)
QuietMemory ==
    \A f \in Conns \ fresh : conn[f].state = "live" =>
        /\ Known(f) /\ Of(f).bytes = conn[f].bytes /\ quiet[f] <= Of(f).age
        /\ f \notin aliased => Of(f).age <= quiet[f]
NewsMemory ==
    \A f \in fresh \ aliased : conn[f].state = "live" /\ Known(f) => Of(f).bytes < conn[f].bytes
Judged == \A r \in Rules : must[r] \subseteq active[r] /\ active[r] \subseteq may[r]
Memory == SynMemory /\ QuietMemory /\ NewsMemory /\ Judged

SelfKnown == self.known /\ self.age < SelfTTL /\ self.age < moved => self.ips = locals
IInv == TypeOK /\ EntriesCollected /\ SelfKnown /\ (DistinctKeys => Memory)

-----------------------------------------------------------------------------
LEMMA Numbers == Idle \in Nat /\ UdpIdle \in Nat /\ SelfTTL \in Nat /\ MaxBytes \in Nat
  BY BoundAssumption

LEMMA OfConn ==
    ASSUME NEW f \in Conns
    PROVE  /\ RuleOf[f] \in Rules /\ Window[f] \in Nat /\ Src(f) \in Addrs
           /\ Key[f] \in Keys /\ Key[f][1] = RuleOf[f]
           /\ Window[f] = IF Key[f][2] = "udp" THEN UdpIdle ELSE Idle
<1>1. PICK r \in Rules : Socket(f) \in Listens[r]
  BY SocketAssumption
<1>2. RuleOf[f] = CHOOSE s \in Rules : Socket(f) \in Listens[s]
  BY DEF RuleOf
<1>3. RuleOf[f] \in Rules
  BY <1>1, <1>2
<1>4. Key[f] = <<RuleOf[f], Proto(f), Src(f), Tuple[f].sport>>
  BY DEF Key
<1> QED
  BY <1>3, <1>4, Numbers DEF Window, Addrs, Keys

LEMMA OlderNat ==
    ASSUME NEW a \in Nat, NEW w \in Int PROVE Older(a, w) \in Nat
  BY DEF Older

\* A usable reading has every connection that is not closing.
LEMMA Whole ==
    ASSUME NEW kept \in Listings
    PROVE  kept = {f \in Conns : conn[f].state \in {"syn", "live"}}
<1>1. PICK rd \in Usable : kept = Kept(rd)
  BY DEF Listings
<1>2. Bad(rd) = {}
  BY DEF Usable, Status, StatusIgnoring
<1> QED
  BY <1>1, <1>2 DEF Kept, Entries

\* What is under a key is never nothing, and with distinct keys one connection.
LEMMA UnderKey ==
    ASSUME NEW fs \in SUBSET Conns, NEW f \in fs
    PROVE  /\ Last(Under(fs, Key[f])) \in Under(fs, Key[f])
           /\ DistinctKeys => Under(fs, Key[f]) = {f} /\ Last(Under(fs, Key[f])) = f
<1>1. f \in Under(fs, Key[f])
  BY DEF Under
<1>2. Last(Under(fs, Key[f])) \in Under(fs, Key[f])
  BY <1>1 DEF Last
<1>3. DistinctKeys => Under(fs, Key[f]) = {f}
  BY <1>1 DEF Under, DistinctKeys
<1> QED
  BY <1>2, <1>3

LEMMA TouchedType ==
    ASSUME TypeOK, NEW k, NEW fs \in SUBSET Conns, Last(fs) \in fs
    PROVE  Touched(k, fs) \in [bytes : 0..MaxBytes, age : Nat]
<1>1. conn[Last(fs)].bytes \in 0..MaxBytes
  BY DEF TypeOK
<1>2. ~News(k, fs) => flows[k].age \in Nat
  BY DEF News, TypeOK
<1> QED
  BY <1>1, <1>2 DEF Touched

-----------------------------------------------------------------------------
(* Parts of a sync.                                                         *)

LEMMA SelfReadInv ==
    ASSUME TypeOK, SelfKnown, NEW readable \in BOOLEAN, SelfRead(readable), locals' = locals
    PROVE  SelfKnown' /\ self' \in [known : BOOLEAN, ips : SUBSET Movable, age : Nat] /\ moved' \in Nat
<1>1. CASE Expired /\ readable
  BY <1>1 DEF SelfRead, SelfIPs, Addresses, SelfKnown, TypeOK
<1>2. CASE ~(Expired /\ readable)
  <2>1. self' = self /\ moved' \in {0, moved}
    BY <1>2 DEF SelfRead, SelfIPs
  <2>2. ~readable => moved' = 0
    BY DEF SelfRead
  <2>3. SelfKnown'
    BY <2>1, <2>2 DEF SelfKnown, TypeOK
  <2> QED
    BY <2>1, <2>3 DEF TypeOK
<1> QED
  BY <1>1, <1>2

\* The flows that are judged are those that the table shows of clients of rules.
LEMMA Shown ==
    ASSUME NEW kept \in Listings, NEW rules, NEW ips
    PROVE  /\ Clients(kept, rules, ips) =
                  {f \in Conns : conn[f].state \in {"syn", "live"} /\ RuleOf[f] \in rules /\ Src(f) \notin ips}
           /\ LiveOf(Clients(kept, rules, ips)) = LiveOf(Entries \ Forgotten(rules, ips))
           /\ LiveOf(Clients(kept, rules, ips)) \subseteq Clients(kept, rules, ips)
           /\ Clients(kept, rules, ips) \subseteq Entries
  BY Whole DEF Clients, LiveOf, Entries, Forgotten

LEMMA UpdatedType ==
    ASSUME TypeOK, NEW clients \in SUBSET Entries
    PROVE  /\ DOMAIN Updated(clients) \subseteq KeysOf(Entries)
           /\ \A k \in DOMAIN Updated(clients) : Updated(clients)[k] \in [bytes : 0..MaxBytes, age : Nat]
<1> DEFINE live == LiveOf(clients)
<1>1. DOMAIN Updated(clients) = Retained(KeysOf(clients)) \cup KeysOf(live)
  BY DEF Updated
<1>2. Retained(KeysOf(clients)) \subseteq KeysOf(clients) /\ KeysOf(live) \subseteq KeysOf(clients)
  BY DEF Retained, KeysOf, LiveOf
<1>3. KeysOf(clients) \subseteq KeysOf(Entries)
  BY DEF KeysOf
<1>4. ASSUME NEW k \in DOMAIN Updated(clients)
      PROVE  Updated(clients)[k] \in [bytes : 0..MaxBytes, age : Nat]
  <2>1. Updated(clients)[k] = IF k \in KeysOf(live) THEN Touched(k, Under(live, k)) ELSE flows[k]
    BY <1>1, <1>4 DEF Updated
  <2>2. CASE k \in KeysOf(live)
    <3>1. PICK f \in live : k = Key[f]
      BY <2>2 DEF KeysOf
    <3>2. live \subseteq Conns /\ Under(live, k) \subseteq Conns
      BY DEF LiveOf, Entries, Under
    <3>3. Last(Under(live, k)) \in Under(live, k)
      BY <3>1, <3>2, UnderKey
    <3> QED
      BY <2>1, <2>2, <3>2, <3>3, TouchedType
  <2>3. CASE k \notin KeysOf(live)
    <3>1. k \in DOMAIN flows
      BY <1>1, <1>4, <2>3 DEF Retained
    <3> QED
      BY <2>1, <2>3, <3>1 DEF TypeOK
  <2> QED
    BY <2>2, <2>3
<1> QED
  BY <1>1, <1>2, <1>3, <1>4

LEMMA AddrsTypes ==
    ASSUME NEW fs \in SUBSET Conns, NEW rules
    PROVE  ActiveOf(rules, fs) \in [Rules -> SUBSET Addrs] /\ Online(fs) \in [Rules -> SUBSET Addrs]
  BY DEF ActiveOf, Online, Addrs

LEMMA UsableTypes ==
    ASSUME IInv, NEW rules \in SUBSET Rules, NEW kept \in Listings, SyncUsable(rules, kept), on' \subseteq Rules
    PROVE  TypeOK' /\ EntriesCollected' /\ SelfKnown'
<1>1. PICK readable \in BOOLEAN : LET ips == SelfIPs(readable).ips IN
        /\ SelfRead(readable)
        /\ flows' = Updated(Clients(kept, rules, ips))
        /\ active' = ActiveOf(rules, LiveOf(Clients(kept, rules, ips)))
        /\ Record(LiveOf(Entries \ Forgotten(rules, ips)), Forgotten(rules, ips))
        /\ UNCHANGED kernel
  BY DEF SyncUsable
<1> DEFINE ips == SelfIPs(readable).ips
           clients == Clients(kept, rules, ips)
           shown == LiveOf(Entries \ Forgotten(rules, ips))
<1>2. clients \subseteq Entries /\ Entries \subseteq Conns /\ LiveOf(clients) \subseteq Conns /\ shown \subseteq Conns
  BY Shown DEF Entries, LiveOf
<1>3. SelfKnown' /\ self' \in [known : BOOLEAN, ips : SUBSET Movable, age : Nat] /\ moved' \in Nat
  BY <1>1, SelfReadInv DEF IInv, kernel
<1>4. tabled' = KeysOf(Entries) /\ KeysOf(Entries) \subseteq Keys
  BY <1>1, <1>2 DEF Record, KeysOf, Keys
<1>5. /\ DOMAIN flows' \subseteq KeysOf(Entries)
      /\ \A k \in DOMAIN flows' : flows'[k] \in [bytes : 0..MaxBytes, age : Nat]
  BY <1>1, <1>2, UpdatedType DEF IInv
<1>6. {active', must', may'} \subseteq [Rules -> SUBSET Addrs]
  <2>1. may' = Online(shown) /\ must' = Online(shown \ aliased') /\ active' = ActiveOf(rules, LiveOf(clients))
    BY <1>1 DEF Record
  <2>2. ActiveOf(rules, LiveOf(clients)) \in [Rules -> SUBSET Addrs]
    BY <1>2, AddrsTypes
  <2>3. Online(shown) \in [Rules -> SUBSET Addrs] /\ Online(shown \ aliased') \in [Rules -> SUBSET Addrs]
    BY <1>2 DEF Online, Addrs
  <2> QED
    BY <2>1, <2>2, <2>3
<1>7. fresh' \subseteq Conns /\ aliased' \subseteq Conns /\ quiet' \in [Conns -> Nat]
  BY <1>1, <1>2 DEF Record, Forgotten, IInv, TypeOK
<1>8. conn' = conn /\ locals' = locals
  BY <1>1 DEF kernel
<1>9. TypeOK'
  BY <1>3, <1>4, <1>5, <1>6, <1>7, <1>8 DEF IInv, TypeOK
<1> QED
  BY <1>3, <1>4, <1>5, <1>9 DEF EntriesCollected

\* What a usable sync makes of the entry of each connection, when keys are distinct.
LEMMA UpdatedAt ==
    ASSUME DistinctKeys, NEW clients \in SUBSET Conns, NEW f \in Conns
    PROVE  /\ f \in LiveOf(clients) => /\ Key[f] \in DOMAIN Updated(clients)
                                       /\ Updated(clients)[Key[f]] = Touched(Key[f], {f}) /\ Last({f}) = f
                                       /\ Alive(Key[f], Under(LiveOf(clients), Key[f]))
                                              <=> Touched(Key[f], {f}).age <= Window[f]
           /\ f \in clients \ LiveOf(clients) => Key[f] \in DOMAIN Updated(clients) <=> Known(f)
           /\ f \notin clients => Key[f] \notin DOMAIN Updated(clients)
<1> DEFINE live == LiveOf(clients)
<1>1. DOMAIN Updated(clients) = Retained(KeysOf(clients)) \cup KeysOf(live)
  BY DEF Updated
<1>2. live \subseteq clients /\ clients \subseteq Conns
  BY DEF LiveOf
<1>3. (Key[f] \in KeysOf(live) <=> f \in live) /\ (Key[f] \in KeysOf(clients) <=> f \in clients)
  BY <1>2 DEF KeysOf, DistinctKeys
<1>4. CASE f \in live
  <2>1. Under(live, Key[f]) = {f} /\ Last({f}) = f
    BY <1>2, <1>4, UnderKey
  <2>2. Key[f] \in DOMAIN Updated(clients) /\ Updated(clients)[Key[f]] = Touched(Key[f], {f})
    BY <1>1, <1>3, <1>4, <2>1 DEF Updated
  <2>3. Alive(Key[f], {f}) <=> Touched(Key[f], {f}).age <= Window[f]
    BY DEF Alive
  <2> QED
    BY <1>2, <1>4, <2>1, <2>2, <2>3
<1>5. CASE f \notin live
  BY <1>1, <1>2, <1>3, <1>5 DEF Retained, Known
<1> QED
  BY <1>4, <1>5

LEMMA UsableMemory ==
    ASSUME IInv, DistinctKeys, NEW rules \in SUBSET Rules, NEW kept \in Listings, SyncUsable(rules, kept)
    PROVE  Memory'
<1>1. PICK readable \in BOOLEAN : LET ips == SelfIPs(readable).ips IN
        /\ SelfRead(readable)
        /\ flows' = Updated(Clients(kept, rules, ips))
        /\ active' = ActiveOf(rules, LiveOf(Clients(kept, rules, ips)))
        /\ Record(LiveOf(Entries \ Forgotten(rules, ips)), Forgotten(rules, ips))
        /\ UNCHANGED kernel
  BY DEF SyncUsable
<1> DEFINE ips == SelfIPs(readable).ips
           clients == Clients(kept, rules, ips)
           live == LiveOf(clients)
           forgotten == Forgotten(rules, ips)
<1>2. /\ clients \subseteq Conns /\ live \subseteq clients /\ clients \subseteq Entries
      /\ live = LiveOf(Entries \ forgotten)
  <2>1. clients \subseteq Entries /\ live \subseteq clients /\ live = LiveOf(Entries \ forgotten)
    BY Shown
  <2> QED
    BY <2>1 DEF Entries
<1>3. \A f \in Conns : /\ f \in live <=> conn[f].state = "live" /\ f \notin forgotten
                       /\ conn[f].state = "syn" /\ f \notin forgotten <=> f \in clients \ live
                       /\ f \in forgotten => f \notin clients /\ f \in Conns
  BY Shown DEF LiveOf, Entries, Forgotten
<1>4. /\ fresh' = (fresh \ live) \cup forgotten
      /\ quiet' = [f \in Conns |-> IF f \in fresh \cap live THEN 0 ELSE quiet[f]]
      /\ aliased' = aliased \ ({f \in live : Telling(f)} \cup forgotten)
      /\ may' = Online(live) /\ must' = Online(live \ aliased')
      /\ conn' = conn /\ flows' = Updated(clients) /\ active' = ActiveOf(rules, live)
  BY <1>1, <1>2 DEF Record, kernel
<1>5. Memory /\ TypeOK
  BY DEF IInv
<1>k. ASSUME NEW f \in Conns
      PROVE  (f \in forgotten => ~Known(f)') /\ (f \in clients \ live => (Known(f)' <=> Known(f)))
  <2>1. Known(f)' <=> Key[f] \in DOMAIN Updated(clients)
    BY <1>4 DEF Known
  <2>2. f \in forgotten => f \notin clients
    BY <1>3
  <2> QED
    BY <1>2, <2>1, <2>2, UpdatedAt
\* The entry of a flow that is shown, and whether its client is online.
<1>6. ASSUME NEW f \in live
      PROVE  /\ Known(f)' /\ Of(f)'.bytes = conn[f].bytes /\ quiet'[f] <= Of(f)'.age
             /\ f \notin aliased' => Of(f)'.age <= quiet'[f]
             /\ Alive(Key[f], Under(live, Key[f])) <=> Of(f)'.age <= Window[f]
  <2>1. f \in Conns /\ conn[f].state = "live" /\ f \notin forgotten
    BY <1>2, <1>3, <1>6
  <2>2. /\ Known(f)' /\ Of(f)' = Touched(Key[f], {f}) /\ Last({f}) = f
        /\ Alive(Key[f], Under(live, Key[f])) <=> Of(f)'.age <= Window[f]
    BY <1>2, <1>4, <1>6, <2>1, UpdatedAt DEF Known, Of
  <2>3. Of(f)'.bytes = conn[f].bytes /\ Of(f)'.age = IF News(Key[f], {f}) THEN 0 ELSE Of(f).age
    BY <2>2 DEF Touched, Of
  <2>4. News(Key[f], {f}) <=> (Known(f) => conn[f].bytes # Of(f).bytes)
    BY DEF News, Known, Of
  <2>5. quiet[f] \in Nat /\ conn[f].bytes \in Nat /\ (Known(f) => Of(f).age \in Nat /\ Of(f).bytes \in Nat)
    BY <1>5, <2>1 DEF TypeOK, Known, Of
  <2>6. quiet'[f] = IF f \in fresh THEN 0 ELSE quiet[f]
    BY <1>4, <1>6, <2>1
  <2>7. CASE f \in fresh
    <3>1. f \notin aliased' => News(Key[f], {f})
      <4>1. f \notin aliased => News(Key[f], {f})
        BY <1>5, <2>1, <2>4, <2>5, <2>7 DEF Memory, NewsMemory
      <4>2. Telling(f) => News(Key[f], {f})
        BY <2>4 DEF Telling, Known, Of
      <4> QED
        BY <1>4, <2>1, <4>1, <4>2
    <3>2. Of(f)'.age \in Nat
      BY <2>3, <2>4, <2>5
    <3> QED
      BY <2>2, <2>3, <2>6, <2>7, <3>1, <3>2
  <2>8. CASE f \notin fresh
    <3>1. /\ Known(f) /\ Of(f).bytes = conn[f].bytes /\ quiet[f] <= Of(f).age
          /\ f \notin aliased => Of(f).age <= quiet[f]
      BY <1>5, <2>1, <2>8 DEF Memory, QuietMemory
    <3>2. ~News(Key[f], {f}) /\ ~Telling(f)
      BY <2>4, <3>1 DEF Telling, Known, Of
    <3>3. f \notin aliased' => f \notin aliased
      BY <1>4, <2>1, <3>2
    <3> QED
      BY <2>2, <2>3, <2>6, <2>8, <3>1, <3>2, <3>3
  <2> QED
    BY <2>7, <2>8
<1>7. SynMemory'
  <2>1. ASSUME NEW f \in Conns, conn'[f].state = "syn" PROVE f \in fresh' /\ (Known(f)' => f \in aliased')
    <3>1. f \notin live /\ conn[f].state = "syn"
      BY <1>3, <1>4, <2>1
    <3>2. f \in fresh /\ (Known(f) => f \in aliased)
      BY <1>5, <3>1 DEF Memory, SynMemory
    <3>3. f \notin forgotten => (Known(f)' => Known(f))
      BY <1>3, <1>k, <3>1
    <3>4. f \in forgotten => ~Known(f)'
      BY <1>k
    <3> QED
      BY <1>4, <3>1, <3>2, <3>3, <3>4
  <2> QED
    BY <2>1 DEF SynMemory
<1>8. QuietMemory'
  <2>1. ASSUME NEW f \in Conns \ fresh', conn'[f].state = "live" PROVE f \in live
    BY <1>3, <1>4, <2>1
  <2> QED
    BY <1>4, <1>6, <2>1 DEF QuietMemory
<1>9. NewsMemory'
  <2>1. ASSUME NEW f \in fresh' \ aliased', conn'[f].state = "live" PROVE ~Known(f)'
    <3>1. f \in Conns
      BY <1>4, <1>5, <2>1 DEF TypeOK, Forgotten, Entries
    <3>2. f \in forgotten
      BY <1>3, <1>4, <2>1, <3>1
    <3> QED
      BY <1>k, <3>1, <3>2
  <2> QED
    BY <2>1 DEF NewsMemory
<1>10. Judged'
  <2>1. ASSUME NEW r \in Rules, NEW f \in live, RuleOf[f] = r
        PROVE  /\ f \notin aliased' /\ quiet'[f] <= Window[f] => Alive(Key[f], Under(live, Key[f]))
               /\ Alive(Key[f], Under(live, Key[f])) => quiet'[f] <= Window[f]
    <3>1. f \in Conns /\ quiet'[f] \in Nat /\ Window[f] \in Nat
      BY <1>2, <1>4, <1>5, OfConn DEF TypeOK
    <3>2. Of(f)'.age \in Nat
      BY <1>2, <1>4, <1>5, <1>6, UpdatedType DEF Of, Known
    <3> QED
      BY <1>6, <3>1, <3>2
  <2>2. \A f \in live : RuleOf[f] \in rules
    BY <1>2, <1>3 DEF LiveOf, Clients
  <2>3. ASSUME NEW r \in Rules PROVE must'[r] \subseteq active'[r] /\ active'[r] \subseteq may'[r]
    <3>1. /\ may'[r] = {Src(f) : f \in {g \in live : RuleOf[g] = r /\ quiet'[g] <= Window[g]}}
          /\ must'[r] = {Src(f) : f \in {g \in live \ aliased' : RuleOf[g] = r /\ quiet'[g] <= Window[g]}}
      BY <1>4 DEF Online
    <3>2. active'[r] = {Src(f) : f \in {g \in live : /\ RuleOf[g] = r /\ r \in rules
                                                      /\ Alive(Key[g], Under(live, Key[g]))}}
      BY <1>4 DEF ActiveOf
    <3> HIDE DEF live
    <3> QED
      BY <2>1, <2>2, <3>1, <3>2
  <2> QED
    BY <2>3 DEF Judged
<1> QED
  BY <1>7, <1>8, <1>9, <1>10 DEF Memory

LEMMA UsableInv ==
    ASSUME IInv, NEW rules \in SUBSET Rules, NEW kept \in Listings, SyncUsable(rules, kept), on' \subseteq Rules
    PROVE  IInv'
  BY UsableTypes, UsableMemory DEF IInv, DistinctKeys

LEMMA FrozenInv ==
    ASSUME IInv, NEW rules \in SUBSET Rules, SyncFrozen(rules), on' \subseteq Rules
    PROVE  IInv'
<1>1. /\ flows' = [k \in KeptFor(rules) |-> flows[k]]
      /\ active' = Only(rules, active) /\ must' = Only(rules, must) /\ may' = Only(rules, may)
      /\ fresh' = fresh \cup Forgotten(rules, {})
      /\ UNCHANGED <<conn, locals, self, quiet, aliased, tabled, moved>>
  BY DEF SyncFrozen, kernel
<1>2. DOMAIN flows' = KeptFor(rules) /\ KeptFor(rules) \subseteq DOMAIN flows /\ \A k \in KeptFor(rules) : flows'[k] = flows[k]
  BY <1>1 DEF KeptFor
<1>3. TypeOK'
  <2>1. fresh' \subseteq Conns
    BY <1>1 DEF IInv, TypeOK, Forgotten, Entries
  <2>2. {active', must', may'} \subseteq [Rules -> SUBSET Addrs]
    BY <1>1 DEF IInv, TypeOK, Only
  <2>3. DOMAIN flows' \subseteq Keys /\ \A k \in DOMAIN flows' : flows'[k] \in [bytes : 0..MaxBytes, age : Nat]
    BY <1>2 DEF IInv, TypeOK
  <2> QED
    BY <1>1, <2>1, <2>2, <2>3 DEF IInv, TypeOK
<1>4. EntriesCollected' /\ SelfKnown'
  BY <1>1, <1>2 DEF IInv, EntriesCollected, SelfKnown
<1>5. ASSUME DistinctKeys PROVE Memory'
  <2>1. ASSUME NEW f \in Conns
        PROVE  /\ Known(f)' => Known(f) /\ Of(f)' = Of(f)
               /\ conn[f].state \in {"syn", "live"} /\ f \notin fresh' => RuleOf[f] \in rules
               /\ Known(f)' <=> Known(f) /\ RuleOf[f] \in rules
    <3>1. Known(f)' <=> Known(f) /\ RuleOf[f] \in rules
      BY <1>2, OfConn DEF Known, KeptFor
    <3>2. Known(f)' => Of(f)' = Of(f)
      BY <1>2 DEF Known, Of
    <3>3. conn[f].state \in {"syn", "live"} /\ f \notin fresh' => RuleOf[f] \in rules
      BY <1>1 DEF Forgotten, Entries
    <3> QED
      BY <3>1, <3>2, <3>3
  <2>2. SynMemory'
    BY <1>1, <1>5, <2>1 DEF IInv, Memory, SynMemory
  <2>3. QuietMemory'
    BY <1>1, <1>5, <2>1 DEF IInv, Memory, QuietMemory
  <2>4. NewsMemory'
    <3>1. ASSUME NEW f \in fresh' \ aliased', conn'[f].state = "live", Known(f)' PROVE Of(f)'.bytes < conn'[f].bytes
      <4>1. f \in Conns
        BY <1>3, <3>1 DEF TypeOK
      <4>2. f \in fresh
        BY <1>1, <2>1, <3>1, <4>1, OfConn DEF Forgotten
      <4> QED
        BY <1>1, <1>5, <2>1, <3>1, <4>1, <4>2 DEF IInv, Memory, NewsMemory
    <3> QED
      BY <3>1 DEF NewsMemory
  <2>5. Judged'
    BY <1>1, <1>5 DEF IInv, Memory, Judged, Only
  <2> QED
    BY <2>2, <2>3, <2>4, <2>5 DEF Memory
<1> QED
  BY <1>3, <1>4, <1>5 DEF IInv, DistinctKeys

-----------------------------------------------------------------------------
(* The environment.                                                         *)

\* What happens to a connection changes only what is said of it.
LEMMA EnterInv ==
    ASSUME IInv, NEW f \in Conns, NEW state \in States, NEW bytes \in 0..MaxBytes, Enter(f, state, bytes),
           UNCHANGED <<locals, on, memory, tabled, must, may, moved>>,
           fresh' \subseteq Conns, aliased' \subseteq Conns, quiet' \in [Conns -> Nat],
           \A g \in Conns \ {f} : (g \in fresh' <=> g \in fresh) /\ (g \in aliased' <=> g \in aliased) /\ quiet'[g] = quiet[g],
           state = "syn" => f \in fresh' /\ (Known(f) => f \in aliased'),
           state = "live" /\ DistinctKeys => f \in fresh' /\ (Known(f) /\ f \notin aliased' => Of(f).bytes < bytes)
    PROVE  IInv'
<1>1. conn' = [conn EXCEPT ![f] = [state |-> state, bytes |-> bytes]]
  BY DEF Enter
<1>2. conn'[f].state = state /\ conn'[f].bytes = bytes /\ \A g \in Conns \ {f} : conn'[g] = conn[g]
  BY <1>1 DEF IInv, TypeOK
<1>3. TypeOK'
  BY <1>1 DEF IInv, TypeOK, memory
<1>4. EntriesCollected' /\ SelfKnown'
  BY DEF IInv, EntriesCollected, SelfKnown, memory
<1>5. ASSUME DistinctKeys PROVE Memory'
  <2>1. \A g \in Conns : (Known(g)' <=> Known(g)) /\ Of(g)' = Of(g)
    BY DEF Known, Of, memory
  <2>2. SynMemory'
    BY <1>2, <1>5, <2>1 DEF IInv, Memory, SynMemory
  <2>3. QuietMemory'
    BY <1>2, <1>5, <2>1 DEF IInv, Memory, QuietMemory
  <2>4. NewsMemory'
    BY <1>2, <1>5, <2>1 DEF IInv, Memory, NewsMemory
  <2>5. Judged'
    BY <1>5 DEF IInv, Memory, Judged, memory
  <2> QED
    BY <2>2, <2>3, <2>4, <2>5 DEF Memory
<1> QED
  BY <1>3, <1>4, <1>5 DEF IInv, DistinctKeys

LEMMA TrafficInv ==
    ASSUME IInv, NEW f \in Conns, Open(f) \/ Establish(f) \/ Carry(f) \/ Close(f)
    PROVE  IInv'
<1>n. 0 \in 0..MaxBytes
  BY Numbers
<1>t. conn[f].bytes \in 0..MaxBytes /\ fresh \subseteq Conns /\ aliased \subseteq Conns /\ quiet \in [Conns -> Nat]
  BY DEF IInv, TypeOK
<1>1. CASE Open(f)
  <2>1. PICK state \in {"syn", "live"} : Enter(f, state, 0)
    BY <1>1 DEF Open
  <2>2. /\ UNCHANGED <<locals, on, memory, tabled, must, may, moved>> /\ quiet' = quiet
        /\ fresh' = fresh \cup {f} /\ aliased' = IF Known(f) THEN aliased \cup {f} ELSE aliased
    BY <1>1 DEF Open, Reused, Known
  <2> QED
    BY <1>n, <1>t, <2>1, <2>2, EnterInv DEF States
<1>2. CASE Establish(f)
  <2>1. Enter(f, "live", 0) /\ UNCHANGED <<locals, on, memory, history>> /\ conn[f].state = "syn"
    BY <1>2 DEF Establish
  <2>2. DistinctKeys => f \in fresh /\ (Known(f) => f \in aliased)
    BY <2>1 DEF IInv, Memory, SynMemory
  <2> QED
    BY <1>n, <1>t, <2>1, <2>2, EnterInv DEF States, history
<1>3. CASE Carry(f)
  <2>1. Enter(f, "live", conn[f].bytes + 1) /\ conn[f].state = "live" /\ conn[f].bytes + 1 \in 0..MaxBytes
    BY <1>3, <1>t, Numbers DEF Carry
  <2>2. /\ UNCHANGED <<locals, on, memory, tabled, must, may, moved>> /\ quiet' = quiet
        /\ fresh' = fresh \cup {f} /\ aliased' = aliased
    BY <1>3 DEF Carry
  <2>3. Known(f) => Of(f).bytes \in Nat
    BY DEF IInv, TypeOK, Known, Of
  <2>4. DistinctKeys /\ Known(f) /\ f \notin aliased => Of(f).bytes < conn[f].bytes + 1
    BY <1>t, <2>1, <2>3 DEF IInv, Memory, QuietMemory, NewsMemory
  <2> QED
    BY <1>t, <2>1, <2>2, <2>4, EnterInv DEF States
<1>4. CASE Close(f)
  <2>1. PICK state \in {"none", "closing"} : Enter(f, state, 0)
    BY <1>4 DEF Close
  <2>2. /\ UNCHANGED <<locals, on, memory, tabled, must, may, moved>>
        /\ fresh' = fresh \ {f} /\ aliased' = aliased \ {f} /\ quiet' = [quiet EXCEPT ![f] = 0]
    BY <1>4 DEF Close
  <2> QED
    BY <1>n, <1>t, <2>1, <2>2, EnterInv DEF States
<1> QED
  BY <1>1, <1>2, <1>3, <1>4

LEMMA TickInv == ASSUME IInv, Tick PROVE IInv'
<1> DEFINE window(k) == IF k[2] = "udp" THEN UdpIdle ELSE Idle
<1>1. /\ flows' = [k \in DOMAIN flows |-> [flows[k] EXCEPT !.age = Older(@, window(k))]]
      /\ self' = [self EXCEPT !.age = Older(@, SelfTTL - 1)]
      /\ quiet' = [f \in Conns |-> IF conn[f].state = "live" THEN Older(quiet[f], Window[f]) ELSE 0]
      /\ moved' = Older(moved, SelfTTL)
      /\ UNCHANGED <<conn, locals, on, active, fresh, aliased, tabled, must, may>>
  BY DEF Tick, kernel
<1>2. \A k \in DOMAIN flows : /\ flows[k] \in [bytes : 0..MaxBytes, age : Nat] /\ window(k) \in Nat
                              /\ flows'[k] = [bytes |-> flows[k].bytes, age |-> Older(flows[k].age, window(k))]
  BY <1>1, Numbers DEF IInv, TypeOK
<1>3. TypeOK'
  <2>1. ASSUME NEW k \in DOMAIN flows' PROVE flows'[k] \in [bytes : 0..MaxBytes, age : Nat]
    <3>1. DOMAIN flows' = DOMAIN flows
      BY <1>1
    <3>2. /\ flows[k] \in [bytes : 0..MaxBytes, age : Nat] /\ window(k) \in Nat
          /\ flows'[k] = [bytes |-> flows[k].bytes, age |-> Older(flows[k].age, window(k))]
      BY <1>2, <2>1, <3>1
    <3> HIDE DEF window
    <3>3. flows[k].age \in Nat /\ flows[k].bytes \in 0..MaxBytes
      BY <3>2
    <3>4. Older(flows[k].age, window(k)) \in Nat
      BY <3>2, <3>3 DEF Older
    <3> QED
      BY <3>2, <3>3, <3>4
  <2>2. self' \in [known : BOOLEAN, ips : SUBSET Movable, age : Nat] /\ moved' \in Nat
    BY <1>1, OlderNat, Numbers DEF IInv, TypeOK
  <2>3. quiet' \in [Conns -> Nat]
    BY <1>1, OlderNat, OfConn DEF IInv, TypeOK
  <2> QED
    BY <1>1, <2>1, <2>2, <2>3 DEF IInv, TypeOK
<1>4. EntriesCollected' /\ SelfKnown'
  <2>1. SelfKnown'
    BY <1>1, Numbers DEF IInv, TypeOK, SelfKnown, Older
  <2> QED
    BY <1>1, <2>1 DEF IInv, EntriesCollected
<1>5. ASSUME DistinctKeys PROVE Memory'
  <2>1. ASSUME NEW f \in Conns, Known(f)
        PROVE  Of(f)' = [bytes |-> Of(f).bytes, age |-> Older(Of(f).age, Window[f])] /\ Of(f).age \in Nat
    <3>1. window(Key[f]) = Window[f]
      BY OfConn
    <3> QED
      BY <1>2, <2>1, <3>1 DEF Known, Of
  <2>2. \A f \in Conns : Known(f)' <=> Known(f)
    BY <1>1 DEF Known
  <2>3. SynMemory'
    BY <1>1, <1>5, <2>2 DEF IInv, Memory, SynMemory
  <2>4. QuietMemory'
    <3>1. ASSUME NEW f \in Conns \ fresh', conn'[f].state = "live"
          PROVE  /\ Known(f)' /\ Of(f)'.bytes = conn'[f].bytes /\ quiet'[f] <= Of(f)'.age
                 /\ f \notin aliased' => Of(f)'.age <= quiet'[f]
      <4>1. /\ Known(f) /\ Of(f).bytes = conn[f].bytes /\ quiet[f] <= Of(f).age
            /\ f \notin aliased => Of(f).age <= quiet[f]
        BY <1>1, <1>5, <3>1 DEF IInv, Memory, QuietMemory
      <4>2. quiet'[f] = Older(quiet[f], Window[f]) /\ quiet[f] \in Nat /\ Window[f] \in Nat
        BY <1>1, <3>1, OfConn DEF IInv, TypeOK
      <4>3. /\ Of(f)'.age = Older(Of(f).age, Window[f]) /\ Of(f)'.bytes = Of(f).bytes /\ Of(f).age \in Nat
        BY <2>1, <4>1
      <4>4. quiet'[f] <= Of(f)'.age /\ (f \notin aliased => Of(f)'.age <= quiet'[f])
        BY <4>1, <4>2, <4>3 DEF Older
      <4> QED
        BY <1>1, <2>2, <4>1, <4>3, <4>4
    <3> QED
      BY <3>1 DEF QuietMemory
  <2>5. NewsMemory'
    <3>1. fresh \subseteq Conns
      BY DEF IInv, TypeOK
    <3> QED
      BY <1>1, <1>5, <2>1, <2>2, <3>1 DEF IInv, Memory, NewsMemory
  <2>6. Judged'
    BY <1>1, <1>5 DEF IInv, Memory, Judged
  <2> QED
    BY <2>3, <2>4, <2>5, <2>6 DEF Memory
<1> QED
  BY <1>3, <1>4, <1>5 DEF IInv, DistinctKeys

LEMMA RestartInv == ASSUME IInv, Restart PROVE IInv'
<1>1. /\ flows' = [k \in {} |-> 0] /\ DOMAIN flows' = {} /\ active' = NoAddrs /\ must' = NoAddrs /\ may' = NoAddrs
      /\ self' = [known |-> FALSE, ips |-> {}, age |-> 0] /\ fresh' = Entries
      /\ UNCHANGED <<conn, locals, on, quiet, aliased, tabled, moved>>
  BY DEF Restart, kernel
<1>2. TypeOK'
  BY <1>1 DEF IInv, TypeOK, NoAddrs, Entries
<1>3. EntriesCollected' /\ SelfKnown' /\ Memory'
  BY <1>1 DEF EntriesCollected, SelfKnown, Memory, SynMemory, QuietMemory, NewsMemory, Judged, Known, Entries
<1> QED
  BY <1>2, <1>3 DEF IInv

\* What is neither memory nor table leaves alone what the memory is worth.
LEMMA RestInv ==
    ASSUME IInv, TypeOK', SelfKnown', UNCHANGED <<conn, flows, active, fresh, quiet, aliased, tabled, must, may>>
    PROVE  IInv'
<1>1. \A f : (Known(f)' <=> Known(f)) /\ Of(f)' = Of(f)
  BY DEF Known, Of
<1> QED
  BY <1>1 DEF IInv, EntriesCollected, DistinctKeys, Memory, SynMemory, QuietMemory, NewsMemory, Judged

LEMMA NextInv == IInv /\ [Next]_vars => IInv'
<1> SUFFICES ASSUME IInv, [Next]_vars PROVE IInv'
  OBVIOUS
<1>t. on \in SUBSET Rules
  BY DEF IInv, TypeOK
<1>1. CASE RoundUsable
  BY <1>1, <1>t, UsableInv DEF RoundUsable
<1>2. CASE RoundFrozen
  BY <1>2, <1>t, FrozenInv DEF RoundFrozen
<1>3. CASE Call
  <2>1. PICK rules \in SUBSET Rules :
            /\ on' \in {on, rules}
            /\ SyncFrozen(rules) \/ \E kept \in Listings : SyncUsable(rules, kept)
    BY <1>3 DEF Call
  <2> QED
    BY <1>t, <2>1, UsableInv, FrozenInv
<1>4. CASE SyncFails
  <2>1. PICK readable \in BOOLEAN : SelfRead(readable)
    BY <1>4 DEF SyncFails
  <2>2. UNCHANGED <<conn, locals, on, flows, active, fresh, quiet, aliased, tabled, must, may>>
    BY <1>4 DEF SyncFails, kernel
  <2>3. SelfKnown' /\ self' \in [known : BOOLEAN, ips : SUBSET Movable, age : Nat] /\ moved' \in Nat
    BY <2>1, <2>2, SelfReadInv DEF IInv
  <2>4. TypeOK'
    BY <2>2, <2>3 DEF IInv, TypeOK
  <2> QED
    BY <2>2, <2>3, <2>4, RestInv
<1>5. CASE Traffic
  BY <1>5, TrafficInv DEF Traffic
<1>6. CASE Readdress
  <2>1. /\ locals' \subseteq Movable /\ moved' = 0
        /\ UNCHANGED <<conn, on, flows, self, active, fresh, quiet, aliased, tabled, must, may>>
    BY <1>6 DEF Readdress, memory
  <2>2. TypeOK' /\ SelfKnown'
    BY <2>1 DEF IInv, TypeOK, SelfKnown
  <2> QED
    BY <2>1, <2>2, RestInv
<1>7. CASE Tick
  BY <1>7, TickInv
<1>8. CASE Restart
  BY <1>8, RestartInv
<1>9. CASE UNCHANGED vars
  <2>1. TypeOK' /\ SelfKnown' /\ UNCHANGED <<conn, flows, active, fresh, quiet, aliased, tabled, must, may>>
    BY <1>9 DEF vars, kernel, memory, history, IInv, TypeOK, SelfKnown
  <2> QED
    BY <2>1, RestInv
<1> QED
  BY <1>1, <1>2, <1>3, <1>4, <1>5, <1>6, <1>7, <1>8, <1>9 DEF Next

LEMMA InitInv == Init => IInv
<1> SUFFICES ASSUME Init PROVE IInv
  OBVIOUS
<1>1. /\ conn = [f \in Conns |-> Absent] /\ DOMAIN flows = {} /\ fresh = {} /\ aliased = {} /\ tabled = {}
      /\ active = NoAddrs /\ must = NoAddrs /\ may = NoAddrs /\ quiet = [f \in Conns |-> 0]
      /\ self = [known |-> FALSE, ips |-> {}, age |-> 0] /\ moved = SelfTTL + 1 /\ locals = {} /\ on = Rules
  BY DEF Init
<1>2. TypeOK
  <2>1. Absent \in [state : States, bytes : 0..MaxBytes]
    BY Numbers DEF Absent, States
  <2> QED
    BY <1>1, <2>1, Numbers DEF TypeOK, NoAddrs
<1>3. EntriesCollected /\ SelfKnown /\ Memory
  BY <1>1 DEF EntriesCollected, SelfKnown, Memory, SynMemory, QuietMemory, NewsMemory, Judged, Absent
<1> QED
  BY <1>2, <1>3 DEF IInv

-----------------------------------------------------------------------------
THEOREM Invariance == Spec => []IInv
  BY InitInv, NextInv, PTL DEF Spec

\* Table, memory and history keep their types.
THEOREM TypeCorrect == Spec => []TypeOK
<1>1. IInv => TypeOK
  BY DEF IInv
<1> QED
  BY <1>1, Invariance, PTL

\* gcFlows keeps the memory as small as the table, through frozen rounds, failed
\* calls and restarts.
THEOREM Collected == Spec => []EntriesCollected
<1>1. IInv => EntriesCollected
  BY DEF IInv
<1> QED
  BY <1>1, Invariance, PTL

\* buildActiveCandidates finds every client with a flow that has carried something
\* within the window.
THEOREM BusyOnline == Spec => []BusyStaysOnline
<1>1. IInv => BusyStaysOnline
  BY DEF IInv, Memory, Judged, BusyStaysOnline
<1> QED
  BY <1>1, Invariance, PTL

\* It finds no client whose flows have all been silent for longer.
THEOREM IdleOffline == Spec => []IdleGoesOffline
<1>1. IInv => IdleGoesOffline
  BY DEF IInv, Memory, Judged, IdleGoesOffline
<1> QED
  BY <1>1, Invariance, PTL

\* selfIPSet: nor an address that the host has had for as long as a reading is kept.
THEOREM SelfExcluded == Spec => SelfIsNoClient
<1>1. ASSUME IInv, RoundUsable, moved' > SelfTTL, NEW r \in Rules PROVE active'[r] \cap locals = {}
  <2>1. PICK kept \in Listings, readable \in BOOLEAN :
            /\ SelfRead(readable)
            /\ active' = ActiveOf(on, LiveOf(Clients(kept, on, SelfIPs(readable).ips)))
    BY <1>1 DEF RoundUsable, SyncUsable
  <2>2. readable /\ moved' = moved
    BY <1>1, <2>1, Numbers DEF SelfRead
  <2>3. SelfIPs(readable).ips = locals
    BY <1>1, <2>2, Numbers DEF SelfIPs, Addresses, Expired, IInv, SelfKnown, TypeOK
  <2>4. \A f \in LiveOf(Clients(kept, on, locals)) : Src(f) \notin locals
    BY DEF LiveOf, Clients
  <2> QED
    BY <2>1, <2>3, <2>4 DEF ActiveOf
<1>2. IInv /\ [Next]_vars
      => [moved' > SelfTTL /\ (\E r \in Rules : active'[r] \cap locals # {}) => ~RoundUsable]_vars
  BY <1>1
<1> QED
  BY <1>2, Invariance, PTL DEF Spec, SelfIsNoClient
=============================================================================
