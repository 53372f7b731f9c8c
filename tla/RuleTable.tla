------------------------------ MODULE RuleTable ------------------------------
(***************************************************************************)
(* What the mutation service promises its callers and the users of the       *)
(* rules: a call changes one rule in table and kernel at once, or nothing;   *)
(* a refresh changes addresses only.  Locks, rows written ahead, syncs and    *)
(* rollbacks do not show.  Module RuleSvc implements it.                      *)
(***************************************************************************)
EXTENDS Naturals

CONSTANTS
    Ids, Hosts, Guarded,
    Demand(_)   \* what the kernel is to hold for a table

VARIABLES
    table,     \* a row for each ID: "free", "live" or "gone"
    kernel,    \* what the kernel holds
    trusted    \* FALSE from a failure that can only be logged to the next good sync

vars == <<table, kernel, trusted>>

Init ==
    /\ \A i \in Ids : table[i].st = "free"
    /\ kernel = Demand(table) /\ trusted = TRUE

-----------------------------------------------------------------------------
Only(i) == \A j \in Ids \ {i} : table'[j] = table[j]

\* A row takes sockets that are neither reserved nor any other rule's, and an
\* address that its own domain has had.
OwnSockets(i) ==
    /\ table'[i].listen \cap Guarded = {}
    /\ \A j \in Ids \ {i} : table[j].st = "live" => table[j].listen \cap table'[i].listen = {}
OwnAddress(i) == table'[i].target \in Hosts => table'[i].addr.host = table'[i].target

Create(i) ==
    /\ table[i].st = "free" /\ table'[i].st = "live"
    /\ OwnSockets(i) /\ OwnAddress(i) /\ Only(i)

\* An edit that leaves the target alone leaves the last good address alone.
Edit(i) ==
    /\ table[i].st = "live" /\ table'[i].st = "live"
    /\ OwnSockets(i) /\ OwnAddress(i) /\ Only(i)
    /\ table'[i].target = table[i].target => table'[i].addr = table[i].addr

Remove(i) == table[i].st = "live" /\ table'[i].st = "gone" /\ Only(i)

\* A Create that fails late has used up its ID.
Waste(i) == table[i].st = "free" /\ table'[i].st = "gone" /\ Only(i)

\* An answer changes the address of a rule on a domain, and no one's edit of it.
Refresh ==
    \A i \in Ids : \/ table'[i] = table[i]
                   \/ /\ table[i].st = "live" /\ table[i].target \in Hosts
                      /\ table'[i] = [table[i] EXCEPT !.addr = table'[i].addr]
                      /\ OwnAddress(i)

Change == Refresh \/ \E i \in Ids : Create(i) \/ Edit(i) \/ Remove(i) \/ Waste(i)

\* The kernel follows in the same step; without a change of the table it may be
\* disturbed, or put right.
Next == Change /\ (trusted' => kernel' = Demand(table'))

Spec == Init /\ [][Next]_vars
=============================================================================
