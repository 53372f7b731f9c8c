----------------------------- MODULE Admission ------------------------------
(***************************************************************************)
(* What the admission of clients to a rule promises to the sync around it:   *)
(* a round takes a listing of conntrack and the limit, and leaves a set of    *)
(* slots that fits both, whatever order it hands them out in.  Module IPSlot *)
(* implements it; module EnforceSync relies on it.                           *)
(***************************************************************************)
EXTENDS SlotContract

CONSTANTS IPs, Limits

VARIABLES
    slots,     \* the addresses admitted
    listing,   \* those the listing of the round in progress shows
    max,       \* the limit of the round in progress, or of the latest one
    deciding   \* is a round in progress?

vars == <<slots, listing, max, deciding>>

Init == slots = {} /\ listing = {} /\ max \in Limits /\ deciding = FALSE

Read ==
    /\ ~deciding /\ deciding' = TRUE
    /\ listing' \in SUBSET IPs /\ max' \in Limits
    /\ UNCHANGED slots

Decide ==
    /\ deciding /\ deciding' = FALSE
    /\ slots' \in Admitted(slots, listing, max)
    /\ listing' = {} /\ UNCHANGED max

\* The rule is disabled or deleted, or the process restarts.
Forget == ~deciding /\ slots' = {} /\ UNCHANGED <<listing, max, deciding>>

Next == Read \/ Decide \/ Forget
Spec == Init /\ [][Next]_vars
=============================================================================
