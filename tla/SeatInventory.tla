--------------------------- MODULE SeatInventory ----------------------------
(***************************************************************************)
(* What the booking system promises about a seat of a screening (a slot):  *)
(* it is free, held by one reservation, or booked by one reservation, and  *)
(* it changes hands only by becoming free first.  ReservationTable, and    *)
(* with it every service that goes through that table, implements this.    *)
(***************************************************************************)
CONSTANTS Ids, Slots, Free

VARIABLES
    owner,      \* owner[s]: the reservation that has slot s, or Free
    booked      \* the slots whose owner has paid

TypeOK ==
    /\ owner \in [Slots -> Ids \cup {Free}]
    /\ booked \in SUBSET {s \in Slots : owner[s] # Free}

Init ==
    /\ owner = [s \in Slots |-> Free]
    /\ booked = {}

Hold(s, r) ==
    /\ owner[s] = Free
    /\ owner' = [owner EXCEPT ![s] = r]
    /\ UNCHANGED booked

Book(s) ==
    /\ owner[s] # Free
    /\ booked' = booked \cup {s}
    /\ UNCHANGED owner

\* A payment that arrives after its hold was released books the seat if
\* nobody else has taken it.
Reinstate(s, r) ==
    /\ owner[s] = Free
    /\ owner' = [owner EXCEPT ![s] = r]
    /\ booked' = booked \cup {s}

\* Cancellation frees one slot, the expiry sweep frees several at once.
Release(S) ==
    /\ owner' = [s \in Slots |-> IF s \in S THEN Free ELSE owner[s]]
    /\ booked' = booked \ S

Next ==
    \/ \E S \in SUBSET Slots : Release(S)
    \/ \E s \in Slots : Book(s) \/ \E r \in Ids : Hold(s, r) \/ Reinstate(s, r)

Spec == Init /\ [][Next]_<<owner, booked>>

=============================================================================
