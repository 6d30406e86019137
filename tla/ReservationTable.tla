-------------------------- MODULE ReservationTable --------------------------
(***************************************************************************)
(* The "reservation" table as ReservationsRepository sees it: the status   *)
(* and heldUntil columns of every row, the partial unique index on         *)
(* (seatId, screeningId) WHERE status IN ('HELD', 'CONFIRMED'), and the    *)
(* clock that heldUntil is compared with.  Every action is one committed   *)
(* SQL statement.  Services that touch the table extend this module and    *)
(* conjoin their own control state to these actions; taken alone, the      *)
(* specification lets any caller issue any statement at any time.          *)
(***************************************************************************)
EXTENDS Naturals

CONSTANTS
    Ids,        \* reservation ids the table may ever hold
    Slots,      \* (screening, seat) pairs
    SlotOf,     \* the pair each reservation is for; never updated by the code
    NULL,       \* SQL NULL
    MaxHold,    \* how far ahead of the clock a deadline may be set, in ticks
    MaxTime     \* bound: the clock stops here

ASSUME SlotAssumption == SlotOf \in [Ids -> Slots]
ASSUME NullAssumption == NULL \notin Nat \cup Ids
ASSUME TimeAssumption == MaxHold \in Nat /\ MaxTime \in Nat

VARIABLES
    now,        \* the server's clock
    status,     \* status column; "NONE" while the row has not been inserted
    heldUntil   \* heldUntil column

tableVars == <<now, status, heldUntil>>

-----------------------------------------------------------------------------
Status == {"NONE", "HELD", "CONFIRMED", "CANCELLED"}
Active == {"HELD", "CONFIRMED"}

Times == 0 .. MaxTime
Deadlines == 0 .. (MaxTime + MaxHold)

TableTypeOK ==
    /\ now \in Times
    /\ status \in [Ids -> Status]
    /\ heldUntil \in [Ids -> Deadlines \cup {NULL}]

\* Rows other than r that occupy r's seat in r's screening.
Rivals(r) == {q \in Ids \ {r} : SlotOf[q] = SlotOf[r] /\ status[q] \in Active}

\* The partial unique index accepts r as an active row (otherwise P2002).
IndexAdmits(r) == Rivals(r) = {}

ExpiredHolds ==
    {r \in Ids : /\ status[r] = "HELD"
                 /\ heldUntil[r] # NULL
                 /\ heldUntil[r] < now}

-----------------------------------------------------------------------------
TableInit ==
    /\ now = 0
    /\ status = [r \in Ids |-> "NONE"]
    /\ heldUntil = [r \in Ids |-> NULL]

Tick ==
    /\ now < MaxTime
    /\ now' = now + 1
    /\ UNCHANGED <<status, heldUntil>>

\* Mutant: the row is inserted without its deadline.
InsertHeldForever(r, until) ==
    /\ status[r] = "NONE"
    /\ IndexAdmits(r)
    /\ status' = [status EXCEPT ![r] = "HELD"]
    /\ UNCHANGED <<now, heldUntil>>

\* tx.reservation.create and the commit of its transaction.
InsertHeld(r, until) ==
    /\ status[r] = "NONE"
    /\ IndexAdmits(r)
    /\ status' = [status EXCEPT ![r] = "HELD"]
    /\ heldUntil' = [heldUntil EXCEPT ![r] = until]
    /\ UNCHANGED now

\* Mutant: an absolute deadline is taken for a duration.
ExtendHoldRelative(r, until) ==
    /\ status[r] # "NONE"
    /\ heldUntil' = [heldUntil EXCEPT ![r] = now + until]
    /\ UNCHANGED <<now, status>>

\* Mutant: the extension also puts the row back to HELD.
ExtendHoldRestores(r, until) ==
    /\ status[r] # "NONE"
    /\ IndexAdmits(r)
    /\ status' = [status EXCEPT ![r] = "HELD"]
    /\ heldUntil' = [heldUntil EXCEPT ![r] = until]
    /\ UNCHANGED now

\* The update has no condition on the current status.
ExtendHold(r, until) ==
    /\ status[r] # "NONE"
    /\ heldUntil' = [heldUntil EXCEPT ![r] = until]
    /\ UNCHANGED <<now, status>>

\* Mutant: the partial unique index is gone.
ConfirmUnindexed(r) ==
    /\ status[r] # "NONE"
    /\ status' = [status EXCEPT ![r] = "CONFIRMED"]
    /\ heldUntil' = [heldUntil EXCEPT ![r] = NULL]
    /\ UNCHANGED now

\* Neither has this one: only the index can refuse it.
Confirm(r) ==
    /\ status[r] # "NONE"
    /\ IndexAdmits(r)
    /\ status' = [status EXCEPT ![r] = "CONFIRMED"]
    /\ heldUntil' = [heldUntil EXCEPT ![r] = NULL]
    /\ UNCHANGED now

\* setStatus(id, CANCELLED): heldUntil keeps its value.
SetCancelled(r) ==
    /\ status[r] # "NONE"
    /\ status' = [status EXCEPT ![r] = "CANCELLED"]
    /\ UNCHANGED <<now, heldUntil>>

\* Mutant: the sweep waits one tick longer than the deadline.
ReleaseLate ==
    LET overdue == {r \in ExpiredHolds : heldUntil[r] + 1 < now} IN
    /\ overdue # {}
    /\ status' = [r \in Ids |->
                    IF r \in overdue THEN "CANCELLED" ELSE status[r]]
    /\ heldUntil' = [r \in Ids |->
                    IF r \in overdue THEN NULL ELSE heldUntil[r]]
    /\ UNCHANGED now

\* One UPDATE ... RETURNING, atomic over all rows.
ReleaseExpiredHolds ==
    /\ ExpiredHolds # {}
    /\ status' = [r \in Ids |->
                    IF r \in ExpiredHolds THEN "CANCELLED" ELSE status[r]]
    /\ heldUntil' = [r \in Ids |->
                    IF r \in ExpiredHolds THEN NULL ELSE heldUntil[r]]
    /\ UNCHANGED now

TableNext ==
    \/ Tick
    \/ ReleaseExpiredHolds
    \/ \E r \in Ids :
        \/ Confirm(r)
        \/ SetCancelled(r)
        \/ \E until \in Deadlines : InsertHeld(r, until) \/ ExtendHold(r, until)

TableSpec == TableInit /\ [][TableNext]_tableVars

-----------------------------------------------------------------------------
(***************************************************************************)
(* No two active reservations share a seat of a screening, whatever mix of *)
(* holds, sweeps, cancellations and (possibly late) confirmations runs.    *)
(* Only the partial unique index stands behind Confirm, which has no       *)
(* status check of its own.                                                *)
(***************************************************************************)
NoDoubleBooking ==
    \A r, q \in Ids :
        /\ SlotOf[r] = SlotOf[q]
        /\ status[r] \in Active
        /\ status[q] \in Active
        => r = q

(***************************************************************************)
(* Every HELD row has a deadline.  A HELD row whose heldUntil is NULL      *)
(* would never match the sweep's WHERE clause and would block its seat     *)
(* for ever.                                                               *)
(***************************************************************************)
HeldHasDeadline ==
    \A r \in Ids : status[r] = "HELD" => heldUntil[r] # NULL

-----------------------------------------------------------------------------
(* Refinement of SeatInventory                                             *)

Owners(s) == {r \in Ids : SlotOf[r] = s /\ status[r] \in Active}

OwnerOf(s) ==
    IF Owners(s) = {} THEN NULL ELSE CHOOSE r \in Owners(s) : TRUE

Owner == [s \in Slots |-> OwnerOf(s)]

Booked == {s \in Slots : \E r \in Owners(s) : status[r] = "CONFIRMED"}

Inventory == INSTANCE SeatInventory
                WITH owner <- Owner, booked <- Booked, Free <- NULL

(***************************************************************************)
(* Every statement the repository issues is a step of the abstract         *)
(* inventory: a seat is never handed from one reservation to another       *)
(* without becoming free, and a booked seat never drops back to held.      *)
(***************************************************************************)
ImplementsInventory == Inventory!Spec

=============================================================================
