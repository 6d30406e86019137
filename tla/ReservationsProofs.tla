------------------------- MODULE ReservationsProofs -------------------------
(* Proofs about Reservations, for any number of calls, seats and limits.   *)
EXTENDS Reservations, ReservationTableProofs, FiniteSetTheorems

-----------------------------------------------------------------------------
(* Type correctness                                                        *)

\* The initial state has the right types.
LEMMA TypeInit == Init => TypeOK
BY TableTypeInit, TimeAssumption
DEF Init, TypeOK, Steps, InFlight, Deadlines

\* A deadline computed from the clock fits the heldUntil column.
LEMMA DeadlineLemma ==
    ASSUME TableTypeOK, NEW d \in 0 .. MaxHold
    PROVE  now + d \in Deadlines
BY TimeAssumption DEF TableTypeOK, Times, Deadlines

\* Every step of the service is a step of the table or leaves it alone.
LEMMA TableStep ==
    ASSUME TypeOK, [Next]_vars
    PROVE  [TableNext]_tableVars
<1>1. ASSUME NEW r \in Ids, CreateHold(r)
      PROVE  TableNext
    BY <1>1 DEF CreateHold, TableNext, TypeOK
<1>2. ASSUME NEW r \in Ids, ConfirmPayment(r) \/ DeclinePayment(r)
      PROVE  TableNext
    BY <1>2 DEF ConfirmPayment, DeclinePayment, TableNext
<1>3. ASSUME NEW r \in Ids, ExtendForCheckout(r)
      PROVE  TableNext
    <2>1. now + MaxHold \in Deadlines
        BY DeadlineLemma, TimeAssumption DEF TypeOK
    <2>2. QED
        BY <1>3, <2>1 DEF ExtendForCheckout, TableNext
<1>4. ASSUME NEW k \in Cancels, FinalizeCancel(k)
      PROVE  TableNext
    BY <1>4 DEF FinalizeCancel, TableNext, TypeOK
<1>5. CASE ExpireHolds \/ Clock
    BY <1>5 DEF ExpireHolds, Clock, TableNext
<1>6. ASSUME NEW r \in Ids,
             \/ FindScreening(r) \/ AdmitReserve(r) \/ LockSeat(r)
             \/ CheckSeat(r) \/ RejectUnknownSeat(r) \/ RejectTaken(r)
             \/ RejectByIndex(r) \/ ReleaseGuard(r) \/ RejectReserve(r)
             \/ FailTransaction(r) \/ BreakerTimesOut(r)
      PROVE  UNCHANGED tableVars
    BY <1>6 DEF BreakerTimesOut, FindScreening, AdmitReserve, Acquire,
       LockSeat, CheckSeat, RejectUnknownSeat, RejectTaken, RejectByIndex,
       ReleaseGuard, RejectReserve, FailTransaction, Rollback
<1>7. ASSUME NEW k \in Cancels, (\E r \in Ids : CancelRead(k, r)) \/ CancelFails(k)
      PROVE  UNCHANGED tableVars
    BY <1>7 DEF CancelRead, CancelFails
<1>8. ASSUME NEW x \in Screenings, CancelScreening(x)
      PROVE  UNCHANGED tableVars
    BY <1>8 DEF CancelScreening
<1>9. CASE UNCHANGED vars
    BY <1>9 DEF vars
<1>10. QED
    BY <1>1, <1>2, <1>3, <1>4, <1>5, <1>6, <1>7, <1>8, <1>9
    DEF Next, ReserveStep

CallTypeOK ==
    /\ pc \in [Ids -> Steps]
    /\ until \in [Ids -> Deadlines]
    /\ lock \in [Seats -> Ids \cup {NoOne}]
    /\ active \in Int
    /\ timedOut \subseteq Ids
    /\ scheduled \subseteq Screenings
    /\ target \in [Cancels -> Ids \cup {NoOne}]

\* Every step keeps the types.
LEMMA TypeStep ==
    ASSUME TypeOK, [Next]_vars
    PROVE  TypeOK'
<1>1. TableTypeOK'
    BY TableStep, TableTypeStep DEF TypeOK
<1>2. ASSUME NEW r \in Ids,
             \/ FindScreening(r) \/ LockSeat(r)
             \/ CheckSeat(r) \/ RejectUnknownSeat(r) \/ RejectTaken(r)
             \/ RejectByIndex(r) \/ ReleaseGuard(r) \/ RejectReserve(r)
             \/ FailTransaction(r) \/ CreateHold(r) \/ BreakerTimesOut(r)
      PROVE  CallTypeOK'
    BY <1>2 DEF BreakerTimesOut, FindScreening, LockSeat, CheckSeat,
       CreateHold, RejectUnknownSeat, RejectTaken, RejectByIndex,
       ReleaseGuard, RejectReserve, FailTransaction, Rollback, Goto, Unlocked,
       TypeOK, CallTypeOK, Steps, InFlight
<1>3. ASSUME NEW r \in Ids, AdmitReserve(r)
      PROVE  CallTypeOK'
    <2>1. now + HoldTime \in Deadlines
        BY DeadlineLemma, ReservationsAssumption, TimeAssumption DEF TypeOK
    <2>2. QED
        BY <1>3, <2>1 DEF AdmitReserve, Acquire, Goto, TypeOK, CallTypeOK,
           Steps, InFlight
<1>4. ASSUME NEW k \in Cancels,
             \/ \E r \in Ids : CancelRead(k, r)
             \/ FinalizeCancel(k) \/ CancelFails(k)
      PROVE  CallTypeOK'
    BY <1>4 DEF CancelRead, FinalizeCancel, CancelFails, TypeOK, CallTypeOK
<1>5. ASSUME NEW x \in Screenings, CancelScreening(x)
      PROVE  CallTypeOK'
    BY <1>5 DEF CancelScreening, TypeOK, CallTypeOK
<1>6. ASSUME UNCHANGED callVars
      PROVE  CallTypeOK'
    BY <1>6 DEF callVars, TypeOK, CallTypeOK
<1>7. CallTypeOK'
    BY <1>2, <1>3, <1>4, <1>5, <1>6
    DEF Next, ReserveStep, ConfirmPayment, ExtendForCheckout, DeclinePayment,
        ExpireHolds, Clock, vars
<1>8. QED
    BY <1>1, <1>7 DEF TypeOK, CallTypeOK

(***************************************************************************)
(* The service's variables keep their types.                               *)
(***************************************************************************)
THEOREM TypeCorrect == Spec => []TypeOK
BY TypeInit, TypeStep, PTL DEF Spec

(***************************************************************************)
(* The reserve pipeline, the cron and cancel touch the table only through  *)
(* the repository's statements: ReservationsService implements             *)
(* ReservationTable.                                                       *)
(***************************************************************************)
THEOREM ReservationsImplementTable == Spec => TableSpec
<1>1. Init => TableInit
    BY DEF Init
<1>2. QED
    BY <1>1, TypeCorrect, TableStep, PTL DEF Spec, TableSpec

(***************************************************************************)
(* No seat of a screening is ever sold twice by the reservations service.  *)
(***************************************************************************)
THEOREM ReservationsNoDoubleBooking == Spec => []NoDoubleBooking
BY ReservationsImplementTable, TableNoDoubleBooking, PTL

(***************************************************************************)
(* Every hold that reserve makes can be found by the sweep.                *)
(***************************************************************************)
THEOREM ReservationsHeldHasDeadline == Spec => []HeldHasDeadline
BY ReservationsImplementTable, TableHeldHasDeadline, PTL

(***************************************************************************)
(* Seen through who owns which seat, the whole of ReservationsService is   *)
(* the abstract seat inventory: seats are taken when free, booked by their *)
(* owner and given back, and nothing else happens to them.                 *)
(***************************************************************************)
THEOREM ReservationsImplementInventory == Spec => ImplementsInventory
BY ReservationsImplementTable, TableImplementsInventory

-----------------------------------------------------------------------------
(* The seat-row lock                                                       *)

LockInv == LocksBelongToTransactions /\ CheckStaysTrue

\* Calls that stay outside their transaction, or end it, keep the lock
\* discipline.
LEMMA UnlockLemma ==
    ASSUME TypeOK, LocksBelongToTransactions, NEW r \in Ids,
           NEW step \in Steps \ InTransaction,
           Goto(r, step), lock' = Unlocked(r)
    PROVE  LocksBelongToTransactions'
<1>1. \A q \in Ids : pc'[q] = IF q = r THEN step ELSE pc[q]
    BY DEF Goto, TypeOK
<1>2. \A s \in Seats : lock'[s] = IF lock[s] = r THEN NoOne ELSE lock[s]
    BY DEF Unlocked
<1>3. \A q \in Ids : Seat(q) \in Seats
    BY ReservationsAssumption, SlotAssumption DEF Seat
<1>4. r # NoOne
    BY ReservationsAssumption
<1>5. \A s \in Seats : lock'[s] # NoOne =>
            pc'[lock'[s]] \in InTransaction /\ Seat(lock'[s]) = s
    BY <1>1, <1>2, <1>4 DEF LocksBelongToTransactions, TypeOK
<1>6. \A q \in Ids : pc'[q] \in InTransaction => lock'[Seat(q)] = q
    BY <1>1, <1>2, <1>3 DEF LocksBelongToTransactions
<1>7. QED
    BY <1>5, <1>6 DEF LocksBelongToTransactions, Seat

\* A call that holds no lock has nothing to unlock.
LEMMA NoLockLemma ==
    ASSUME TypeOK, LocksBelongToTransactions, NEW r \in Ids,
           pc[r] \notin InTransaction
    PROVE  Unlocked(r) = lock
BY DEF Unlocked, LocksBelongToTransactions, TypeOK

\* Every step preserves the lock discipline.
LEMMA LocksStep ==
    ASSUME TypeOK, LocksBelongToTransactions, [Next]_vars
    PROVE  LocksBelongToTransactions'
<1>1. ASSUME NEW r \in Ids, FindScreening(r) \/ RejectReserve(r) \/ AdmitReserve(r)
      PROVE  LocksBelongToTransactions'
    <2>1. /\ pc[r] \notin InTransaction
          /\ lock' = lock
          /\ \E step \in Steps \ InTransaction : Goto(r, step)
        BY <1>1 DEF FindScreening, RejectReserve, AdmitReserve, Acquire,
           InTransaction, Steps, InFlight
    <2>2. QED
        BY <2>1, NoLockLemma, UnlockLemma
<1>2. ASSUME NEW r \in Ids, ReleaseGuard(r)
      PROVE  LocksBelongToTransactions'
    <2>1. /\ pc[r] \notin InTransaction
          /\ lock' = lock
          /\ \E step \in Steps \ InTransaction : Goto(r, step)
        BY <1>2 DEF ReleaseGuard, InTransaction, Steps, InFlight
    <2>2. QED
        BY <2>1, NoLockLemma, UnlockLemma
<1>3. ASSUME NEW r \in Ids,
             \/ CreateHold(r) \/ RejectUnknownSeat(r) \/ RejectTaken(r)
             \/ RejectByIndex(r) \/ FailTransaction(r)
      PROVE  LocksBelongToTransactions'
    <2>1. /\ lock' = Unlocked(r)
          /\ \E step \in Steps \ InTransaction : Goto(r, step)
        BY <1>3 DEF CreateHold, RejectUnknownSeat, RejectTaken, RejectByIndex,
           FailTransaction, Rollback, InTransaction, Steps, InFlight
    <2>2. QED
        BY <2>1, UnlockLemma
<1>4. ASSUME NEW r \in Ids, LockSeat(r)
      PROVE  LocksBelongToTransactions'
    <2>1. /\ \A q \in Ids : pc'[q] = IF q = r THEN "locked" ELSE pc[q]
          /\ \A s \in Seats : lock'[s] = IF s = Seat(r) THEN r ELSE lock[s]
          /\ pc[r] = "admitted" /\ lock[Seat(r)] = NoOne
        BY <1>4 DEF LockSeat, Goto, TypeOK
    <2>2. \A q \in Ids : Seat(q) \in Seats
        BY ReservationsAssumption, SlotAssumption DEF Seat
    <2>3. \A q \in Ids : Seat(q)' = Seat(q)
        BY DEF Seat
    <2>4. \A q \in Ids : q # NoOne
        BY ReservationsAssumption
    <2>5. QED
        BY <2>1, <2>2, <2>3, <2>4
        DEF LocksBelongToTransactions, TypeOK, InTransaction
<1>5. ASSUME NEW r \in Ids, CheckSeat(r)
      PROVE  LocksBelongToTransactions'
    <2>1. /\ \A q \in Ids : pc'[q] = IF q = r THEN "checked" ELSE pc[q]
          /\ lock' = lock /\ pc[r] = "locked"
        BY <1>5 DEF CheckSeat, Goto, TypeOK
    <2>2. \A q \in Ids : Seat(q)' = Seat(q)
        BY DEF Seat
    <2>3. QED
        BY <2>1, <2>2 DEF LocksBelongToTransactions, TypeOK, InTransaction
<1>6. ASSUME UNCHANGED <<pc, lock>>
      PROVE  LocksBelongToTransactions'
    BY <1>6 DEF LocksBelongToTransactions, Seat
<1>7. /\ \A k \in Cancels :
            \/ \E r \in Ids : CancelRead(k, r)
            \/ FinalizeCancel(k) \/ CancelFails(k)
            => UNCHANGED <<pc, lock>>
      /\ \A r \in Ids : BreakerTimesOut(r) => UNCHANGED <<pc, lock>>
    BY DEF CancelRead, FinalizeCancel, CancelFails, BreakerTimesOut
<1>8. ASSUME UNCHANGED callVars
      PROVE  UNCHANGED <<pc, lock>>
    BY <1>8 DEF callVars
<1>9. QED
    BY <1>1, <1>2, <1>3, <1>4, <1>5, <1>6, <1>7, <1>8
    DEF Next, ReserveStep, ConfirmPayment, ExtendForCheckout, DeclinePayment,
        ExpireHolds, Clock, CancelScreening, vars

\* Only the owner of the seat row can insert a HELD row for one of its slots.
LEMMA CheckStep ==
    ASSUME TypeOK, LocksBelongToTransactions, CheckStaysTrue, [Next]_vars
    PROVE  CheckStaysTrue'
<1> SUFFICES ASSUME NEW r \in Ids, NEW q \in Ids,
                    pc'[r] = "checked", SlotOf[q] = SlotOf[r],
                    status'[q] = "HELD"
             PROVE  FALSE
    BY DEF CheckStaysTrue
<1>1. ASSUME NEW p \in Ids, CheckSeat(p)
      PROVE  FALSE
    <2>1. /\ status' = status
          /\ \A x \in Ids : pc'[x] = IF x = p THEN "checked" ELSE pc[x]
          /\ ~ SeatTaken(p)
        BY <1>1 DEF CheckSeat, Goto, TypeOK, tableVars
    <2>2. QED
        BY <2>1 DEF CheckStaysTrue, SeatTaken, Active
<1>2. ASSUME NEW p \in Ids, CreateHold(p)
      PROVE  FALSE
    <2>1. /\ \A x \in Ids : pc'[x] = IF x = p THEN "committed" ELSE pc[x]
          /\ \A x \in Ids : status'[x] = IF x = p THEN "HELD" ELSE status[x]
          /\ pc[p] = "checked"
        BY <1>2 DEF CreateHold, InsertHeld, Goto, TypeOK, TableTypeOK
    <2>2. r # p /\ pc[r] = "checked"
        BY <2>1
    <2>3. q = p
        BY <2>1, <2>2 DEF CheckStaysTrue
    <2>4. lock[Seat(r)] = r /\ lock[Seat(p)] = p
        BY <2>1, <2>2 DEF LocksBelongToTransactions, InTransaction
    <2>5. QED
        BY <2>2, <2>3, <2>4 DEF Seat
<1>3. ASSUME pc' = pc, status'[q] = "HELD" => status[q] = "HELD"
      PROVE  FALSE
    BY <1>3 DEF CheckStaysTrue
<1>4. ASSUME NEW p \in Ids,
             \/ FindScreening(p) \/ AdmitReserve(p) \/ LockSeat(p)
             \/ RejectUnknownSeat(p) \/ RejectTaken(p) \/ RejectByIndex(p)
             \/ ReleaseGuard(p) \/ RejectReserve(p) \/ FailTransaction(p)
      PROVE  FALSE
    <2>1. /\ status' = status
          /\ \E step \in Steps : step # "checked" /\ Goto(p, step)
        BY <1>4 DEF FindScreening, AdmitReserve, Acquire, LockSeat,
           RejectUnknownSeat, RejectTaken, RejectByIndex, ReleaseGuard,
           RejectReserve, FailTransaction, Rollback, tableVars, Steps,
           InFlight
    <2>2. pc[r] = "checked"
        BY <2>1 DEF Goto, TypeOK
    <2>3. QED
        BY <2>1, <2>2 DEF CheckStaysTrue
<1>5. ASSUME NEW k \in Cancels,
             \/ \E x \in Ids : CancelRead(k, x)
             \/ FinalizeCancel(k) \/ CancelFails(k)
      PROVE  FALSE
    <2>1. pc' = pc /\ (status'[q] = "HELD" => status[q] = "HELD")
        BY <1>5 DEF CancelRead, FinalizeCancel, CancelFails, SetCancelled,
           tableVars, TypeOK, TableTypeOK
    <2>2. QED
        BY <2>1, <1>3
<1>6. ASSUME NEW p \in Ids,
             ConfirmPayment(p) \/ ExtendForCheckout(p) \/ DeclinePayment(p)
      PROVE  FALSE
    <2>1. pc' = pc /\ (status'[q] = "HELD" => status[q] = "HELD")
        BY <1>6 DEF ConfirmPayment, ExtendForCheckout, DeclinePayment, Confirm,
           ExtendHold, SetCancelled, callVars, TypeOK, TableTypeOK
    <2>2. QED
        BY <2>1, <1>3
<1>7. CASE ExpireHolds \/ Clock
    <2>1. pc' = pc /\ (status'[q] = "HELD" => status[q] = "HELD")
        BY <1>7 DEF ExpireHolds, Clock, ReleaseExpiredHolds, Tick, callVars,
           ExpiredHolds, TypeOK, TableTypeOK
    <2>2. QED
        BY <2>1, <1>3
<1>8. ASSUME NEW x \in Screenings, CancelScreening(x)
      PROVE  FALSE
    BY <1>3, <1>8 DEF CancelScreening, tableVars
<1>9. ASSUME NEW p \in Ids, BreakerTimesOut(p)
      PROVE  FALSE
    BY <1>3, <1>9 DEF BreakerTimesOut, tableVars
<1>10. CASE UNCHANGED vars
    BY <1>3, <1>10 DEF vars, tableVars, callVars
<1>11. QED
    BY <1>1, <1>2, <1>4, <1>5, <1>6, <1>7, <1>8, <1>9, <1>10
    DEF Next, ReserveStep

(***************************************************************************)
(* A seat-row lock belongs to exactly the transaction that took it, and    *)
(* between the existence check and the insert of a reserve call no other   *)
(* call can hold the same seat: a P2002 at the insert is always the work   *)
(* of a late payment.                                                      *)
(***************************************************************************)
THEOREM LockDiscipline ==
    Spec => [](LocksBelongToTransactions /\ CheckStaysTrue)
<1>1. Init => LockInv
    BY DEF Init, LockInv, LocksBelongToTransactions, CheckStaysTrue,
       InTransaction
<1>2. ASSUME TypeOK, LockInv, [Next]_vars
      PROVE  LockInv'
    BY <1>2, LocksStep, CheckStep DEF LockInv
<1>3. QED
    BY <1>1, <1>2, TypeCorrect, PTL DEF Spec, LockInv

(***************************************************************************)
(* Only a transaction that is still running owns a seat row, so nobody     *)
(* waits for a lock that no one will release.                              *)
(***************************************************************************)
THEOREM LocksHaveOwners == Spec => []LocksBelongToTransactions
BY LockDiscipline, PTL

-----------------------------------------------------------------------------
(* The concurrency guard                                                   *)

\* The calls that hold a guard unit can be counted.
LEMMA AdmittedFinite == IsFiniteSet(Admitted) /\ Cardinality(Admitted) \in Nat
<1>1. Admitted \in SUBSET Ids
    BY DEF Admitted
<1>2. IsFiniteSet(Admitted)
    BY <1>1, FS_Subset, ReservationsAssumption
<1>3. QED
    BY <1>2, FS_CardinalityType

\* Only a call in flight can be one the breaker gave up on.
TimedOutInFlight == \A r \in timedOut : pc[r] \in InFlight

GuardInv == GuardCountsCalls /\ TimedOutInFlight

\* Every step preserves the count of the guard.
LEMMA GuardStep ==
    ASSUME TypeOK, GuardInv, [Next]_vars
    PROVE  GuardInv'
<1> USE DEF GuardInv, GuardCountsCalls, TimedOutInFlight
<1>1. ASSUME NEW r \in Ids, AdmitReserve(r)
      PROVE  GuardInv'
    <2>1. /\ Admitted' = Admitted \cup {r} /\ r \notin Admitted
          /\ TimedOutInFlight'
        BY <1>1 DEF AdmitReserve, Acquire, Goto, Admitted, InFlight, TypeOK
    <2>2. Cardinality(Admitted') = Cardinality(Admitted) + 1
        BY <2>1, AdmittedFinite, FS_AddElement
    <2>3. active' = active + 1 /\ active < MaxActive
        BY <1>1 DEF AdmitReserve, Acquire
    <2>4. QED
        BY <2>1, <2>2, <2>3, AdmittedFinite, ReservationsAssumption
<1>2. ASSUME NEW r \in Ids,
             BreakerTimesOut(r) \/ (ReleaseGuard(r) /\ r \notin timedOut)
      PROVE  GuardInv'
    <2>1. /\ Admitted' = Admitted \ {r} /\ r \in Admitted
          /\ TimedOutInFlight'
        BY <1>2 DEF BreakerTimesOut, ReleaseGuard, Goto, Admitted, InFlight,
           TypeOK
    <2>2. Cardinality(Admitted') = Cardinality(Admitted) - 1
        BY <2>1, AdmittedFinite, FS_RemoveElement
    <2>3. active' = active - 1
        BY <1>2 DEF BreakerTimesOut, ReleaseGuard
    <2>4. QED
        BY <2>1, <2>2, <2>3, AdmittedFinite, ReservationsAssumption
<1>3. ASSUME Admitted' = Admitted, active' = active, TimedOutInFlight'
      PROVE  GuardInv'
    BY <1>3
<1>4. ASSUME NEW r \in Ids,
             \/ FindScreening(r) \/ RejectReserve(r)
             \/ ReleaseGuard(r) /\ r \in timedOut
      PROVE  GuardInv'
    <2>1. Admitted' = Admitted /\ active' = active /\ TimedOutInFlight'
        BY <1>4 DEF FindScreening, RejectReserve, ReleaseGuard, Goto, Admitted,
           InFlight, TypeOK
    <2>2. QED
        BY <2>1, <1>3
<1>5. ASSUME NEW r \in Ids,
             \/ LockSeat(r) \/ CheckSeat(r) \/ CreateHold(r)
             \/ RejectUnknownSeat(r) \/ RejectTaken(r) \/ RejectByIndex(r)
             \/ FailTransaction(r)
      PROVE  GuardInv'
    <2>1. /\ pc[r] \in InFlight
          /\ \E step \in InFlight : Goto(r, step)
          /\ active' = active /\ timedOut' = timedOut
        BY <1>5 DEF LockSeat, CheckSeat, CreateHold, RejectUnknownSeat,
           RejectTaken, RejectByIndex, FailTransaction, Rollback, InFlight
    <2>2. Admitted' = Admitted /\ TimedOutInFlight'
        BY <2>1 DEF Goto, Admitted, TypeOK
    <2>3. QED
        BY <2>1, <2>2, <1>3
<1>6. ASSUME UNCHANGED <<pc, active, timedOut>>
      PROVE  GuardInv'
    BY <1>6, <1>3 DEF Admitted
<1>7. ASSUME NEW k \in Cancels,
             \/ \E r \in Ids : CancelRead(k, r)
             \/ FinalizeCancel(k) \/ CancelFails(k)
      PROVE  UNCHANGED <<pc, active, timedOut>>
    BY <1>7 DEF CancelRead, FinalizeCancel, CancelFails
<1>8. ASSUME UNCHANGED callVars
      PROVE  UNCHANGED <<pc, active, timedOut>>
    BY <1>8 DEF callVars
<1>9. QED
    BY <1>1, <1>2, <1>4, <1>5, <1>6, <1>7, <1>8
    DEF Next, ReserveStep, ConfirmPayment, ExtendForCheckout, DeclinePayment,
        ExpireHolds, Clock, CancelScreening, vars

(***************************************************************************)
(* The concurrency guard never leaks and never over-admits: its counter is *)
(* the number of calls between acquire and release, at most the limit.     *)
(***************************************************************************)
THEOREM GuardCorrect == Spec => []GuardCountsCalls
<1>1. Init => GuardInv
    <2> SUFFICES ASSUME Init PROVE GuardInv
        OBVIOUS
    <2>1. Admitted = {}
        BY DEF Init, Admitted, InFlight
    <2>2. QED
        BY <2>1, FS_EmptySet, ReservationsAssumption
        DEF Init, GuardInv, GuardCountsCalls, TimedOutInFlight
<1>2. QED
    BY <1>1, TypeCorrect, GuardStep, PTL DEF Spec, GuardInv

=============================================================================
