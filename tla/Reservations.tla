---------------------------- MODULE Reservations ----------------------------
(***************************************************************************)
(* ReservationsService: concurrent reserve calls through the concurrency   *)
(* guard, the circuit breaker and the seat-locking transaction; the        *)
(* hold-expiry cron; cancel calls that act on a status read earlier; and   *)
(* the statements PaymentsService issues through this service.             *)
(*                                                                         *)
(* A reserve call creates at most one row, so a call and the row it        *)
(* creates share one identifier r \in Ids.                                 *)
(***************************************************************************)
EXTENDS ReservationTable, Integers, FiniteSets

CONSTANTS
    Seats,          \* seat rows; FOR UPDATE locks one of these
    Screenings,
    SeatIn,         \* SeatIn[s]: the seat of slot s
    ScreeningIn,    \* ScreeningIn[s]: the screening of slot s
    HallSeats,      \* HallSeats[x]: seats of the hall of screening x
    StartTime,      \* StartTime[x]: when screening x starts
    HoldTime,       \* HOLD_MINUTES, in ticks
    MaxActive,      \* CONCURRENCY_LIMIT
    Cancels,        \* cancel calls that may be in flight together
    NoOne           \* a free lock

ASSUME ReservationsAssumption ==
    /\ SeatIn \in [Slots -> Seats]
    /\ ScreeningIn \in [Slots -> Screenings]
    /\ HallSeats \in [Screenings -> SUBSET Seats]
    /\ StartTime \in [Screenings -> Nat]
    /\ HoldTime \in 1 .. MaxHold
    /\ MaxActive \in Nat \ {0}
    /\ NoOne \notin Ids
    /\ IsFiniteSet(Ids)

VARIABLES
    pc,         \* where each reserve call is
    until,      \* the heldUntil each call computed before it was admitted
    lock,       \* lock[s]: the transaction that holds seat row s FOR UPDATE
    active,     \* ConcurrencyGuard.active
    timedOut,   \* calls the breaker has answered, transaction still running
    scheduled,  \* screenings whose status is SCHEDULED
    target      \* target[k]: the row that cancel call k has decided to cancel

callVars == <<pc, until, lock, active, timedOut, scheduled, target>>
vars == <<tableVars, callVars>>

Seat(r) == SeatIn[SlotOf[r]]
Screening(r) == ScreeningIn[SlotOf[r]]

InTransaction == {"locked", "checked"}
InFlight == {"admitted", "locked", "checked", "committed", "aborted"}
Steps == InFlight \cup {"new", "screened", "done"}

TypeOK ==
    /\ TableTypeOK
    /\ pc \in [Ids -> Steps]
    /\ until \in [Ids -> Deadlines]
    /\ lock \in [Seats -> Ids \cup {NoOne}]
    /\ active \in Int
    /\ timedOut \subseteq Ids
    /\ scheduled \subseteq Screenings
    /\ target \in [Cancels -> Ids \cup {NoOne}]

Init ==
    /\ TableInit
    /\ pc = [r \in Ids |-> "new"]
    /\ until = [r \in Ids |-> 0]
    /\ lock = [s \in Seats |-> NoOne]
    /\ active = 0
    /\ timedOut = {}
    /\ scheduled = Screenings
    /\ target = [k \in Cancels |-> NoOne]

Goto(r, step) == pc' = [pc EXCEPT ![r] = step]

-----------------------------------------------------------------------------
(* reserve: checks made before the call is admitted                        *)

\* isLockedOut said no and findById returned a SCHEDULED screening; the
\* answer is used after later awaits.
FindScreening(r) ==
    /\ pc[r] = "new"
    /\ Screening(r) \in scheduled
    /\ Goto(r, "screened")
    /\ UNCHANGED <<tableVars, until, lock, active, timedOut, scheduled, target>>

\* 403 for a locked-out user (the answer of PaymentAbuseService is an input
\* here), 404 for a screening that is not scheduled, 400 for one that has
\* started, 503 when the guard is full.
RejectReserve(r) ==
    /\ \/ pc[r] = "new"
       \/ /\ pc[r] = "screened"
          /\ StartTime[Screening(r)] <= now \/ active >= MaxActive
    /\ Goto(r, "done")
    /\ UNCHANGED <<tableVars, until, lock, active, timedOut, scheduled, target>>

\* ConcurrencyGuard.acquire: check and increment without an await between.
Acquire ==
    /\ active < MaxActive
    /\ active' = active + 1

\* The start-time check, the computation of heldUntil and acquire run in
\* one turn of the event loop.
AdmitReserve(r) ==
    /\ pc[r] = "screened"
    /\ StartTime[Screening(r)] > now
    /\ Acquire
    /\ until' = [until EXCEPT ![r] = now + HoldTime]
    /\ Goto(r, "admitted")
    /\ UNCHANGED <<tableVars, lock, timedOut, scheduled, target>>

-----------------------------------------------------------------------------
(* reserve: ReservationBreaker.holdSeat and the transaction it runs        *)

\* Mutant: the transaction does not wait for the row.
LockSeatAtOnce(r) ==
    /\ pc[r] = "admitted"
    /\ Seat(r) \in HallSeats[Screening(r)]
    /\ lock' = [lock EXCEPT ![Seat(r)] = r]
    /\ Goto(r, "locked")
    /\ UNCHANGED <<tableVars, until, active, timedOut, scheduled, target>>

\* SELECT ... FOR UPDATE waits until no other transaction holds the row.
LockSeat(r) ==
    /\ pc[r] = "admitted"
    /\ Seat(r) \in HallSeats[Screening(r)]
    /\ lock[Seat(r)] = NoOne
    /\ lock' = [lock EXCEPT ![Seat(r)] = r]
    /\ Goto(r, "locked")
    /\ UNCHANGED <<tableVars, until, active, timedOut, scheduled, target>>

\* READ COMMITTED: the query sees every row committed before it runs.
SeatTaken(r) ==
    \E q \in Ids : SlotOf[q] = SlotOf[r] /\ status[q] \in Active

CheckSeat(r) ==
    /\ pc[r] = "locked"
    /\ ~ SeatTaken(r)
    /\ Goto(r, "checked")
    /\ UNCHANGED <<tableVars, until, lock, active, timedOut, scheduled, target>>

\* Mutant: the connection goes back to the pool with its transaction open.
StillLocked(r) == lock

Unlocked(r) ==
    [s \in Seats |-> IF lock[s] = r THEN NoOne ELSE lock[s]]

CreateHold(r) ==
    /\ pc[r] = "checked"
    /\ InsertHeld(r, until[r])
    /\ lock' = Unlocked(r)
    /\ Goto(r, "committed")
    /\ UNCHANGED <<until, active, timedOut, scheduled, target>>

Rollback(r) ==
    /\ lock' = Unlocked(r)
    /\ Goto(r, "aborted")
    /\ UNCHANGED <<tableVars, until, active, timedOut, scheduled, target>>

\* 400: the seat is not in the screening's hall.
RejectUnknownSeat(r) ==
    /\ pc[r] = "admitted"
    /\ Seat(r) \notin HallSeats[Screening(r)]
    /\ Rollback(r)

\* 409 from the existence check.
RejectTaken(r) ==
    /\ pc[r] = "locked"
    /\ SeatTaken(r)
    /\ Rollback(r)

\* 409 from the unique index (P2002).
RejectByIndex(r) ==
    /\ pc[r] = "checked"
    /\ ~ IndexAdmits(r)
    /\ Rollback(r)

\* 503 or 500: the breaker is open, a Prisma timeout fires, or the database
\* fails; the server rolls the transaction back.
FailTransaction(r) ==
    /\ pc[r] \in {"admitted", "locked", "checked"}
    /\ Rollback(r)

\* opossum's default timeout: fire() rejects, the caller gets its 503 and the
\* finally block releases the guard, while the transaction runs on and may
\* still commit.
BreakerTimesOut(r) ==
    /\ pc[r] \in {"admitted", "locked", "checked"}
    /\ r \notin timedOut
    /\ timedOut' = timedOut \cup {r}
    /\ active' = active - 1
    /\ UNCHANGED <<tableVars, pc, until, lock, scheduled, target>>

\* Mutant: release() is called after the hold instead of in a finally block.
ReleaseOnSuccess(r) ==
    /\ pc[r] \in {"committed", "aborted"}
    /\ active' = IF pc[r] = "aborted" \/ r \in timedOut THEN active
                                                       ELSE active - 1
    /\ timedOut' = timedOut \ {r}
    /\ Goto(r, "done")
    /\ UNCHANGED <<tableVars, until, lock, scheduled, target>>

\* The finally block: release the guard, then answer the caller.  The
\* outcome of a transaction that the breaker gave up on goes nowhere.
ReleaseGuard(r) ==
    /\ pc[r] \in {"committed", "aborted"}
    /\ active' = IF r \in timedOut THEN active ELSE active - 1
    /\ timedOut' = timedOut \ {r}
    /\ Goto(r, "done")
    /\ UNCHANGED <<tableVars, until, lock, scheduled, target>>

-----------------------------------------------------------------------------
(* cancel                                                                  *)

\* The status is read here and acted on in a later step.  A CONFIRMED row
\* goes through PaymentsService.refundReservation, which ends in
\* finalizeCancel or in an error.
CancelRead(k, r) ==
    /\ target[k] = NoOne
    /\ status[r] \in {"HELD", "CONFIRMED"}
    /\ target' = [target EXCEPT ![k] = r]
    /\ UNCHANGED <<tableVars, pc, until, lock, active, timedOut, scheduled>>

FinalizeCancel(k) ==
    /\ target[k] # NoOne
    /\ SetCancelled(target[k])
    /\ target' = [target EXCEPT ![k] = NoOne]
    /\ UNCHANGED <<pc, until, lock, active, timedOut, scheduled>>

\* The refund or the update throws.
CancelFails(k) ==
    /\ target[k] # NoOne
    /\ target' = [target EXCEPT ![k] = NoOne]
    /\ UNCHANGED <<tableVars, pc, until, lock, active, timedOut, scheduled>>

-----------------------------------------------------------------------------
(* the cron, the other services and the clock                              *)

ExpireHolds == ReleaseExpiredHolds /\ UNCHANGED callVars

\* confirmPayment, called by a webhook delivery or by reconciliation at any
\* time after the row exists.
ConfirmPayment(r) == Confirm(r) /\ UNCHANGED callVars

\* extendHold, called by a checkout that found the row HELD earlier on.
ExtendForCheckout(r) ==
    /\ ExtendHold(r, now + MaxHold)
    /\ UNCHANGED callVars

\* declineWithReservation, called by reconciliation.
DeclinePayment(r) == SetCancelled(r) /\ UNCHANGED callVars

CancelScreening(x) ==
    /\ x \in scheduled
    /\ scheduled' = scheduled \ {x}
    /\ UNCHANGED <<tableVars, pc, until, lock, active, timedOut, target>>

Clock == Tick /\ UNCHANGED callVars

-----------------------------------------------------------------------------
\* What a reserve call does next when nothing fails.
ReserveStep(r) ==
    \/ FindScreening(r) \/ AdmitReserve(r) \/ LockSeat(r) \/ CheckSeat(r)
    \/ CreateHold(r) \/ RejectUnknownSeat(r) \/ RejectTaken(r)
    \/ RejectByIndex(r) \/ ReleaseGuard(r)

Next ==
    \/ \E r \in Ids : \/ ReserveStep(r) \/ RejectReserve(r)
                      \/ FailTransaction(r) \/ BreakerTimesOut(r)
                      \/ ConfirmPayment(r) \/ ExtendForCheckout(r)
                      \/ DeclinePayment(r)
    \/ \E k \in Cancels : \/ \E r \in Ids : CancelRead(k, r)
                          \/ FinalizeCancel(k) \/ CancelFails(k)
    \/ \E x \in Screenings : CancelScreening(x)
    \/ ExpireHolds
    \/ Clock

Spec == Init /\ [][Next]_vars

\* The event loop and the database keep running the calls that were
\* admitted, and the cron runs every minute.
InFlightStep(r) == pc[r] \in InFlight /\ ReserveStep(r)

Fairness ==
    /\ \A r \in Ids : WF_vars(InFlightStep(r))
    /\ WF_vars(ExpireHolds)

FairSpec == Spec /\ Fairness

-----------------------------------------------------------------------------
(* Properties                                                              *)

\* The calls that hold a unit of the concurrency guard.
Admitted == {r \in Ids : pc[r] \in InFlight} \ timedOut

(***************************************************************************)
(* ConcurrencyGuard: the counter is exactly the number of reserve calls    *)
(* between acquire and release, on every success, rejection and failure    *)
(* path, and never exceeds CONCURRENCY_LIMIT.  A leak would turn into a    *)
(* permanent 503.                                                          *)
(***************************************************************************)
GuardCountsCalls ==
    /\ active = Cardinality(Admitted)
    /\ active <= MaxActive

(***************************************************************************)
(* What FOR UPDATE buys: while a reserve call stands between its existence *)
(* check and its insert, no other call can put a HELD row on the same      *)
(* slot.  The insert can then only be refused (P2002) because a payment    *)
(* confirmed a cancelled reservation in between.                           *)
(***************************************************************************)
CheckStaysTrue ==
    \A r, q \in Ids :
        pc[r] = "checked" /\ SlotOf[q] = SlotOf[r] => status[q] # "HELD"

(***************************************************************************)
(* A seat-row lock never outlives the transaction that took it, and a      *)
(* transaction past its SELECT ... FOR UPDATE really owns its seat row.    *)
(***************************************************************************)
LocksBelongToTransactions ==
    /\ \A s \in Seats : lock[s] # NoOne =>
            pc[lock[s]] \in InTransaction /\ Seat(lock[s]) = s
    /\ \A r \in Ids : pc[r] \in InTransaction => lock[Seat(r)] = r

(***************************************************************************)
(* Every admitted reserve call ends, so its guard unit and its row lock    *)
(* come back.                                                              *)
(***************************************************************************)
ReserveTerminates ==
    \A r \in Ids : pc[r] = "admitted" ~> pc[r] = "done"

(***************************************************************************)
(* expireHolds: a hold that has run out does not stay HELD, unless a       *)
(* checkout pushes its deadline out again.                                 *)
(***************************************************************************)
ExpiredHoldsReleased ==
    \A r \in Ids : r \in ExpiredHolds ~> r \notin ExpiredHolds

=============================================================================
