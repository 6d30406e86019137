------------------------------ MODULE Payments ------------------------------
(***************************************************************************)
(* PaymentsService over the reservation table: checkout calls, Stripe      *)
(* sessions, webhook deliveries (late, repeated, concurrent, retried after *)
(* an error), cancellations with their refund, and the reconciliation      *)
(* cron.  Every await is a step boundary; any call may die at any of them. *)
(*                                                                         *)
(* A checkout call inserts at most one payment row and opens at most one   *)
(* Stripe session, so the call, the row and the session share one          *)
(* identifier c \in Checkouts.  Reservations are made in one step here;    *)
(* Reservations.tla has the detail of that step.                           *)
(***************************************************************************)
EXTENDS ReservationTable

CONSTANTS
    Checkouts,      \* createCheckoutSession calls
    ForRes,         \* ForRes[c]: the reservation that checkout c pays for
    Workers,        \* webhook deliveries that may be handled concurrently
    Cancels,        \* cancel calls that may be in flight together
    HoldTime,       \* HOLD_MINUTES, in ticks
    CheckoutTime,   \* CHECKOUT_EXPIRY_MINUTES, in ticks
    Grace,          \* RECONCILE_GRACE_MINUTES, in ticks
    CallTime,       \* bound: clock ticks a checkout call may straddle
    LateSettlement  \* may Stripe report an expired session as paid?

ASSUME PaymentsAssumption ==
    /\ ForRes \in [Checkouts -> Ids]
    /\ HoldTime \in 1 .. MaxHold
    /\ CheckoutTime \in 1 .. MaxHold
    /\ Grace \in Nat
    /\ CallTime \in 0 .. CheckoutTime - 1
    /\ LateSettlement \in BOOLEAN
    /\ NULL \notin Checkouts

VARIABLES
    \* payment table
    pstatus,    \* status column; "NONE" when there is no row
    createdAt,  \* createdAt column
    linked,     \* rows whose stripeSessionId has been stored
    intent,     \* rows whose stripePaymentId has been stored
    eventId,    \* stripeEventId column: the last event written to the row
    \* Stripe
    sess,       \* state of each Checkout session
    expiresAt,  \* expires_at of each session
    sent,       \* webhook events issued so far
    refunds,    \* refunds made of each payment
    keys,       \* payments whose refund idempotency key has been used
    \* calls in flight
    chk, since, \* where each checkout call is, and when it began
    hpc, hev,   \* where each webhook delivery is, and its event
    kpc, kres, kpay,  \* where each cancel call is, its reservation, its payment
    rpc, rcur, todo,  \* reconciliation: step, current payment, payments left
    \* Redis
    failures    \* reservations with a failure in the abuse log

rowVars == <<pstatus, createdAt, linked, intent, eventId>>
stripeVars == <<sess, expiresAt, sent, refunds, keys>>
chkVars == <<chk, since>>
hookVars == <<hpc, hev>>
cancelVars == <<kpc, kres, kpay>>
reconVars == <<rpc, rcur, todo>>
vars == <<tableVars, rowVars, stripeVars, chkVars, hookVars, cancelVars, reconVars,
          failures>>

-----------------------------------------------------------------------------
PaymentStatus == {"PENDING", "IN_PROGRESS", "SUCCEEDED", "DECLINED",
                  "TIMED_OUT", "FAILED", "REFUNDED"}
SessionState == {"none", "open", "processing", "paid", "failed", "expired"}
EventType == {"completed_paid", "completed_unpaid", "async_failed", "expired",
              "dispute"}
Event == EventType \X Checkouts

TypeOK ==
    /\ TableTypeOK
    /\ pstatus \in [Checkouts -> PaymentStatus \cup {"NONE"}]
    /\ createdAt \in [Checkouts -> Times]
    /\ linked \subseteq Checkouts
    /\ intent \subseteq Checkouts
    /\ eventId \in [Checkouts -> EventType \cup {NULL}]
    /\ sess \in [Checkouts -> SessionState]
    /\ expiresAt \in [Checkouts -> Deadlines]
    /\ sent \subseteq Event
    /\ refunds \in [Checkouts -> Nat]
    /\ keys \subseteq Checkouts
    /\ chk \in [Checkouts -> {"idle", "read", "created", "opened", "saved",
                              "returned", "cleanup", "ended"}]
    /\ since \in [Checkouts -> Times]
    /\ hpc \in [Workers -> {"idle", "handle", "confirmed", "flag"}]
    /\ hev \in [Workers -> Event \cup {NULL}]
    /\ kpc \in [Cancels -> {"idle", "refund", "stripe", "record", "finalize"}]
    /\ kres \in [Cancels -> Ids \cup {NULL}]
    /\ kpay \in [Cancels -> Checkouts \cup {NULL}]
    /\ rpc \in {"idle", "retrieve", "paid", "unpaid", "flag"}
    /\ rcur \in Checkouts \cup {NULL}
    /\ todo \subseteq Checkouts
    /\ failures \subseteq Ids

Init ==
    /\ TableInit
    /\ pstatus = [c \in Checkouts |-> "NONE"]
    /\ createdAt = [c \in Checkouts |-> 0]
    /\ linked = {}
    /\ intent = {}
    /\ eventId = [c \in Checkouts |-> NULL]
    /\ sess = [c \in Checkouts |-> "none"]
    /\ expiresAt = [c \in Checkouts |-> 0]
    /\ sent = {}
    /\ refunds = [c \in Checkouts |-> 0]
    /\ keys = {}
    /\ chk = [c \in Checkouts |-> "idle"]
    /\ since = [c \in Checkouts |-> 0]
    /\ hpc = [w \in Workers |-> "idle"]
    /\ hev = [w \in Workers |-> NULL]
    /\ kpc = [k \in Cancels |-> "idle"]
    /\ kres = [k \in Cancels |-> NULL]
    /\ kpay = [k \in Cancels |-> NULL]
    /\ rpc = "idle"
    /\ rcur = NULL
    /\ todo = {}
    /\ failures = {}

\* The payment row of checkout c is in the table.
Exists(c) == pstatus[c] # "NONE"

\* The payment rows of reservation r: reservationId is unique.
PaymentsOf(r) == {c \in Checkouts : ForRes[c] = r /\ Exists(c)}

SetPayment(c, s) == pstatus' = [pstatus EXCEPT ![c] = s]

-----------------------------------------------------------------------------
(* ReservationsService, in one step each                                   *)

Hold(r) ==
    /\ InsertHeld(r, now + HoldTime)
    /\ UNCHANGED <<rowVars, stripeVars, chkVars, hookVars, cancelVars, reconVars,
                   failures>>

SweepHolds ==
    /\ ReleaseExpiredHolds
    /\ UNCHANGED <<rowVars, stripeVars, chkVars, hookVars, cancelVars, reconVars,
                   failures>>

\* Checkout calls in flight.  HTTP, Prisma and Stripe timeouts end such a
\* call long before the session it opens can expire.
Busy == {c \in Checkouts :
            chk[c] \in {"read", "created", "opened", "saved", "cleanup"}}

Clock ==
    /\ \A c \in Busy : now < since[c] + CallTime
    /\ Tick
    /\ UNCHANGED <<rowVars, stripeVars, chkVars, hookVars, cancelVars, reconVars,
                   failures>>

-----------------------------------------------------------------------------
(* createCheckoutSession                                                   *)

CheckoutGoto(c, step) == chk' = [chk EXCEPT ![c] = step]

\* The reservation is HELD and has no payment: both are read here and not
\* read again.
CheckoutRead(c) ==
    /\ chk[c] = "idle"
    /\ status[ForRes[c]] = "HELD"
    /\ PaymentsOf(ForRes[c]) = {}
    /\ CheckoutGoto(c, "read")
    /\ since' = [since EXCEPT ![c] = now]
    /\ UNCHANGED <<tableVars, rowVars, stripeVars, hookVars, cancelVars,
                   reconVars, failures>>

\* Mutant: reservationId is not unique.
CreatePaymentAnyway(c) ==
    /\ chk[c] = "read"
    /\ SetPayment(c, "PENDING")
    /\ createdAt' = [createdAt EXCEPT ![c] = now]
    /\ CheckoutGoto(c, "created")
    /\ UNCHANGED <<since, tableVars, linked, intent, eventId, stripeVars, hookVars,
                   cancelVars, reconVars, failures>>

CreatePayment(c) ==
    /\ chk[c] = "read"
    /\ PaymentsOf(ForRes[c]) = {}
    /\ SetPayment(c, "PENDING")
    /\ createdAt' = [createdAt EXCEPT ![c] = now]
    /\ CheckoutGoto(c, "created")
    /\ UNCHANGED <<since, tableVars, linked, intent, eventId, stripeVars, hookVars,
                   cancelVars, reconVars, failures>>

\* P2002 on reservationId: another checkout got there first.
CreateConflicts(c) ==
    /\ chk[c] = "read"
    /\ PaymentsOf(ForRes[c]) # {}
    /\ CheckoutGoto(c, "ended")
    /\ UNCHANGED <<since, tableVars, rowVars, stripeVars, hookVars, cancelVars,
                   reconVars, failures>>

OpenSession(c) ==
    /\ chk[c] = "created"
    /\ sess' = [sess EXCEPT ![c] = "open"]
    /\ expiresAt' = [expiresAt EXCEPT ![c] = now + CheckoutTime]
    /\ CheckoutGoto(c, "opened")
    /\ UNCHANGED <<since, tableVars, rowVars, sent, refunds, keys, hookVars,
                   cancelVars, reconVars, failures>>

SaveSession(c) ==
    /\ chk[c] = "opened"
    /\ linked' = linked \cup {c}
    /\ CheckoutGoto(c, "saved")
    /\ UNCHANGED <<since, tableVars, pstatus, createdAt, intent, eventId, stripeVars,
                   hookVars, cancelVars, reconVars, failures>>

\* extendHold whatever the reservation's status is by now, then the URL.
ReturnUrl(c) ==
    /\ chk[c] = "saved"
    /\ ExtendHold(ForRes[c], expiresAt[c])
    /\ CheckoutGoto(c, "returned")
    /\ UNCHANGED <<since, rowVars, stripeVars, hookVars, cancelVars, reconVars,
                   failures>>

CheckoutThrows(c) ==
    /\ chk[c] \in {"created", "opened", "saved"}
    /\ CheckoutGoto(c, "cleanup")
    /\ UNCHANGED <<since, tableVars, rowVars, stripeVars, hookVars, cancelVars,
                   reconVars, failures>>

\* The catch block deletes the payment row; the Stripe session stays open.
DeletePayment(c) ==
    /\ chk[c] = "cleanup"
    /\ SetPayment(c, "NONE")
    /\ linked' = linked \ {c}
    /\ intent' = intent \ {c}
    /\ eventId' = [eventId EXCEPT ![c] = NULL]
    /\ CheckoutGoto(c, "ended")
    /\ UNCHANGED <<since, tableVars, createdAt, stripeVars, hookVars, cancelVars,
                   reconVars, failures>>

\* The process stops, or the catch block's delete throws.
CheckoutDies(c) ==
    /\ chk[c] \in {"read", "created", "opened", "saved", "cleanup"}
    /\ CheckoutGoto(c, "ended")
    /\ UNCHANGED <<since, tableVars, rowVars, stripeVars, hookVars, cancelVars,
                   reconVars, failures>>

-----------------------------------------------------------------------------
(* Stripe                                                                  *)

StripeStep(c, from, to, events) ==
    /\ sess[c] = from
    /\ sess' = [sess EXCEPT ![c] = to]
    /\ sent' = sent \cup (events \X {c})
    /\ UNCHANGED <<tableVars, rowVars, expiresAt, refunds, keys, chkVars, hookVars,
                   cancelVars, reconVars, failures>>

\* Only a customer who was given the URL can pay.
Payable(c) == chk[c] = "returned" /\ now <= expiresAt[c]

Pay(c) == Payable(c) /\ StripeStep(c, "open", "paid", {"completed_paid"})

PayLater(c) ==
    Payable(c) /\ StripeStep(c, "open", "processing", {"completed_unpaid"})

AsyncFails(c) == StripeStep(c, "processing", "failed", {"async_failed"})

\* async_payment_succeeded falls through the handler's switch.
AsyncSettles(c) == StripeStep(c, "processing", "paid", {})

ExpireSession(c) ==
    now >= expiresAt[c] /\ StripeStep(c, "open", "expired", {"expired"})

\* What the reconciliation cron looks for: a session that Stripe announced
\* as expired and that turns out to be paid.
SettleLate(c) ==
    LateSettlement /\ chk[c] = "returned" /\ StripeStep(c, "expired", "paid", {})

OpenDispute(c) == StripeStep(c, "paid", "paid", {"dispute"})

-----------------------------------------------------------------------------
(* handleWebhookEvent                                                      *)

\* Stripe delivers an event any number of times, in any order.  The handler
\* drops it if some payment row carries its id.
Receive(w, e) ==
    /\ hpc[w] = "idle"
    /\ e \in sent
    /\ ~ (Exists(e[2]) /\ eventId[e[2]] = e[1])
    /\ hpc' = [hpc EXCEPT ![w] = "handle"]
    /\ hev' = [hev EXCEPT ![w] = e]
    /\ UNCHANGED <<tableVars, rowVars, stripeVars, chkVars, cancelVars, reconVars,
                   failures>>

WebhookEnds(w) ==
    /\ hpc' = [hpc EXCEPT ![w] = "idle"]
    /\ hev' = [hev EXCEPT ![w] = NULL]

Handling(w, types) == hpc[w] = "handle" /\ hev[w][1] \in types

\* Mutant: payment_status is not looked at.
WebhookConfirmUnpaid(w) ==
    /\ Handling(w, {"completed_paid", "completed_unpaid"})
    /\ Exists(hev[w][2])
    /\ Confirm(ForRes[hev[w][2]])
    /\ hpc' = [hpc EXCEPT ![w] = "confirmed"]
    /\ UNCHANGED <<rowVars, stripeVars, chkVars, hev, cancelVars, reconVars,
                   failures>>

\* Mutant: the event is marked as processed before the payment is updated.
WebhookConfirmMarks(w) ==
    /\ Handling(w, {"completed_paid"})
    /\ Exists(hev[w][2])
    /\ Confirm(ForRes[hev[w][2]])
    /\ eventId' = [eventId EXCEPT ![hev[w][2]] = hev[w][1]]
    /\ hpc' = [hpc EXCEPT ![w] = "confirmed"]
    /\ UNCHANGED <<pstatus, createdAt, linked, intent, stripeVars, chkVars, hev,
                   cancelVars, reconVars, failures>>

\* handleCheckoutCompleted, paid: first the reservation ...
WebhookConfirm(w) ==
    /\ Handling(w, {"completed_paid"})
    /\ Exists(hev[w][2])
    /\ Confirm(ForRes[hev[w][2]])
    /\ hpc' = [hpc EXCEPT ![w] = "confirmed"]
    /\ UNCHANGED <<rowVars, stripeVars, chkVars, hev, cancelVars, reconVars,
                   failures>>

\* ... then the payment row, which marks the event as processed.
WebhookSucceed(w) ==
    LET c == hev[w][2] IN
    /\ hpc[w] = "confirmed"
    /\ Exists(c)
    /\ SetPayment(c, "SUCCEEDED")
    /\ eventId' = [eventId EXCEPT ![c] = hev[w][1]]
    /\ intent' = intent \cup {c}
    /\ WebhookEnds(w)
    /\ UNCHANGED <<tableVars, createdAt, linked, stripeVars, chkVars, cancelVars,
                   reconVars, failures>>

\* handleCheckoutCompleted (unpaid) and handleCheckoutExpired: one update.
WebhookSetStatus(w, type, s) ==
    LET c == hev[w][2] IN
    /\ Handling(w, {type})
    /\ Exists(c)
    /\ SetPayment(c, s)
    /\ eventId' = [eventId EXCEPT ![c] = type]
    /\ UNCHANGED <<tableVars, createdAt, linked, intent, stripeVars, chkVars,
                   cancelVars, reconVars, failures>>

\* Mutant: a session that completed unpaid counts as failed.
WebhookUnpaidFails(w) ==
    WebhookSetStatus(w, "completed_unpaid", "FAILED") /\ WebhookEnds(w)

WebhookUnpaid(w) ==
    WebhookSetStatus(w, "completed_unpaid", "IN_PROGRESS") /\ WebhookEnds(w)

WebhookExpired(w) ==
    WebhookSetStatus(w, "expired", "TIMED_OUT") /\ WebhookEnds(w)

\* handleAsyncPaymentFailed: the event is marked processed before the
\* failure is recorded.
WebhookFailed(w) ==
    /\ WebhookSetStatus(w, "async_failed", "FAILED")
    /\ hpc' = [hpc EXCEPT ![w] = "flag"]
    /\ UNCHANGED hev

WebhookRecordFailure(w) ==
    /\ hpc[w] = "flag"
    /\ failures' = failures \cup {ForRes[hev[w][2]]}
    /\ WebhookEnds(w)
    /\ UNCHANGED <<tableVars, rowVars, stripeVars, chkVars, cancelVars, reconVars>>

\* handleDisputeCreated finds the row by stripePaymentId and overwrites
\* stripeEventId.
WebhookDispute(w) ==
    LET c == hev[w][2] IN
    /\ Handling(w, {"dispute"})
    /\ c \in intent
    /\ eventId' = [eventId EXCEPT ![c] = "dispute"]
    /\ WebhookEnds(w)
    /\ UNCHANGED <<tableVars, pstatus, createdAt, linked, intent, stripeVars,
                   chkVars, cancelVars, reconVars, failures>>

\* The handler returns 200 without a write.
WebhookIgnores(w) ==
    /\ \/ /\ Handling(w, {"completed_paid", "completed_unpaid"})
          /\ ~ Exists(hev[w][2])
       \/ Handling(w, {"dispute"}) /\ hev[w][2] \notin intent
    /\ WebhookEnds(w)
    /\ UNCHANGED <<tableVars, rowVars, stripeVars, chkVars, cancelVars, reconVars,
                   failures>>

\* 500: the database or the index refuses, or the process stops.  Stripe
\* will deliver the event again.
WebhookThrows(w) ==
    /\ hpc[w] # "idle"
    /\ WebhookEnds(w)
    /\ UNCHANGED <<tableVars, rowVars, stripeVars, chkVars, cancelVars, reconVars,
                   failures>>

-----------------------------------------------------------------------------
(* cancel and refundReservation                                            *)

CancelEnds(k) ==
    /\ kpc' = [kpc EXCEPT ![k] = "idle"]
    /\ kres' = [kres EXCEPT ![k] = NULL]
    /\ kpay' = [kpay EXCEPT ![k] = NULL]

CancelGoto(k, step) == kpc' = [kpc EXCEPT ![k] = step]

CancelRead(k, r) ==
    /\ kpc[k] = "idle"
    /\ \/ status[r] = "CONFIRMED" /\ CancelGoto(k, "refund")
       \/ status[r] = "HELD" /\ CancelGoto(k, "finalize")
    /\ kres' = [kres EXCEPT ![k] = r]
    /\ UNCHANGED <<tableVars, rowVars, stripeVars, chkVars, hookVars, kpay,
                   reconVars, failures>>

\* An earlier attempt got as far as REFUNDED: only the cancellation is left.
RefundAlreadyMade(k, c) ==
    /\ kpc[k] = "refund"
    /\ c \in PaymentsOf(kres[k])
    /\ pstatus[c] = "REFUNDED"
    /\ CancelGoto(k, "finalize")
    /\ UNCHANGED <<tableVars, rowVars, stripeVars, chkVars, hookVars, kres, kpay,
                   reconVars, failures>>

\* Stripe is asked only if the policy grants something and the row already
\* has its stripePaymentId.
RefundRead(k, c) ==
    /\ kpc[k] = "refund"
    /\ c \in PaymentsOf(kres[k])
    /\ pstatus[c] # "REFUNDED"
    /\ \E policyGrants \in BOOLEAN :
        CancelGoto(k, IF policyGrants /\ c \in intent THEN "stripe"
                                                      ELSE "record")
    /\ kpay' = [kpay EXCEPT ![k] = c]
    /\ UNCHANGED <<tableVars, rowVars, stripeVars, chkVars, hookVars, kres,
                   reconVars, failures>>

\* Mutant: the refund carries no idempotency key.
RefundWithoutKey(k) ==
    /\ kpc[k] = "stripe"
    /\ refunds' = [refunds EXCEPT ![kpay[k]] = @ + 1]
    /\ CancelGoto(k, "record")
    /\ UNCHANGED <<tableVars, rowVars, sess, expiresAt, sent, keys, chkVars,
                   hookVars, kres, kpay, reconVars, failures>>

\* Stripe answers a repeated idempotency key with the refund it made before.
RefundAtStripe(k) ==
    LET c == kpay[k] IN
    /\ kpc[k] = "stripe"
    /\ keys' = keys \cup {c}
    /\ refunds' = IF c \in keys THEN refunds
                                ELSE [refunds EXCEPT ![c] = @ + 1]
    /\ CancelGoto(k, "record")
    /\ UNCHANGED <<tableVars, rowVars, sess, expiresAt, sent, chkVars, hookVars,
                   kres, kpay, reconVars, failures>>

RecordRefund(k) ==
    /\ kpc[k] = "record"
    /\ Exists(kpay[k])
    /\ SetPayment(kpay[k], "REFUNDED")
    /\ CancelGoto(k, "finalize")
    /\ UNCHANGED <<tableVars, createdAt, linked, intent, eventId, stripeVars,
                   chkVars, hookVars, kres, kpay, reconVars, failures>>

FinalizeCancel(k) ==
    /\ kpc[k] = "finalize"
    /\ SetCancelled(kres[k])
    /\ CancelEnds(k)
    /\ UNCHANGED <<rowVars, stripeVars, chkVars, hookVars, reconVars, failures>>

CancelThrows(k) ==
    /\ kpc[k] # "idle"
    /\ CancelEnds(k)
    /\ UNCHANGED <<tableVars, rowVars, stripeVars, chkVars, hookVars, reconVars,
                   failures>>

-----------------------------------------------------------------------------
(* reconcileTimedOutPayments                                               *)

StuckTimedOut ==
    {c \in Checkouts : pstatus[c] = "TIMED_OUT" /\ createdAt[c] + Grace < now}

ReconcileScan ==
    /\ todo = {}
    /\ StuckTimedOut # {}
    /\ todo' = StuckTimedOut
    /\ UNCHANGED <<tableVars, rowVars, stripeVars, chkVars, hookVars, cancelVars,
                   rpc, rcur, failures>>

\* The next row of the list.  findMany names no order, so it may be any.
NextStuck(c) ==
    /\ rpc = "idle"
    /\ c \in todo
    /\ rcur' = c
    /\ rpc' = "retrieve"
    /\ UNCHANGED <<tableVars, rowVars, stripeVars, chkVars, hookVars, cancelVars,
                   todo, failures>>

\* Mutant: a row whose session is not paid is passed over.
RetrieveSkips(c) ==
    /\ rpc = "retrieve"
    /\ rcur = c
    /\ c \in linked
    /\ IF sess[c] = "paid"
       THEN rpc' = "paid" /\ UNCHANGED <<rcur, todo>>
       ELSE rpc' = "idle" /\ rcur' = NULL /\ todo' = todo \ {c}
    /\ UNCHANGED <<tableVars, rowVars, stripeVars, chkVars, hookVars, cancelVars,
                   failures>>

\* sessions.retrieve.  For a row that was never linked the id is empty and
\* the call can only throw.
RetrieveSession(c) ==
    /\ rpc = "retrieve"
    /\ rcur = c
    /\ c \in linked
    /\ rpc' = IF sess[c] = "paid" THEN "paid" ELSE "unpaid"
    /\ UNCHANGED <<tableVars, rowVars, stripeVars, chkVars, hookVars, cancelVars,
                   rcur, todo, failures>>

\* One transaction over the two rows, whatever they say by now.
confirmWithReservation(c) ==
    /\ Exists(c)
    /\ Confirm(ForRes[c])
    /\ SetPayment(c, "SUCCEEDED")
    /\ intent' = intent \cup {c}

declineWithReservation(c) ==
    /\ Exists(c)
    /\ SetCancelled(ForRes[c])
    /\ SetPayment(c, "DECLINED")

ReconcileConfirm ==
    /\ rpc = "paid"
    /\ confirmWithReservation(rcur)
    /\ rpc' = "idle"
    /\ rcur' = NULL
    /\ todo' = todo \ {rcur}
    /\ UNCHANGED <<createdAt, linked, eventId, stripeVars, chkVars, hookVars,
                   cancelVars, failures>>

ReconcileDecline ==
    /\ rpc = "unpaid"
    /\ declineWithReservation(rcur)
    /\ rpc' = "flag"
    /\ UNCHANGED <<createdAt, linked, intent, eventId, stripeVars, chkVars,
                   hookVars, cancelVars, rcur, todo, failures>>

ReconcileRecordFailure ==
    /\ rpc = "flag"
    /\ failures' = failures \cup {ForRes[rcur]}
    /\ rpc' = "idle"
    /\ rcur' = NULL
    /\ todo' = todo \ {rcur}
    /\ UNCHANGED <<tableVars, rowVars, stripeVars, chkVars, hookVars, cancelVars>>

\* An exception at any of the awaits ends the whole run: the rows after it
\* wait for the next tick, and for its list.
ReconcileThrows ==
    /\ rpc # "idle"
    /\ rpc' = "idle"
    /\ rcur' = NULL
    /\ todo' = {}
    /\ UNCHANGED <<tableVars, rowVars, stripeVars, chkVars, hookVars, cancelVars,
                   failures>>

-----------------------------------------------------------------------------
CheckoutStep(c) ==
    \/ CheckoutRead(c) \/ CreatePayment(c) \/ CreateConflicts(c)
    \/ OpenSession(c) \/ SaveSession(c) \/ ReturnUrl(c)
    \/ CheckoutThrows(c) \/ DeletePayment(c) \/ CheckoutDies(c)

StripeSteps(c) ==
    \/ Pay(c) \/ PayLater(c) \/ AsyncFails(c) \/ AsyncSettles(c)
    \/ ExpireSession(c) \/ SettleLate(c) \/ OpenDispute(c)

\* What a delivery does next when nothing fails.
WebhookStep(w) ==
    \/ WebhookConfirm(w) \/ WebhookSucceed(w) \/ WebhookUnpaid(w)
    \/ WebhookExpired(w) \/ WebhookFailed(w) \/ WebhookRecordFailure(w)
    \/ WebhookDispute(w) \/ WebhookIgnores(w)

CancelStep(k) ==
    \/ \E r \in Ids : CancelRead(k, r)
    \/ \E c \in Checkouts : RefundAlreadyMade(k, c) \/ RefundRead(k, c)
    \/ RefundAtStripe(k) \/ RecordRefund(k) \/ FinalizeCancel(k)
    \/ CancelThrows(k)

ReconcileStep ==
    \/ \E c \in Checkouts : NextStuck(c) \/ RetrieveSession(c)
    \/ ReconcileConfirm \/ ReconcileDecline \/ ReconcileRecordFailure

Next ==
    \/ Clock \/ SweepHolds
    \/ \E r \in Ids : Hold(r)
    \/ \E c \in Checkouts : CheckoutStep(c) \/ StripeSteps(c)
    \/ \E w \in Workers :
        \/ \E e \in Event : Receive(w, e)
        \/ WebhookStep(w) \/ WebhookThrows(w)
    \/ \E k \in Cancels : CancelStep(k)
    \/ ReconcileScan \/ ReconcileStep \/ ReconcileThrows

Spec == Init /\ [][Next]_vars

\* Stripe redelivers an event until it is answered with 200, and an outage of
\* the database or of Stripe does not last for ever: a step of an event that is
\* tried again and again succeeds at last.
StripeFairness ==
    /\ \A w \in Workers : WF_vars(WebhookStep(w) \/ WebhookThrows(w))
    /\ \A e \in {"completed_paid"} \X Checkouts :
        /\ SF_vars(\E w \in Workers : Receive(w, e))
        /\ SF_vars(\E w \in Workers : hev[w] = e /\ WebhookConfirm(w))
        /\ SF_vars(\E w \in Workers : hev[w] = e /\ WebhookSucceed(w))

\* The cron keeps ticking, and a row that has its turn again and again is
\* dealt with at last.  Nothing is assumed of the order of the list: whether a
\* row has a turn before the run ends is left open.
CronFairness ==
    /\ WF_vars(ReconcileScan)
    /\ WF_vars(ReconcileStep \/ ReconcileThrows)
    /\ \A c \in Checkouts :
        /\ SF_vars(RetrieveSession(c))
        /\ SF_vars(rcur = c /\ ReconcileConfirm)
        /\ SF_vars(rcur = c /\ ReconcileDecline)

-----------------------------------------------------------------------------
(* Properties                                                              *)

(***************************************************************************)
(* A reservation is CONFIRMED only if one of its checkout sessions has     *)
(* really been paid at Stripe, on the webhook path and on the              *)
(* reconciliation path, whatever is delivered late, twice or out of order. *)
(***************************************************************************)
ConfirmedOnlyIfPaid ==
    \A r \in Ids : status[r] = "CONFIRMED" =>
        \E c \in Checkouts : ForRes[c] = r /\ sess[c] = "paid"

(***************************************************************************)
(* createCheckoutSession: a reservation is never charged twice.  At most   *)
(* one of its sessions is ever taken up by the customer, even when         *)
(* checkouts race or an earlier one was cleaned up after an error.         *)
(***************************************************************************)
TakenUp(c) == sess[c] \in {"processing", "paid", "failed"}

ChargedAtMostOnce ==
    \A c, d \in Checkouts :
        ForRes[c] = ForRes[d] /\ TakenUp(c) /\ TakenUp(d) => c = d

(***************************************************************************)
(* refundReservation: Stripe refunds a payment at most once, and only one  *)
(* that was paid, even when cancel calls race or a call is repeated after  *)
(* its later steps failed.                                                 *)
(***************************************************************************)
RefundedAtMostOnce ==
    \A c \in Checkouts :
        /\ refunds[c] <= 1
        /\ refunds[c] > 0 => sess[c] = "paid"

(***************************************************************************)
(* handleCheckoutExpired, handleAsyncPaymentFailed, reconciliation: a paid *)
(* payment is never written off (TIMED_OUT, FAILED, DECLINED) and its      *)
(* owner is never charged with a failure in the abuse log, unless Stripe   *)
(* had announced its session as expired before.                            *)
(***************************************************************************)
PaidNeverWrittenOff ==
    \A c \in Checkouts :
        sess[c] = "paid" /\ <<"expired", c>> \notin sent =>
            /\ pstatus[c] \in {"PENDING", "IN_PROGRESS", "SUCCEEDED", "REFUNDED"}
            /\ ForRes[c] \notin failures

(***************************************************************************)
(* handleCheckoutCompleted: a payment Stripe has announced as paid ends up *)
(* SUCCEEDED (or already REFUNDED), although the handler can fail between  *)
(* its two writes and Stripe repeats the event; unless, again and again,   *)
(* its seat is another reservation's.                                      *)
(***************************************************************************)
PaidIsRecorded ==
    StripeFairness =>
        \A c \in Checkouts :
            <<"completed_paid", c>> \in sent ~>
                \/ pstatus[c] \in {"SUCCEEDED", "REFUNDED"}
                \/ ~ IndexAdmits(ForRes[c])

(***************************************************************************)
(* reconcileTimedOutPayments: a timed-out payment whose session id was     *)
(* stored does not stay TIMED_OUT, unless a row that cannot be reconciled  *)
(* gets into the list: one that was never linked, or one that was paid     *)
(* after its seat had gone to another reservation.  Such a row may come    *)
(* first in every run, which ends there.                                   *)
(***************************************************************************)
Irreconcilable ==
    {c \in StuckTimedOut :
        \/ c \notin linked
        \/ sess[c] = "paid" /\ ~ IndexAdmits(ForRes[c])}

LinkedTimeoutResolved ==
    CronFairness =>
        \A c \in Checkouts :
            c \in StuckTimedOut \cap linked ~>
                pstatus[c] # "TIMED_OUT" \/ Irreconcilable # {}

-----------------------------------------------------------------------------
(* Claims of the payment design that the code does not keep                *)

(***************************************************************************)
(* The payment design: REFUNDED is "its own terminal state", and an event  *)
(* that was processed before is a no-op.                                   *)
(***************************************************************************)
RefundedIsTerminal ==
    [][\A c \in Checkouts :
            pstatus[c] = "REFUNDED" => pstatus'[c] = "REFUNDED"]_vars

=============================================================================
