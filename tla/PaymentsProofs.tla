--------------------------- MODULE PaymentsProofs ---------------------------
(* Proofs about Payments, for any number of reservations, checkouts,       *)
(* deliveries and cancel calls.                                            *)
EXTENDS Payments, ReservationTableProofs

-----------------------------------------------------------------------------
(* Every step is a step of the reservation table or leaves it alone        *)

\* A deadline computed from the clock fits the heldUntil column.
LEMMA DeadlineLemma ==
    ASSUME TableTypeOK, NEW d \in 0 .. MaxHold
    PROVE  now + d \in Deadlines
BY TimeAssumption DEF TableTypeOK, Times, Deadlines

\* An event is a type and the checkout it is about.
LEMMA EventLemma ==
    ASSUME NEW e \in Event
    PROVE  e[1] \in EventType /\ e[2] \in Checkouts
BY DEF Event

\* What a delivery in progress is about.
HookInv ==
    \A w \in Workers : hpc[w] # "idle" =>
        /\ hev[w] \in sent
        /\ hpc[w] = "confirmed" => hev[w][1] = "completed_paid"

\* Cancel calls and reconciliation know their payment when they need it.
CallInv ==
    /\ \A k \in Cancels :
        /\ kpc[k] # "idle" => kres[k] \in Ids
        /\ kpc[k] \in {"stripe", "record"} => kpay[k] \in Checkouts
    /\ rpc # "idle" => rcur \in Checkouts

Inv0 == TypeOK /\ HookInv /\ CallInv

\* A delivery that is being handled has an event with a reservation.
LEMMA HookTyped ==
    ASSUME Inv0, NEW w \in Workers, hpc[w] # "idle"
    PROVE  /\ hev[w] \in Event
           /\ hev[w][1] \in EventType
           /\ hev[w][2] \in Checkouts
           /\ ForRes[hev[w][2]] \in Ids
BY EventLemma, PaymentsAssumption DEF Inv0, HookInv, TypeOK

\* Every step of PaymentsService is a table statement or leaves it alone.
LEMMA TableStep ==
    ASSUME Inv0, [Next]_vars
    PROVE  [TableNext]_tableVars
<1> USE DEF Inv0
<1>1. ASSUME NEW r \in Ids, Hold(r)
      PROVE  TableNext
    <2>1. now + HoldTime \in Deadlines
        BY DeadlineLemma, PaymentsAssumption, TimeAssumption DEF TypeOK
    <2>2. QED
        BY <1>1, <2>1 DEF Hold, TableNext
<1>2. CASE SweepHolds \/ Clock
    BY <1>2 DEF SweepHolds, Clock, TableNext
<1>3. ASSUME NEW c \in Checkouts, CheckoutStep(c)
      PROVE  [TableNext]_tableVars
    <2>1. CASE ReturnUrl(c)
        BY <2>1, PaymentsAssumption DEF ReturnUrl, TableNext, TypeOK
    <2>2. CASE ~ ReturnUrl(c)
        BY <1>3, <2>2 DEF CheckoutStep, CheckoutRead, CreatePayment,
           CreateConflicts, OpenSession, SaveSession, CheckoutThrows,
           DeletePayment, CheckoutDies
    <2>3. QED
        BY <2>1, <2>2
<1>4. ASSUME NEW c \in Checkouts, StripeSteps(c)
      PROVE  UNCHANGED tableVars
    BY <1>4 DEF StripeSteps, Pay, PayLater, AsyncFails, AsyncSettles,
       ExpireSession, SettleLate, OpenDispute, StripeStep
<1>5. ASSUME NEW w \in Workers, WebhookConfirm(w)
      PROVE  TableNext
    <2>1. ForRes[hev[w][2]] \in Ids
        BY <1>5, HookTyped DEF WebhookConfirm, Handling
    <2>2. QED
        BY <1>5, <2>1 DEF WebhookConfirm, TableNext
<1>6. ASSUME NEW w \in Workers,
             \/ \E e \in Event : Receive(w, e)
             \/ WebhookSucceed(w) \/ WebhookUnpaid(w) \/ WebhookExpired(w)
             \/ WebhookFailed(w) \/ WebhookRecordFailure(w)
             \/ WebhookDispute(w) \/ WebhookIgnores(w) \/ WebhookThrows(w)
      PROVE  UNCHANGED tableVars
    BY <1>6 DEF Receive, WebhookSucceed, WebhookUnpaid, WebhookExpired,
       WebhookFailed, WebhookRecordFailure, WebhookDispute, WebhookIgnores,
       WebhookThrows, WebhookSetStatus
<1>7. ASSUME NEW k \in Cancels, CancelStep(k)
      PROVE  [TableNext]_tableVars
    <2>1. CASE FinalizeCancel(k)
        BY <2>1 DEF FinalizeCancel, TableNext, CallInv
    <2>2. CASE ~ FinalizeCancel(k)
        BY <1>7, <2>2 DEF CancelStep, CancelRead, RefundAlreadyMade,
           RefundRead, RefundAtStripe, RecordRefund, CancelThrows
    <2>3. QED
        BY <2>1, <2>2
<1>8. CASE ReconcileConfirm \/ ReconcileDecline
    <2>1. ForRes[rcur] \in Ids
        BY <1>8, PaymentsAssumption
        DEF ReconcileConfirm, confirmWithReservation, ReconcileDecline,
           declineWithReservation, CallInv
    <2>2. QED
        BY <1>8, <2>1 DEF ReconcileConfirm, confirmWithReservation,
           ReconcileDecline, declineWithReservation, TableNext
<1>9. CASE \/ ReconcileScan \/ ReconcileThrows \/ ReconcileRecordFailure
           \/ \E c \in Checkouts : NextStuck(c) \/ RetrieveSession(c)
    BY <1>9 DEF ReconcileScan, ReconcileThrows, ReconcileRecordFailure,
       NextStuck, RetrieveSession
<1>10. CASE UNCHANGED vars
    BY <1>10 DEF vars
<1>11. QED
    BY <1>1, <1>2, <1>3, <1>4, <1>5, <1>6, <1>7, <1>8, <1>9, <1>10
    DEF Next, WebhookStep, ReconcileStep

-----------------------------------------------------------------------------
(* Type correctness                                                        *)

RowTypeOK ==
    /\ pstatus \in [Checkouts -> PaymentStatus \cup {"NONE"}]
    /\ createdAt \in [Checkouts -> Times]
    /\ linked \subseteq Checkouts
    /\ intent \subseteq Checkouts
    /\ eventId \in [Checkouts -> EventType \cup {NULL}]

StripeTypeOK ==
    /\ sess \in [Checkouts -> SessionState]
    /\ expiresAt \in [Checkouts -> Deadlines]
    /\ sent \subseteq Event
    /\ refunds \in [Checkouts -> Nat]
    /\ keys \subseteq Checkouts

CallTypeOK ==
    /\ chk \in [Checkouts -> {"idle", "read", "created", "opened", "saved",
                              "returned", "cleanup", "ended"}]
    /\ since \in [Checkouts -> Times]
    /\ hpc \in [Workers -> {"idle", "handle", "confirmed", "flag"}]
    /\ hev \in [Workers -> Event \cup {NULL}]
    /\ kpc \in [Cancels -> {"idle", "refund", "stripe", "record", "finalize"}]
    /\ kres \in [Cancels -> Ids \cup {NULL}]
    /\ kpay \in [Cancels -> Checkouts \cup {NULL}]
    /\ rpc \in {"idle", "retrieve", "paid", "unpaid", "flag"}
    /\ rcur \in Checkouts \cup {NULL}
    /\ todo \subseteq Checkouts
    /\ failures \subseteq Ids

Parts == RowTypeOK /\ StripeTypeOK /\ CallTypeOK

\* The type invariant, in the parts that the actions disturb separately.
LEMMA TypeParts == TypeOK <=> TableTypeOK /\ Parts
BY DEF TypeOK, Parts, RowTypeOK, StripeTypeOK, CallTypeOK

\* The same in the next state.
LEMMA TypePartsPrime == TypeOK' <=> TableTypeOK' /\ Parts'
BY DEF TypeOK, Parts, RowTypeOK, StripeTypeOK, CallTypeOK

\* The initial state satisfies the base invariant.
LEMMA Inv0Init == Init => Inv0
BY TableTypeInit, TimeAssumption
DEF Init, Inv0, TypeOK, HookInv, CallInv, Times, Deadlines, PaymentStatus,
    SessionState

\* createCheckoutSession keeps the types of everything it writes.
LEMMA CheckoutKeepsTypes ==
    ASSUME Inv0, NEW c \in Checkouts, CheckoutStep(c)
    PROVE  (Parts /\ HookInv /\ CallInv)'
<1>1. Parts /\ TableTypeOK /\ HookInv /\ CallInv
    BY TypeParts DEF Inv0
<1>2. now + CheckoutTime \in Deadlines
    BY <1>1, DeadlineLemma, PaymentsAssumption, TimeAssumption
<1>3. RowTypeOK'
    BY <1>1 DEF CheckoutStep, CheckoutRead, CreatePayment, CreateConflicts,
       OpenSession, SaveSession, ReturnUrl, CheckoutThrows, DeletePayment,
       CheckoutDies, SetPayment, rowVars, Parts, RowTypeOK, TableTypeOK,
       PaymentStatus
<1>4. StripeTypeOK'
    BY <1>1, <1>2 DEF CheckoutStep, CheckoutRead, CreatePayment,
       CreateConflicts, OpenSession, SaveSession, ReturnUrl, CheckoutThrows,
       DeletePayment, CheckoutDies, stripeVars, Parts, StripeTypeOK,
       SessionState
<1>5. CallTypeOK'
    BY <1>1 DEF CheckoutStep, CheckoutRead, CreatePayment, CreateConflicts,
       OpenSession, SaveSession, ReturnUrl, CheckoutThrows, DeletePayment,
       CheckoutDies, CheckoutGoto, hookVars, cancelVars, reconVars, Parts,
       CallTypeOK, TableTypeOK
<1>6. HookInv' /\ CallInv'
    BY <1>1 DEF CheckoutStep, CheckoutRead, CreatePayment, CreateConflicts,
       OpenSession, SaveSession, ReturnUrl, CheckoutThrows, DeletePayment,
       CheckoutDies, stripeVars, hookVars, cancelVars, reconVars, HookInv,
       CallInv
<1>7. QED
    BY <1>3, <1>4, <1>5, <1>6 DEF Parts

\* Stripe's own steps keep them.
LEMMA StripeKeepsTypes ==
    ASSUME Inv0, NEW c \in Checkouts, StripeSteps(c)
    PROVE  (Parts /\ HookInv /\ CallInv)'
<1>1. Parts /\ HookInv /\ CallInv
    BY TypeParts DEF Inv0
<1>2. PICK from \in SessionState, to \in SessionState,
           events \in SUBSET EventType : StripeStep(c, from, to, events)
    BY DEF StripeSteps, Pay, PayLater, AsyncFails, AsyncSettles, ExpireSession,
       SettleLate, OpenDispute, SessionState, EventType
<1>3. sent' \subseteq Event /\ sent \subseteq sent'
    BY <1>1, <1>2 DEF StripeStep, Parts, StripeTypeOK, Event
<1>4. RowTypeOK' /\ StripeTypeOK'
    BY <1>1, <1>2, <1>3 DEF StripeStep, rowVars, Parts, RowTypeOK, StripeTypeOK
<1>5. CallTypeOK'
    BY <1>1, <1>2 DEF StripeStep, chkVars, hookVars, cancelVars, reconVars,
       Parts, CallTypeOK
<1>6. HookInv' /\ CallInv'
    BY <1>1, <1>2, <1>3 DEF StripeStep, hookVars, cancelVars, reconVars,
       HookInv, CallInv
<1>7. QED
    BY <1>4, <1>5, <1>6 DEF Parts

\* handleWebhookEvent keeps them.
LEMMA WebhookKeepsTypes ==
    ASSUME Inv0, NEW w \in Workers,
           \/ \E e \in Event : Receive(w, e)
           \/ WebhookStep(w) \/ WebhookThrows(w)
    PROVE  (Parts /\ HookInv /\ CallInv)'
<1>1. Parts /\ TableTypeOK /\ HookInv /\ CallInv
    BY TypeParts DEF Inv0
<1> DEFINE Typed == /\ hev[w] \in Event
                    /\ hev[w][1] \in EventType
                    /\ hev[w][2] \in Checkouts
                    /\ ForRes[hev[w][2]] \in Ids
<1>2. hpc[w] # "idle" => Typed
    BY HookTyped
<1>3. UNCHANGED stripeVars
    BY DEF Receive, WebhookStep, WebhookConfirm, WebhookSucceed, WebhookUnpaid,
       WebhookExpired, WebhookFailed, WebhookRecordFailure, WebhookDispute,
       WebhookIgnores, WebhookThrows, WebhookSetStatus
<1>4. UNCHANGED <<chkVars, cancelVars, reconVars>>
    BY DEF Receive, WebhookStep, WebhookConfirm, WebhookSucceed, WebhookUnpaid,
       WebhookExpired, WebhookFailed, WebhookRecordFailure, WebhookDispute,
       WebhookIgnores, WebhookThrows, WebhookSetStatus
<1>5. RowTypeOK'
    BY <1>1, <1>2 DEF Receive, WebhookStep, WebhookConfirm, WebhookSucceed,
       WebhookUnpaid, WebhookExpired, WebhookFailed, WebhookRecordFailure,
       WebhookDispute, WebhookIgnores, WebhookThrows, WebhookSetStatus,
       Handling, SetPayment, rowVars, Parts, RowTypeOK, PaymentStatus,
       EventType
<1>6. StripeTypeOK'
    BY <1>1, <1>3 DEF stripeVars, Parts, StripeTypeOK
<1>7. failures' \subseteq Ids
    BY <1>1, <1>2 DEF Receive, WebhookStep, WebhookConfirm, WebhookSucceed,
       WebhookUnpaid, WebhookExpired, WebhookFailed, WebhookRecordFailure,
       WebhookDispute, WebhookIgnores, WebhookThrows, WebhookSetStatus,
       Parts, CallTypeOK
<1>8. /\ hpc' \in [Workers -> {"idle", "handle", "confirmed", "flag"}]
      /\ hev' \in [Workers -> Event \cup {NULL}]
    BY <1>1 DEF Receive, WebhookStep, WebhookConfirm, WebhookSucceed,
       WebhookUnpaid, WebhookExpired, WebhookFailed, WebhookRecordFailure,
       WebhookDispute, WebhookIgnores, WebhookThrows, WebhookEnds, Parts,
       CallTypeOK
<1>9. CallTypeOK'
    BY <1>1, <1>4, <1>7, <1>8 DEF chkVars, cancelVars, reconVars, Parts,
       CallTypeOK
<1>10. HookInv'
    <2>1. sent' = sent
        BY <1>3 DEF stripeVars
    <2>2. CASE WebhookConfirm(w)
        <3>1. hev[w][1] = "completed_paid" /\ hpc[w] # "idle" /\ hev' = hev
            BY <2>2 DEF WebhookConfirm, Handling
        <3>2. hpc' = [hpc EXCEPT ![w] = "confirmed"]
            BY <2>2 DEF WebhookConfirm
        <3>3. QED
            BY <1>1, <2>1, <3>1, <3>2 DEF HookInv, Parts, CallTypeOK
    <2>3. CASE WebhookFailed(w)
        <3>1. hpc[w] # "idle" /\ hev' = hev /\ hpc' = [hpc EXCEPT ![w] = "flag"]
            BY <2>3 DEF WebhookFailed, WebhookSetStatus, Handling
        <3>2. QED
            BY <1>1, <2>1, <3>1 DEF HookInv, Parts, CallTypeOK
    <2>4. ASSUME NEW e \in Event, Receive(w, e)
          PROVE  HookInv'
        <3>1. /\ e \in sent
              /\ hpc' = [hpc EXCEPT ![w] = "handle"]
              /\ hev' = [hev EXCEPT ![w] = e]
            BY <2>4 DEF Receive
        <3>2. QED
            BY <1>1, <2>1, <3>1 DEF HookInv, Parts, CallTypeOK
    <2>5. ASSUME WebhookEnds(w)
          PROVE  HookInv'
        BY <1>1, <2>1, <2>5 DEF WebhookEnds, HookInv, Parts, CallTypeOK
    <2>6. QED
        BY <2>2, <2>3, <2>4, <2>5 DEF WebhookStep, WebhookSucceed,
           WebhookUnpaid, WebhookExpired, WebhookRecordFailure, WebhookDispute,
           WebhookIgnores, WebhookThrows
<1>11. CallInv'
    BY <1>1, <1>4 DEF cancelVars, reconVars, CallInv
<1>12. QED
    BY <1>5, <1>6, <1>9, <1>10, <1>11 DEF Parts

\* cancel and refundReservation keep them.
LEMMA CancelKeepsTypes ==
    ASSUME Inv0, NEW k \in Cancels, CancelStep(k)
    PROVE  (Parts /\ HookInv /\ CallInv)'
<1>1. Parts /\ TableTypeOK /\ HookInv /\ CallInv
    BY TypeParts DEF Inv0
<1>2. UNCHANGED <<chkVars, hookVars, reconVars, failures, sess, expiresAt, sent,
                  createdAt, linked, intent, eventId>>
    BY DEF CancelStep, CancelRead, RefundAlreadyMade, RefundRead,
       RefundAtStripe, RecordRefund, FinalizeCancel, CancelThrows, rowVars,
       stripeVars
<1>3. RowTypeOK'
    BY <1>1, <1>2 DEF CancelStep, CancelRead, RefundAlreadyMade, RefundRead,
       RefundAtStripe, RecordRefund, FinalizeCancel, CancelThrows, SetPayment,
       rowVars, Parts, RowTypeOK, PaymentStatus, CallInv
<1>4. StripeTypeOK'
    <2>1. CASE RefundAtStripe(k)
        BY <1>1, <1>2, <2>1 DEF RefundAtStripe, Parts, StripeTypeOK, CallInv
    <2>2. CASE ~ RefundAtStripe(k)
        BY <1>1, <2>2 DEF CancelStep, CancelRead, RefundAlreadyMade,
           RefundRead, RecordRefund, FinalizeCancel, CancelThrows, stripeVars,
           Parts, StripeTypeOK
    <2>3. QED
        BY <2>1, <2>2
<1>5. /\ kpc' \in [Cancels -> {"idle", "refund", "stripe", "record", "finalize"}]
      /\ kres' \in [Cancels -> Ids \cup {NULL}]
      /\ kpay' \in [Cancels -> Checkouts \cup {NULL}]
    BY <1>1 DEF CancelStep, CancelRead, RefundAlreadyMade, RefundRead,
       RefundAtStripe, RecordRefund, FinalizeCancel, CancelThrows, CancelGoto,
       CancelEnds, Parts, CallTypeOK
<1>6. CallTypeOK'
    BY <1>1, <1>2, <1>5 DEF chkVars, hookVars, reconVars, Parts, CallTypeOK
<1>7. HookInv'
    BY <1>1, <1>2 DEF hookVars, HookInv
<1>8. CallInv'
    BY <1>1, <1>2 DEF CancelStep, CancelRead, RefundAlreadyMade, RefundRead,
       RefundAtStripe, RecordRefund, FinalizeCancel, CancelThrows, CancelGoto,
       CancelEnds, reconVars, Parts, CallTypeOK, CallInv
<1>9. QED
    BY <1>3, <1>4, <1>6, <1>7, <1>8 DEF Parts

\* reconcileTimedOut keeps them.
LEMMA ReconcileKeepsTypes ==
    ASSUME Inv0, ReconcileScan \/ ReconcileStep \/ ReconcileThrows
    PROVE  (Parts /\ HookInv /\ CallInv)'
<1>1. Parts /\ TableTypeOK /\ HookInv /\ CallInv
    BY TypeParts DEF Inv0
<1>2. UNCHANGED <<chkVars, hookVars, cancelVars, stripeVars, createdAt, linked,
                  eventId>>
    BY DEF ReconcileScan, ReconcileStep, NextStuck, RetrieveSession, ReconcileConfirm,
       confirmWithReservation, ReconcileDecline, declineWithReservation,
       ReconcileRecordFailure, ReconcileThrows, rowVars
<1>3. RowTypeOK'
    BY <1>1, <1>2 DEF ReconcileScan, ReconcileStep, NextStuck, RetrieveSession,
       ReconcileConfirm, confirmWithReservation, ReconcileDecline,
       declineWithReservation, ReconcileRecordFailure, ReconcileThrows,
       SetPayment, rowVars, Parts, RowTypeOK, PaymentStatus, CallInv
<1>4. StripeTypeOK'
    BY <1>1, <1>2 DEF stripeVars, Parts, StripeTypeOK
<1>5. /\ rpc' \in {"idle", "retrieve", "paid", "unpaid", "flag"}
      /\ rcur' \in Checkouts \cup {NULL}
      /\ todo' \subseteq Checkouts
      /\ rpc' # "idle" => rcur' \in Checkouts
    BY <1>1 DEF ReconcileScan, ReconcileStep, NextStuck, RetrieveSession,
       ReconcileConfirm, confirmWithReservation, ReconcileDecline,
       declineWithReservation, ReconcileRecordFailure, ReconcileThrows,
       StuckTimedOut, Parts, CallTypeOK, CallInv
<1>6. failures' \subseteq Ids
    BY <1>1, PaymentsAssumption DEF ReconcileScan, ReconcileStep,
       NextStuck, RetrieveSession, ReconcileConfirm, confirmWithReservation,
       ReconcileDecline, declineWithReservation, ReconcileRecordFailure,
       ReconcileThrows, Parts, CallTypeOK, CallInv
<1>7. CallTypeOK'
    BY <1>1, <1>2, <1>5, <1>6 DEF chkVars, hookVars, cancelVars, Parts,
       CallTypeOK
<1>8. HookInv' /\ CallInv'
    BY <1>1, <1>2, <1>5 DEF hookVars, stripeVars, cancelVars, HookInv, CallInv
<1>9. QED
    BY <1>3, <1>4, <1>7, <1>8 DEF Parts

\* Every step preserves the base invariant.
LEMMA Inv0Step ==
    ASSUME Inv0, [Next]_vars
    PROVE  Inv0'
<1>1. TableTypeOK'
    BY TableStep, TableTypeStep DEF Inv0, TypeOK
<1>2. ASSUME UNCHANGED <<rowVars, stripeVars, chkVars, hookVars, cancelVars,
                         reconVars, failures>>
      PROVE  (Parts /\ HookInv /\ CallInv)'
    BY <1>2, TypeParts DEF Inv0, Parts, RowTypeOK, StripeTypeOK, CallTypeOK,
       HookInv, CallInv, rowVars, stripeVars, chkVars, hookVars, cancelVars,
       reconVars
<1>3. (Parts /\ HookInv /\ CallInv)'
    BY <1>2, CheckoutKeepsTypes, StripeKeepsTypes, WebhookKeepsTypes,
       CancelKeepsTypes, ReconcileKeepsTypes
    DEF Next, Hold, SweepHolds, Clock, vars
<1>4. QED
    BY <1>1, <1>3, TypePartsPrime DEF Inv0

\* The base invariant of the payment proofs: types hold, a delivery being
\* handled has its event, and a call past its reads has what it read.
THEOREM Inv0Correct == Spec => []Inv0
BY Inv0Init, Inv0Step, PTL DEF Spec

(***************************************************************************)
(* Payment rows, Stripe's state and every call in flight keep their types; *)
(* in particular no handler dereferences a payment it has not read.        *)
(***************************************************************************)
THEOREM TypeCorrect == Spec => []TypeOK
BY Inv0Correct, PTL DEF Inv0

(***************************************************************************)
(* PaymentsService touches reservations only through the statements of     *)
(* ReservationTable.                                                       *)
(***************************************************************************)
THEOREM PaymentsImplementTable == Spec => TableSpec
<1>1. Init => TableInit
    BY DEF Init
<1>2. QED
    BY <1>1, Inv0Correct, TableStep, PTL DEF Spec, TableSpec

(***************************************************************************)
(* No seat is sold twice, however late, repeated or concurrent webhooks,   *)
(* cancellations and reconciliation runs confirm and cancel reservations.  *)
(***************************************************************************)
THEOREM PaymentsNoDoubleBooking == Spec => []NoDoubleBooking
BY PaymentsImplementTable, TableNoDoubleBooking, PTL

(***************************************************************************)
(* No payment path leaves a HELD row that the sweep cannot find.           *)
(***************************************************************************)
THEOREM PaymentsHeldHasDeadline == Spec => []HeldHasDeadline
BY PaymentsImplementTable, TableHeldHasDeadline, PTL

(***************************************************************************)
(* Webhooks, refunds and reconciliation, too, only ever make steps of the  *)
(* abstract seat inventory.                                                *)
(***************************************************************************)
THEOREM PaymentsImplementInventory == Spec => ImplementsInventory
BY PaymentsImplementTable, TableImplementsInventory

-----------------------------------------------------------------------------
(* A reservation is charged at most once                                   *)

\* Before a call reaches Stripe it has no session.
SessInv ==
    \A c \in Checkouts :
        chk[c] \in {"idle", "read", "created"} => sess[c] = "none"

\* A call past its insert has its row until its own catch block deletes it,
\* reservationId is unique, and only a returned URL is ever used.
RowInv ==
    /\ \A c \in Checkouts :
        chk[c] \in {"created", "opened", "saved", "returned", "cleanup"} =>
            Exists(c)
    /\ \A c, d \in Checkouts :
        Exists(c) /\ Exists(d) /\ ForRes[c] = ForRes[d] => c = d
    /\ \A c \in Checkouts : TakenUp(c) => chk[c] = "returned"

\* Steps that are neither a checkout's nor Stripe's.
OtherStep ==
    \/ SweepHolds \/ Clock \/ UNCHANGED vars
    \/ \E r \in Ids : Hold(r)
    \/ \E w \in Workers :
        \/ \E e \in Event : Receive(w, e)
        \/ WebhookStep(w) \/ WebhookThrows(w)
    \/ \E k \in Cancels : CancelStep(k)
    \/ ReconcileScan \/ ReconcileStep \/ ReconcileThrows

\* A step is one of checkout, of Stripe, or of what follows a checkout.
LEMMA StepKinds ==
    ASSUME [Next]_vars
    PROVE  \/ OtherStep
           \/ \E c \in Checkouts : CheckoutStep(c) \/ StripeSteps(c)
BY DEF Next, OtherStep

\* They update rows and never insert or delete one.
LEMMA OtherStepLemma ==
    ASSUME Inv0, OtherStep
    PROVE  /\ UNCHANGED <<sess, chk, sent>>
           /\ \A c \in Checkouts : Exists(c)' <=> Exists(c)
<1>1. TypeOK /\ CallInv
    BY DEF Inv0
<1>2. CASE SweepHolds \/ Clock \/ UNCHANGED vars \/ \E r \in Ids : Hold(r)
    BY <1>2 DEF SweepHolds, Clock, Hold, vars, rowVars, stripeVars, chkVars,
       Exists
<1>3. ASSUME NEW w \in Workers,
             \/ \E e \in Event : Receive(w, e)
             \/ WebhookStep(w) \/ WebhookThrows(w)
      PROVE  /\ UNCHANGED <<sess, chk, sent>>
             /\ \A c \in Checkouts : Exists(c)' <=> Exists(c)
    <2>1. UNCHANGED <<sess, chk, sent>>
        BY <1>3 DEF Receive, WebhookStep, WebhookConfirm, WebhookSucceed,
           WebhookUnpaid, WebhookExpired, WebhookFailed, WebhookRecordFailure,
           WebhookDispute, WebhookIgnores, WebhookThrows, WebhookSetStatus,
           stripeVars, chkVars
    <2>2. \/ pstatus' = pstatus
          \/ \E c \in Checkouts, st \in PaymentStatus :
                Exists(c) /\ SetPayment(c, st)
        <3>1. hpc[w] # "idle" => hev[w][2] \in Checkouts
            BY HookTyped
        <3>2. QED
            BY <1>3, <3>1 DEF Receive, WebhookStep, WebhookConfirm,
               WebhookSucceed, WebhookUnpaid, WebhookExpired, WebhookFailed,
               WebhookRecordFailure, WebhookDispute, WebhookIgnores,
               WebhookThrows, WebhookSetStatus, Handling, rowVars,
               PaymentStatus
    <2>3. QED
        BY <1>1, <2>1, <2>2 DEF SetPayment, Exists, PaymentStatus, TypeOK
<1>4. ASSUME NEW k \in Cancels, CancelStep(k)
      PROVE  /\ UNCHANGED <<sess, chk, sent>>
             /\ \A c \in Checkouts : Exists(c)' <=> Exists(c)
    <2>1. UNCHANGED <<sess, chk, sent>>
        BY <1>4 DEF CancelStep, CancelRead, RefundAlreadyMade, RefundRead,
           RefundAtStripe, RecordRefund, FinalizeCancel, CancelThrows,
           stripeVars, chkVars
    <2>2. \/ pstatus' = pstatus
          \/ \E c \in Checkouts, st \in PaymentStatus :
                Exists(c) /\ SetPayment(c, st)
        BY <1>1, <1>4 DEF CancelStep, CancelRead, RefundAlreadyMade,
           RefundRead, RefundAtStripe, RecordRefund, FinalizeCancel,
           CancelThrows, rowVars, CallInv, PaymentStatus
    <2>3. QED
        BY <1>1, <2>1, <2>2 DEF SetPayment, Exists, PaymentStatus, TypeOK
<1>5. CASE ReconcileScan \/ ReconcileStep \/ ReconcileThrows
    <2>1. UNCHANGED <<sess, chk, sent>>
        BY <1>5 DEF ReconcileScan, ReconcileStep, NextStuck, RetrieveSession,
           ReconcileConfirm, confirmWithReservation, ReconcileDecline,
           declineWithReservation, ReconcileRecordFailure, ReconcileThrows,
           stripeVars, chkVars
    <2>2. \/ pstatus' = pstatus
          \/ \E c \in Checkouts, st \in PaymentStatus :
                Exists(c) /\ SetPayment(c, st)
        BY <1>1, <1>5 DEF ReconcileScan, ReconcileStep, NextStuck, RetrieveSession,
           ReconcileConfirm, confirmWithReservation, ReconcileDecline,
           declineWithReservation, ReconcileRecordFailure, ReconcileThrows,
           rowVars, CallInv, PaymentStatus
    <2>3. QED
        BY <1>1, <2>1, <2>2 DEF SetPayment, Exists, PaymentStatus, TypeOK
<1>6. QED
    BY <1>2, <1>3, <1>4, <1>5 DEF OtherStep

\* A session that was paid stays paid.
LEMMA SessionStep ==
    ASSUME Inv0, SessInv, [Next]_vars
    PROVE  /\ SessInv'
           /\ \A c \in Checkouts : sess[c] = "paid" => sess'[c] = "paid"
<1>1. TypeOK
    BY DEF Inv0
<1>2. CASE OtherStep
    BY <1>2, OtherStepLemma DEF SessInv
<1>3. ASSUME NEW c \in Checkouts, CheckoutStep(c)
      PROVE  /\ SessInv'
             /\ \A d \in Checkouts : sess[d] = "paid" => sess'[d] = "paid"
    BY <1>1, <1>3 DEF CheckoutStep, CheckoutRead, CreatePayment,
       CreateConflicts, OpenSession, SaveSession, ReturnUrl, CheckoutThrows,
       DeletePayment, CheckoutDies, CheckoutGoto, stripeVars, SessInv, TypeOK
<1>4. ASSUME NEW c \in Checkouts, StripeSteps(c)
      PROVE  /\ SessInv'
             /\ \A d \in Checkouts : sess[d] = "paid" => sess'[d] = "paid"
    <2>1. chk' = chk /\ sess[c] # "none"
        BY <1>4 DEF StripeSteps, Pay, PayLater, AsyncFails, AsyncSettles,
           ExpireSession, SettleLate, OpenDispute, StripeStep, chkVars
    <2>2. \E to \in SessionState :
            /\ sess' = [sess EXCEPT ![c] = to]
            /\ sess[c] = "paid" => to = "paid"
        BY <1>4 DEF StripeSteps, Pay, PayLater, AsyncFails, AsyncSettles,
           ExpireSession, SettleLate, OpenDispute, StripeStep, SessionState
    <2>3. QED
        BY <1>1, <2>1, <2>2 DEF SessInv, TypeOK
<1>5. QED
    BY <1>2, <1>3, <1>4, StepKinds

\* Every step preserves the one-row-per-reservation facts.
LEMMA RowStep ==
    ASSUME Inv0, SessInv, RowInv, [Next]_vars
    PROVE  RowInv'
<1>1. TypeOK
    BY DEF Inv0
<1>2. CASE OtherStep
    BY <1>2, OtherStepLemma DEF RowInv, TakenUp
<1>3. ASSUME NEW c \in Checkouts, CheckoutStep(c)
      PROVE  RowInv'
    <2>1. CASE CreatePayment(c)
        BY <1>1, <2>1 DEF CreatePayment, CheckoutGoto, SetPayment, stripeVars,
           PaymentsOf, Exists, TakenUp, RowInv, TypeOK
    <2>2. CASE DeletePayment(c)
        BY <1>1, <2>2 DEF DeletePayment, CheckoutGoto, SetPayment, stripeVars,
           Exists, TakenUp, RowInv, TypeOK
    <2>3. CASE OpenSession(c)
        BY <1>1, <2>3 DEF OpenSession, CheckoutGoto, rowVars, Exists, TakenUp,
           RowInv, TypeOK
    <2>4. CASE \/ CheckoutRead(c) \/ CreateConflicts(c) \/ SaveSession(c)
               \/ ReturnUrl(c) \/ CheckoutThrows(c) \/ CheckoutDies(c)
        BY <1>1, <2>4 DEF CheckoutRead, CreateConflicts, SaveSession,
           ReturnUrl, CheckoutThrows, CheckoutDies, CheckoutGoto, rowVars,
           stripeVars, Exists, TakenUp, RowInv, TypeOK
    <2>5. QED
        BY <1>3, <2>1, <2>2, <2>3, <2>4 DEF CheckoutStep
<1>4. ASSUME NEW c \in Checkouts, StripeSteps(c)
      PROVE  RowInv'
    <2>1. UNCHANGED <<chk, pstatus>>
        BY <1>4 DEF StripeSteps, Pay, PayLater, AsyncFails, AsyncSettles,
           ExpireSession, SettleLate, OpenDispute, StripeStep, chkVars, rowVars
    <2>2. \E to \in SessionState :
            /\ sess' = [sess EXCEPT ![c] = to]
            /\ to \in {"processing", "paid", "failed"} => chk[c] = "returned"
        BY <1>4 DEF StripeSteps, Pay, PayLater, AsyncFails, AsyncSettles,
           ExpireSession, SettleLate, OpenDispute, StripeStep, SessionState,
           Payable, RowInv, TakenUp
    <2>3. QED
        BY <1>1, <2>1, <2>2 DEF RowInv, Exists, TakenUp, TypeOK
<1>5. QED
    BY <1>2, <1>3, <1>4, StepKinds

\* reservationId is unique: a reservation has one payment row at a time, and
\* a session that can be paid belongs to a row that is never deleted.
THEOREM RowInvCorrect == Spec => [](SessInv /\ RowInv)
<1>1. Init => SessInv /\ RowInv
    BY DEF Init, SessInv, RowInv, TakenUp, Exists
<1>2. QED
    BY <1>1, Inv0Correct, SessionStep, RowStep, PTL DEF Spec

(***************************************************************************)
(* However checkouts of one reservation race, fail and are retried, the    *)
(* customer is charged through at most one of their sessions.              *)
(***************************************************************************)
THEOREM NeverChargedTwice == Spec => []ChargedAtMostOnce
<1>1. RowInv => ChargedAtMostOnce
    BY DEF RowInv, ChargedAtMostOnce
<1>2. QED
    BY <1>1, RowInvCorrect, PTL

-----------------------------------------------------------------------------
(* Bookings and refunds are backed by a payment                            *)

\* Whatever lets a handler confirm or refund is evidence of a paid session:
\* an event, a stored stripePaymentId, or an answer kept since an await.
PaidInv ==
    /\ \A c \in Checkouts : <<"completed_paid", c>> \in sent => sess[c] = "paid"
    /\ \A c \in intent : sess[c] = "paid"
    /\ rpc = "paid" => sess[rcur] = "paid"
    /\ \A k \in Cancels : kpc[k] = "stripe" => sess[kpay[k]] = "paid"

\* Stripe remembers every refund by its idempotency key.
RefundInv ==
    \A c \in Checkouts :
        /\ refunds[c] <= 1
        /\ refunds[c] > 0 => c \in keys /\ sess[c] = "paid"

PaidStable == \A c \in Checkouts : sess[c] = "paid" => sess'[c] = "paid"

\* A delivery that may confirm or that has confirmed is about a paid session.
LEMMA PaidEventLemma ==
    ASSUME Inv0, PaidInv, NEW w \in Workers, hpc[w] # "idle",
           hev[w][1] = "completed_paid"
    PROVE  hev[w][2] \in Checkouts /\ sess[hev[w][2]] = "paid"
<1>1. hev[w] \in sent /\ hev[w] \in Event
    BY HookTyped DEF Inv0, HookInv
<1>2. PICK t \in EventType, c \in Checkouts : hev[w] = <<t, c>>
    BY <1>1 DEF Event
<1>3. hev[w] = <<"completed_paid", c>> /\ hev[w][2] = c
    BY <1>2
<1>4. QED
    BY <1>1, <1>3 DEF PaidInv

\* Every step preserves the evidence that a payment was made.
LEMMA PaidStep ==
    ASSUME Inv0, SessInv, PaidInv, PaidStable, [Next]_vars
    PROVE  PaidInv'
<1>1. TypeOK /\ CallInv /\ HookInv
    BY DEF Inv0
<1>2. ASSUME UNCHANGED <<sent, intent, rpc, rcur, kpc, kpay>>
      PROVE  PaidInv'
    BY <1>1, <1>2 DEF PaidInv, PaidStable, TypeOK, CallInv
<1>3. ASSUME NEW c \in Checkouts, CheckoutStep(c)
      PROVE  PaidInv'
    <2>1. /\ UNCHANGED <<sent, rpc, rcur, kpc, kpay>>
          /\ intent' \subseteq intent
        BY <1>3 DEF CheckoutStep, CheckoutRead, CreatePayment,
           CreateConflicts, OpenSession, SaveSession, ReturnUrl,
           CheckoutThrows, DeletePayment, CheckoutDies, rowVars, stripeVars,
           cancelVars, reconVars
    <2>2. QED
        BY <1>1, <2>1 DEF PaidInv, PaidStable, TypeOK, CallInv
<1>4. ASSUME NEW c \in Checkouts, StripeSteps(c)
      PROVE  PaidInv'
    <2>1. UNCHANGED <<intent, rpc, rcur, kpc, kpay>>
        BY <1>4 DEF StripeSteps, Pay, PayLater, AsyncFails, AsyncSettles,
           ExpireSession, SettleLate, OpenDispute, StripeStep, rowVars,
           cancelVars, reconVars
    <2>2. PICK from \in SessionState, to \in SessionState,
               events \in SUBSET EventType :
            /\ StripeStep(c, from, to, events)
            /\ "completed_paid" \in events => to = "paid"
        BY <1>4 DEF StripeSteps, Pay, PayLater, AsyncFails, AsyncSettles,
           ExpireSession, SettleLate, OpenDispute, SessionState, EventType
    <2>3. \A d \in Checkouts :
            <<"completed_paid", d>> \in sent' => sess'[d] = "paid"
        BY <1>1, <2>2 DEF StripeStep, PaidInv, PaidStable, TypeOK
    <2>4. QED
        BY <1>1, <2>1, <2>3 DEF PaidInv, PaidStable, TypeOK, CallInv
<1>5. ASSUME NEW w \in Workers,
             \/ \E e \in Event : Receive(w, e)
             \/ WebhookStep(w) \/ WebhookThrows(w)
      PROVE  PaidInv'
    <2>1. UNCHANGED <<sent, rpc, rcur, kpc, kpay>>
        BY <1>5 DEF Receive, WebhookStep, WebhookConfirm, WebhookSucceed,
           WebhookUnpaid, WebhookExpired, WebhookFailed, WebhookRecordFailure,
           WebhookDispute, WebhookIgnores, WebhookThrows, WebhookSetStatus,
           stripeVars, cancelVars, reconVars
    <2>2. CASE WebhookSucceed(w)
        <3>1. hpc[w] # "idle" /\ hev[w][1] = "completed_paid"
            BY <1>1, <2>2 DEF WebhookSucceed, HookInv
        <3>2. intent' = intent \cup {hev[w][2]}
            BY <2>2 DEF WebhookSucceed
        <3>3. QED
            BY <1>1, <2>1, <3>1, <3>2, PaidEventLemma
            DEF PaidInv, PaidStable, TypeOK, CallInv
    <2>3. CASE ~ WebhookSucceed(w)
        <3>1. intent' = intent
            BY <1>5, <2>3 DEF Receive, WebhookStep, WebhookConfirm,
               WebhookUnpaid, WebhookExpired, WebhookFailed,
               WebhookRecordFailure, WebhookDispute, WebhookIgnores,
               WebhookThrows, WebhookSetStatus, rowVars
        <3>2. QED
            BY <1>2, <2>1, <3>1
    <2>4. QED
        BY <2>2, <2>3
<1>6. ASSUME NEW k \in Cancels, CancelStep(k)
      PROVE  PaidInv'
    <2>1. UNCHANGED <<sent, intent, rpc, rcur>>
        BY <1>6 DEF CancelStep, CancelRead, RefundAlreadyMade, RefundRead,
           RefundAtStripe, RecordRefund, FinalizeCancel, CancelThrows, rowVars,
           stripeVars, reconVars
    <2>2. \A j \in Cancels : kpc'[j] = "stripe" =>
            kpay'[j] \in Checkouts /\ sess[kpay'[j]] = "paid"
        BY <1>1, <1>6 DEF CancelStep, CancelRead, RefundAlreadyMade,
           RefundRead, RefundAtStripe, RecordRefund, FinalizeCancel,
           CancelThrows, CancelGoto, CancelEnds, PaidInv, TypeOK, CallInv
    <2>3. QED
        BY <1>1, <2>1, <2>2 DEF PaidInv, PaidStable, TypeOK, CallInv
<1>7. CASE ReconcileScan \/ ReconcileStep \/ ReconcileThrows
    <2>1. UNCHANGED <<sent, kpc, kpay>>
        BY <1>7 DEF ReconcileScan, ReconcileStep, NextStuck, RetrieveSession,
           ReconcileConfirm, confirmWithReservation, ReconcileDecline,
           declineWithReservation, ReconcileRecordFailure, ReconcileThrows,
           stripeVars, cancelVars
    <2>2. \A c \in intent' : c \in Checkouts /\ sess[c] = "paid"
        BY <1>1, <1>7 DEF ReconcileScan, ReconcileStep, NextStuck, RetrieveSession,
           ReconcileConfirm, confirmWithReservation, ReconcileDecline,
           declineWithReservation, ReconcileRecordFailure, ReconcileThrows,
           rowVars, PaidInv, TypeOK, CallInv
    <2>3. rpc' = "paid" => rcur' \in Checkouts /\ sess[rcur'] = "paid"
        BY <1>1, <1>7 DEF ReconcileScan, ReconcileStep, NextStuck, RetrieveSession,
           ReconcileConfirm, confirmWithReservation, ReconcileDecline,
           declineWithReservation, ReconcileRecordFailure, ReconcileThrows,
           PaidInv, TypeOK, CallInv
    <2>4. QED
        BY <1>1, <2>1, <2>2, <2>3 DEF PaidInv, PaidStable, TypeOK, CallInv
<1>8. CASE SweepHolds \/ Clock \/ UNCHANGED vars \/ \E r \in Ids : Hold(r)
    BY <1>2, <1>8 DEF SweepHolds, Clock, Hold, vars, rowVars, stripeVars,
       cancelVars, reconVars
<1>9. QED
    BY <1>3, <1>4, <1>5, <1>6, <1>7, <1>8 DEF Next

\* Only two statements make a reservation CONFIRMED, both on evidence.
LEMMA ConfirmStep ==
    ASSUME Inv0, PaidInv, [Next]_vars, NEW r \in Ids,
           status'[r] = "CONFIRMED", status[r] # "CONFIRMED"
    PROVE  \E c \in Checkouts : ForRes[c] = r /\ sess[c] = "paid"
<1>1. TypeOK /\ CallInv /\ TableTypeOK
    BY DEF Inv0, TypeOK
<1>2. ASSUME NEW q \in Ids, Confirm(q)
      PROVE  q = r
    BY <1>1, <1>2 DEF Confirm, TableTypeOK
<1>3. ASSUME NEW w \in Workers, WebhookConfirm(w)
      PROVE  \E c \in Checkouts : ForRes[c] = r /\ sess[c] = "paid"
    <2>1. hpc[w] # "idle" /\ hev[w][1] = "completed_paid"
        BY <1>3 DEF WebhookConfirm, Handling
    <2>2. hev[w][2] \in Checkouts /\ sess[hev[w][2]] = "paid"
        BY <2>1, PaidEventLemma
    <2>3. ForRes[hev[w][2]] = r
        BY <1>2, <1>3, <2>2, PaymentsAssumption DEF WebhookConfirm
    <2>4. QED
        BY <2>2, <2>3
<1>4. CASE ReconcileConfirm
    <2>1. rcur \in Checkouts /\ sess[rcur] = "paid"
        BY <1>1, <1>4 DEF ReconcileConfirm, confirmWithReservation, PaidInv,
           CallInv
    <2>2. ForRes[rcur] = r
        BY <1>2, <1>4, <2>1, PaymentsAssumption DEF ReconcileConfirm,
           confirmWithReservation
    <2>3. QED
        BY <2>1, <2>2
<1>5. ASSUME status' = status
      PROVE  FALSE
    BY <1>5
<1>6. ASSUME NEW q \in Ids, SetCancelled(q)
      PROVE  FALSE
    BY <1>1, <1>6 DEF SetCancelled, TableTypeOK
<1>7. ASSUME NEW q \in Ids, Hold(q)
      PROVE  FALSE
    BY <1>1, <1>7 DEF Hold, InsertHeld, TableTypeOK
<1>8. CASE SweepHolds \/ Clock \/ UNCHANGED vars
    BY <1>1, <1>8 DEF SweepHolds, Clock, ReleaseExpiredHolds, Tick, vars,
       tableVars, TableTypeOK
<1>9. ASSUME NEW c \in Checkouts, CheckoutStep(c) \/ StripeSteps(c)
      PROVE  FALSE
    BY <1>5, <1>9 DEF CheckoutStep, CheckoutRead, CreatePayment,
       CreateConflicts, OpenSession, SaveSession, ReturnUrl, CheckoutThrows,
       DeletePayment, CheckoutDies, StripeSteps, Pay, PayLater, AsyncFails,
       AsyncSettles, ExpireSession, SettleLate, OpenDispute, StripeStep,
       ExtendHold, tableVars
<1>10. ASSUME NEW w \in Workers,
              \/ \E e \in Event : Receive(w, e)
              \/ WebhookSucceed(w) \/ WebhookUnpaid(w) \/ WebhookExpired(w)
              \/ WebhookFailed(w) \/ WebhookRecordFailure(w)
              \/ WebhookDispute(w) \/ WebhookIgnores(w) \/ WebhookThrows(w)
       PROVE  FALSE
    BY <1>5, <1>10 DEF Receive, WebhookSucceed, WebhookUnpaid, WebhookExpired,
       WebhookFailed, WebhookRecordFailure, WebhookDispute, WebhookIgnores,
       WebhookThrows, WebhookSetStatus, tableVars
<1>11. ASSUME NEW k \in Cancels, CancelStep(k)
       PROVE  FALSE
    <2>1. CASE FinalizeCancel(k)
        BY <1>1, <1>6, <2>1 DEF FinalizeCancel, CallInv
    <2>2. CASE ~ FinalizeCancel(k)
        BY <1>5, <1>11, <2>2 DEF CancelStep, CancelRead, RefundAlreadyMade,
           RefundRead, RefundAtStripe, RecordRefund, CancelThrows, tableVars
    <2>3. QED
        BY <2>1, <2>2
<1>12. CASE ReconcileDecline
    <2>1. ForRes[rcur] \in Ids
        BY <1>1, <1>12, PaymentsAssumption DEF ReconcileDecline,
           declineWithReservation, CallInv
    <2>2. QED
        BY <1>6, <1>12, <2>1 DEF ReconcileDecline, declineWithReservation
<1>13. CASE \/ ReconcileScan \/ ReconcileThrows \/ ReconcileRecordFailure
            \/ \E c \in Checkouts : NextStuck(c) \/ RetrieveSession(c)
    BY <1>5, <1>13 DEF ReconcileScan, ReconcileThrows, ReconcileRecordFailure,
       NextStuck, RetrieveSession, tableVars
<1>14. QED
    BY <1>3, <1>4, <1>7, <1>8, <1>9, <1>10, <1>11, <1>12, <1>13
    DEF Next, WebhookStep, ReconcileStep

\* Every completed event, SUCCEEDED row and confirming call is about a
\* session that Stripe was really paid for.
THEOREM PaidInvCorrect == Spec => []PaidInv
<1>1. Init => PaidInv
    BY DEF Init, PaidInv
<1>2. ASSUME Inv0, SessInv, PaidInv, [Next]_vars
      PROVE  PaidInv'
    BY <1>2, PaidStep, SessionStep DEF PaidStable
<1>3. QED
    BY <1>1, <1>2, Inv0Correct, RowInvCorrect, PTL DEF Spec

(***************************************************************************)
(* Every CONFIRMED reservation has been paid for at Stripe.                *)
(***************************************************************************)
THEOREM BookingsArePaid == Spec => []ConfirmedOnlyIfPaid
<1>1. Init => ConfirmedOnlyIfPaid
    BY DEF Init, TableInit, ConfirmedOnlyIfPaid
<1>2. ASSUME Inv0, SessInv, PaidInv, ConfirmedOnlyIfPaid, [Next]_vars
      PROVE  ConfirmedOnlyIfPaid'
    BY <1>2, ConfirmStep, SessionStep DEF ConfirmedOnlyIfPaid
<1>3. QED
    BY <1>1, <1>2, Inv0Correct, RowInvCorrect, PaidInvCorrect, PTL DEF Spec

\* Every step preserves the refund bookkeeping.
LEMMA RefundStep ==
    ASSUME Inv0, PaidInv, RefundInv, PaidStable, [Next]_vars
    PROVE  RefundInv'
<1>1. TypeOK /\ CallInv
    BY DEF Inv0
<1>2. ASSUME NEW k \in Cancels, RefundAtStripe(k)
      PROVE  RefundInv'
    <2>1. kpay[k] \in Checkouts /\ sess[kpay[k]] = "paid" /\ sess' = sess
        BY <1>1, <1>2 DEF RefundAtStripe, PaidInv, CallInv
    <2>2. keys' = keys \cup {kpay[k]}
        BY <1>2 DEF RefundAtStripe
    <2>3. CASE kpay[k] \in keys
        BY <1>2, <2>1, <2>2, <2>3 DEF RefundAtStripe, RefundInv
    <2>4. CASE kpay[k] \notin keys
        <3>1. refunds' = [refunds EXCEPT ![kpay[k]] = @ + 1]
            BY <1>2, <2>4 DEF RefundAtStripe
        <3>2. refunds[kpay[k]] = 0
            BY <1>1, <2>1, <2>4 DEF RefundInv, TypeOK
        <3>3. QED
            BY <1>1, <2>1, <2>2, <3>1, <3>2 DEF RefundInv, TypeOK
    <2>5. QED
        BY <2>3, <2>4
<1>3. ASSUME UNCHANGED <<refunds, keys>>
      PROVE  RefundInv'
    BY <1>3 DEF RefundInv, PaidStable
<1>4. ASSUME NEW k \in Cancels, CancelStep(k), ~ RefundAtStripe(k)
      PROVE  UNCHANGED <<refunds, keys>>
    BY <1>4 DEF CancelStep, CancelRead, RefundAlreadyMade, RefundRead,
       RecordRefund, FinalizeCancel, CancelThrows, stripeVars
<1>5. ASSUME NEW c \in Checkouts, CheckoutStep(c) \/ StripeSteps(c)
      PROVE  UNCHANGED <<refunds, keys>>
    BY <1>5 DEF CheckoutStep, CheckoutRead, CreatePayment,
       CreateConflicts, OpenSession, SaveSession, ReturnUrl, CheckoutThrows,
       DeletePayment, CheckoutDies, StripeSteps, Pay, PayLater, AsyncFails,
       AsyncSettles, ExpireSession, SettleLate, OpenDispute, StripeStep,
       stripeVars
<1>6. ASSUME NEW w \in Workers,
             \/ \E e \in Event : Receive(w, e)
             \/ WebhookStep(w) \/ WebhookThrows(w)
      PROVE  UNCHANGED <<refunds, keys>>
    BY <1>6 DEF Receive, WebhookStep, WebhookConfirm, WebhookSucceed,
       WebhookUnpaid, WebhookExpired, WebhookFailed, WebhookRecordFailure,
       WebhookDispute, WebhookIgnores, WebhookThrows, WebhookSetStatus,
       stripeVars
<1>7. \/ ReconcileScan \/ ReconcileStep \/ ReconcileThrows
      \/ SweepHolds \/ Clock \/ UNCHANGED vars \/ \E r \in Ids : Hold(r)
      => UNCHANGED <<refunds, keys>>
    BY DEF ReconcileScan, ReconcileStep, NextStuck, RetrieveSession, ReconcileConfirm,
       confirmWithReservation, ReconcileDecline, declineWithReservation,
       ReconcileRecordFailure, ReconcileThrows, SweepHolds, Clock, Hold, vars,
       stripeVars
<1>8. QED
    BY <1>2, <1>3, <1>4, <1>5, <1>6, <1>7 DEF Next

(***************************************************************************)
(* Racing and repeated cancellations refund a payment at most once, and    *)
(* only a payment that was really made.                                    *)
(***************************************************************************)
THEOREM NeverRefundedTwice == Spec => []RefundedAtMostOnce
<1>1. Init => RefundInv
    BY DEF Init, RefundInv
<1>2. ASSUME Inv0, SessInv, PaidInv, RefundInv, [Next]_vars
      PROVE  RefundInv'
    BY <1>2, RefundStep, SessionStep DEF PaidStable
<1>3. RefundInv => RefundedAtMostOnce
    BY DEF RefundInv, RefundedAtMostOnce
<1>4. QED
    BY <1>1, <1>2, <1>3, Inv0Correct, RowInvCorrect, PaidInvCorrect, PTL
    DEF Spec

-----------------------------------------------------------------------------
(* What was paid is not written off                                        *)

\* A call in flight is younger than CallTime, and the session it opened
\* lives for CheckoutTime from then on.
TimeInv ==
    \A c \in Checkouts :
        /\ c \in Busy => now <= since[c] + CallTime
        /\ since[c] <= now
        /\ sess[c] # "none" => since[c] + CheckoutTime <= expiresAt[c]

\* Stripe has announced that it has given the session up.
Dead(c) == \E t \in {"expired", "async_failed"} : <<t, c>> \in sent

\* The checkout call has left its row for good.
Over(c) == chk[c] \in {"returned", "ended"}

\* Whatever lets a handler write a payment off is evidence that its session
\* is dead, and the row it was written to is still there.
DeadInv ==
    /\ \A c \in Checkouts : <<"async_failed", c>> \in sent => sess[c] = "failed"
    /\ \A c \in Checkouts : Dead(c) => Over(c)
    /\ \A c \in Checkouts :
        pstatus[c] \in {"TIMED_OUT", "FAILED", "DECLINED"} => Dead(c)
    /\ \A c \in todo : Dead(c)
    /\ rpc \in {"retrieve", "unpaid", "flag"} => Dead(rcur)
    /\ rpc = "flag" => Exists(rcur)
    /\ \A w \in Workers : hpc[w] = "flag" =>
        Dead(hev[w][2]) /\ Exists(hev[w][2])
    /\ \A r \in failures :
        \E d \in Checkouts : ForRes[d] = r /\ Dead(d) /\ Exists(d)

DeadStable ==
    \A c \in Checkouts :
        Dead(c) => Dead(c)' /\ Over(c)' /\ (Exists(c) => Exists(c)')

\* The clock waits for calls in flight, so it never outruns a session.
LEMMA TimeStep ==
    ASSUME Inv0, SessInv, TimeInv, [Next]_vars
    PROVE  TimeInv'
<1>1. /\ TypeOK /\ now \in Nat
      /\ \A c \in Checkouts : since[c] \in Nat /\ expiresAt[c] \in Nat
      /\ CallTime \in Nat /\ CheckoutTime \in Nat
    BY TimeAssumption, PaymentsAssumption
    DEF Inv0, TypeOK, TableTypeOK, Times, Deadlines
<1>2. CASE Clock
    <2>1. /\ UNCHANGED <<since, chk, sess, expiresAt>>
          /\ now' = now + 1
          /\ \A c \in Busy : now < since[c] + CallTime
        BY <1>2 DEF Clock, Tick, chkVars, stripeVars
    <2>2. QED
        BY <1>1, <2>1 DEF TimeInv, Busy
<1>3. ASSUME NEW c \in Checkouts, CheckoutStep(c)
      PROVE  TimeInv'
    <2>1. now' = now
        BY <1>3 DEF CheckoutStep, CheckoutRead, CreatePayment,
           CreateConflicts, OpenSession, SaveSession, ReturnUrl,
           CheckoutThrows, DeletePayment, CheckoutDies, ExtendHold, tableVars
    <2>2. CASE CheckoutRead(c)
        BY <1>1, <2>1, <2>2 DEF CheckoutRead, CheckoutGoto, stripeVars, TimeInv,
           SessInv, Busy, TypeOK
    <2>3. CASE OpenSession(c)
        BY <1>1, <2>1, <2>3 DEF OpenSession, CheckoutGoto, TimeInv, Busy, TypeOK
    <2>4. CASE \/ CreatePayment(c) \/ CreateConflicts(c) \/ SaveSession(c)
               \/ ReturnUrl(c) \/ CheckoutThrows(c) \/ DeletePayment(c)
               \/ CheckoutDies(c)
        BY <1>1, <2>1, <2>4 DEF CreatePayment, CreateConflicts, SaveSession,
           ReturnUrl, CheckoutThrows, DeletePayment, CheckoutDies,
           CheckoutGoto, stripeVars, TimeInv, Busy, TypeOK
    <2>5. QED
        BY <1>3, <2>2, <2>3, <2>4 DEF CheckoutStep
<1>4. ASSUME NEW c \in Checkouts, StripeSteps(c)
      PROVE  TimeInv'
    <2>1. /\ UNCHANGED <<now, since, chk, expiresAt>>
          /\ sess[c] # "none"
          /\ \E to \in SessionState : sess' = [sess EXCEPT ![c] = to]
        BY <1>4 DEF StripeSteps, Pay, PayLater, AsyncFails, AsyncSettles,
           ExpireSession, SettleLate, OpenDispute, StripeStep, chkVars,
           tableVars, SessionState
    <2>2. QED
        BY <1>1, <2>1 DEF TimeInv, Busy, TypeOK
<1>5. CASE OtherStep /\ ~ Clock
    <2>1. UNCHANGED <<since, chk, sess, expiresAt, now>>
        BY <1>5 DEF OtherStep, SweepHolds, ReleaseExpiredHolds, Hold,
           InsertHeld, Receive, WebhookStep, WebhookConfirm, WebhookSucceed,
           WebhookUnpaid, WebhookExpired, WebhookFailed, WebhookRecordFailure,
           WebhookDispute, WebhookIgnores, WebhookThrows, WebhookSetStatus,
           CancelStep, CancelRead, RefundAlreadyMade, RefundRead,
           RefundAtStripe, RecordRefund, FinalizeCancel, CancelThrows,
           ReconcileScan, ReconcileStep, NextStuck, RetrieveSession, ReconcileConfirm,
           confirmWithReservation, ReconcileDecline, declineWithReservation,
           ReconcileRecordFailure, ReconcileThrows, Confirm, SetCancelled,
           vars, tableVars, stripeVars, chkVars
    <2>2. QED
        BY <2>1 DEF TimeInv, Busy
<1>6. QED
    BY <1>2, <1>3, <1>4, <1>5, StepKinds

\* What was announced stays announced, and the row stays there.
LEMMA DeadStableLemma ==
    ASSUME Inv0, SessInv, RowInv, DeadInv, [Next]_vars
    PROVE  DeadStable
<1>1. TypeOK
    BY DEF Inv0
<1>2. CASE OtherStep
    BY <1>2, OtherStepLemma DEF DeadInv, DeadStable, Dead, Over
<1>3. ASSUME NEW c \in Checkouts, CheckoutStep(c)
      PROVE  DeadStable
    <2>1. ~ Over(c)
        BY <1>3 DEF CheckoutStep, CheckoutRead, CreatePayment,
           CreateConflicts, OpenSession, SaveSession, ReturnUrl,
           CheckoutThrows, DeletePayment, CheckoutDies, Over
    <2>2. /\ sent' = sent
          /\ \A d \in Checkouts \ {c} :
                chk'[d] = chk[d] /\ pstatus'[d] = pstatus[d]
        BY <1>1, <1>3 DEF CheckoutStep, CheckoutRead, CreatePayment,
           CreateConflicts, OpenSession, SaveSession, ReturnUrl,
           CheckoutThrows, DeletePayment, CheckoutDies, CheckoutGoto,
           SetPayment, rowVars, stripeVars, TypeOK
    <2>3. QED
        BY <2>1, <2>2 DEF DeadInv, DeadStable, Dead, Over, Exists
<1>4. ASSUME NEW c \in Checkouts, StripeSteps(c)
      PROVE  DeadStable
    <2>1. UNCHANGED <<chk, pstatus>>
        BY <1>4 DEF StripeSteps, Pay, PayLater, AsyncFails, AsyncSettles,
           ExpireSession, SettleLate, OpenDispute, StripeStep, chkVars, rowVars
    <2>2. sent \subseteq sent'
        BY <1>4 DEF StripeSteps, Pay, PayLater, AsyncFails, AsyncSettles,
           ExpireSession, SettleLate, OpenDispute, StripeStep
    <2>3. QED
        BY <2>1, <2>2 DEF DeadInv, DeadStable, Dead, Over, Exists
<1>5. QED
    BY <1>2, <1>3, <1>4, StepKinds

\* A session only dies once its checkout call is over.
LEMMA DyingLemma ==
    ASSUME Inv0, SessInv, RowInv, TimeInv, NEW c \in Checkouts,
           AsyncFails(c) \/ ExpireSession(c)
    PROVE  Over(c)
<1>1. CASE AsyncFails(c)
    BY <1>1 DEF AsyncFails, StripeStep, RowInv, TakenUp, Over
<1>2. CASE ExpireSession(c)
    <2>1. /\ now \in Nat /\ since[c] \in Nat /\ expiresAt[c] \in Nat
          /\ CallTime \in Nat /\ CheckoutTime \in Nat
          /\ CallTime < CheckoutTime
        BY TimeAssumption, PaymentsAssumption
        DEF Inv0, TypeOK, TableTypeOK, Times, Deadlines
    <2>2. sess[c] = "open" /\ now >= expiresAt[c]
        BY <1>2 DEF ExpireSession, StripeStep
    <2>3. c \notin Busy
        BY <2>1, <2>2 DEF TimeInv
    <2>4. QED
        BY <2>2, <2>3 DEF Busy, SessInv, Over, Inv0, TypeOK
<1>3. QED
    BY <1>1, <1>2

\* A delivery of an expired or failed event is about a dead session.
LEMMA DeadEventLemma ==
    ASSUME Inv0, NEW w \in Workers, hpc[w] # "idle",
           hev[w][1] \in {"expired", "async_failed"}
    PROVE  hev[w][2] \in Checkouts /\ Dead(hev[w][2])
<1>1. hev[w] \in sent /\ hev[w] \in Event
    BY HookTyped DEF Inv0, HookInv
<1>2. PICK t \in EventType, c \in Checkouts : hev[w] = <<t, c>>
    BY <1>1 DEF Event
<1>3. hev[w] \in {<<"expired", c>>, <<"async_failed", c>>} /\ hev[w][2] = c
    BY <1>2
<1>4. QED
    BY <1>1, <1>3 DEF Dead

\* Every step preserves the evidence that a session is dead.
LEMMA DeadStep ==
    ASSUME Inv0, SessInv, RowInv, TimeInv, DeadInv, [Next]_vars
    PROVE  DeadInv'
<1>1. TypeOK /\ CallInv /\ HookInv /\ DeadStable
    BY DeadStableLemma DEF Inv0
<1> DEFINE Written(c) == pstatus[c] \in {"TIMED_OUT", "FAILED", "DECLINED"}
           Flagged(w) == /\ hev[w][2] \in Checkouts
                         /\ Dead(hev[w][2])
                         /\ Exists(hev[w][2])
           Reconciling == /\ rpc \in {"retrieve", "unpaid", "flag"} => Dead(rcur)
                          /\ rpc = "flag" => Exists(rcur)
           Owed(r) == \E d \in Checkouts : ForRes[d] = r /\ Dead(d) /\ Exists(d)
<1>2. \A w \in Workers : hpc[w] = "flag" => Flagged(w)
    BY <1>1, HookTyped DEF DeadInv
<1>3. rpc # "idle" => rcur \in Checkouts
    BY <1>1 DEF CallInv
<1>4. \A r : Owed(r) => Owed(r)'
    BY <1>1 DEF DeadStable
<1>5. ASSUME sent' = sent, sess' = sess, chk' = chk
      PROVE  /\ \A c \in Checkouts :
                    <<"async_failed", c>> \in sent' => sess'[c] = "failed"
             /\ \A c \in Checkouts : Dead(c)' => Over(c)'
    BY <1>5 DEF DeadInv, Dead, Over
<1>6. ASSUME UNCHANGED <<todo, rpc, rcur, hpc, hev, failures>>
      PROVE  /\ \A c \in todo' : Dead(c)'
             /\ Reconciling'
             /\ \A w \in Workers : hpc'[w] = "flag" =>
                    Dead(hev[w][2])' /\ Exists(hev[w][2])'
             /\ \A r \in failures' : Owed(r)'
    <2>1. \A c \in todo' : Dead(c)'
        BY <1>1, <1>6 DEF DeadInv, DeadStable, TypeOK
    <2>2. Reconciling'
        BY <1>1, <1>3, <1>6 DEF DeadInv, DeadStable, Dead, Exists
    <2>3. \A w \in Workers : hpc'[w] = "flag" =>
            Dead(hev[w][2])' /\ Exists(hev[w][2])'
        BY <1>1, <1>2, <1>6 DEF DeadStable, Dead, Exists
    <2>4. \A r \in failures' : Owed(r)'
        BY <1>4, <1>6 DEF DeadInv
    <2>5. QED
        BY <2>1, <2>2, <2>3, <2>4
<1>7. ASSUME NEW c \in Checkouts, CheckoutStep(c)
      PROVE  DeadInv'
    <2>1. UNCHANGED <<sent, todo, rpc, rcur, hpc, hev, failures>>
        BY <1>7 DEF CheckoutStep, CheckoutRead, CreatePayment,
           CreateConflicts, OpenSession, SaveSession, ReturnUrl,
           CheckoutThrows, DeletePayment, CheckoutDies, stripeVars, hookVars,
           reconVars
    <2>2. \A d \in Checkouts : sess'[d] = sess[d] \/ ~ Over(d)
        BY <1>1, <1>7 DEF CheckoutStep, CheckoutRead, CreatePayment,
           CreateConflicts, OpenSession, SaveSession, ReturnUrl,
           CheckoutThrows, DeletePayment, CheckoutDies, stripeVars, Over, TypeOK
    <2>3. \A d \in Checkouts : Written(d)' => Written(d)
        BY <1>1, <1>7 DEF CheckoutStep, CheckoutRead, CreatePayment,
           CreateConflicts, OpenSession, SaveSession, ReturnUrl,
           CheckoutThrows, DeletePayment, CheckoutDies, SetPayment, rowVars,
           TypeOK
    <2>4. \A d \in Checkouts : Dead(d)' => Over(d)'
        BY <1>1, <2>1 DEF DeadStable, Dead
    <2>5. \A d \in Checkouts : Written(d)' => Dead(d)'
        BY <1>1, <2>3 DEF DeadInv, DeadStable
    <2>6. \A d \in Checkouts :
            <<"async_failed", d>> \in sent' => sess'[d] = "failed"
        BY <2>1, <2>2 DEF DeadInv, Dead
    <2>7. QED
        BY <1>6, <2>1, <2>4, <2>5, <2>6 DEF DeadInv
<1>8. ASSUME NEW c \in Checkouts, StripeSteps(c)
      PROVE  DeadInv'
    <2>1. UNCHANGED <<pstatus, chk, todo, rpc, rcur, hpc, hev, failures>>
        BY <1>8 DEF StripeSteps, Pay, PayLater, AsyncFails, AsyncSettles,
           ExpireSession, SettleLate, OpenDispute, StripeStep, rowVars,
           chkVars, hookVars, reconVars
    <2>2. PICK from \in SessionState, to \in SessionState,
               events \in SUBSET EventType :
            /\ StripeStep(c, from, to, events)
            /\ {"expired", "async_failed"} \cap events # {} =>
                    AsyncFails(c) \/ ExpireSession(c)
            /\ from # "failed"
            /\ "async_failed" \in events => to = "failed"
        BY <1>8 DEF StripeSteps, Pay, PayLater, AsyncFails, AsyncSettles,
           ExpireSession, SettleLate, OpenDispute, SessionState, EventType
    <2>3. /\ sess[c] = from
          /\ sess' = [sess EXCEPT ![c] = to]
          /\ sent' = sent \cup (events \X {c})
        BY <2>2 DEF StripeStep
    <2>4. \A d \in Checkouts : Dead(d)' => Over(d)'
        <3> SUFFICES ASSUME NEW d \in Checkouts,
                            NEW t \in {"expired", "async_failed"},
                            <<t, d>> \in sent'
                     PROVE  Over(d)'
            BY DEF Dead
        <3>1. CASE <<t, d>> \in sent
            BY <1>1, <3>1 DEF Dead, DeadStable
        <3>2. CASE <<t, d>> \in events \X {c}
            <4>1. d = c /\ t \in events
                BY <3>2
            <4>2. Over(c)
                BY <2>2, <4>1, DyingLemma
            <4>3. QED
                BY <2>1, <4>1, <4>2 DEF Over
        <3>3. QED
            BY <2>3, <3>1, <3>2
    <2>5. \A d \in Checkouts :
            <<"async_failed", d>> \in sent' => sess'[d] = "failed"
        BY <1>1, <2>2, <2>3 DEF DeadInv, TypeOK
    <2>6. \A d \in Checkouts : Written(d)' => Dead(d)'
        BY <1>1, <2>1 DEF DeadInv, DeadStable
    <2>7. QED
        BY <1>6, <2>1, <2>4, <2>5, <2>6 DEF DeadInv
<1>9. ASSUME NEW w \in Workers,
             \/ \E e \in Event : Receive(w, e)
             \/ WebhookStep(w) \/ WebhookThrows(w)
      PROVE  DeadInv'
    <2>1. UNCHANGED <<sent, sess, chk, todo, rpc, rcur>>
        BY <1>9 DEF Receive, WebhookStep, WebhookConfirm, WebhookSucceed,
           WebhookUnpaid, WebhookExpired, WebhookFailed, WebhookRecordFailure,
           WebhookDispute, WebhookIgnores, WebhookThrows, WebhookSetStatus,
           stripeVars, chkVars, reconVars
    <2>2. hpc[w] # "idle" => hev[w][2] \in Checkouts
        BY HookTyped DEF Inv0
    <2>3. /\ \A c \in todo' : Dead(c)'
          /\ Reconciling'
        BY <1>1, <1>3, <2>1 DEF DeadInv, DeadStable, Dead, Exists, TypeOK
    <2>4. \A c \in Checkouts : Written(c)' => Dead(c)'
        <3>1. CASE WebhookExpired(w) \/ WebhookFailed(w)
            <4>1. /\ hpc[w] # "idle"
                  /\ hev[w][1] \in {"expired", "async_failed"}
                  /\ \E st \in PaymentStatus : SetPayment(hev[w][2], st)
                BY <3>1 DEF WebhookExpired, WebhookFailed, WebhookSetStatus,
                   Handling, PaymentStatus
            <4>2. QED
                BY <1>1, <2>1, <4>1, DeadEventLemma
                DEF SetPayment, DeadInv, DeadStable, TypeOK
        <3>2. CASE ~ (WebhookExpired(w) \/ WebhookFailed(w))
            <4>1. \A c \in Checkouts : Written(c)' => Written(c)
                BY <1>1, <1>9, <2>2, <3>2 DEF Receive, WebhookStep,
                   WebhookConfirm, WebhookSucceed, WebhookUnpaid,
                   WebhookRecordFailure, WebhookDispute, WebhookIgnores,
                   WebhookThrows, WebhookSetStatus, SetPayment, rowVars, TypeOK
            <4>2. QED
                BY <1>1, <4>1 DEF DeadInv, DeadStable
        <3>3. QED
            BY <3>1, <3>2
    <2>5. \A v \in Workers : hpc'[v] = "flag" =>
            (Dead(hev[v][2]) /\ Exists(hev[v][2]))'
        <3>1. CASE WebhookFailed(w)
            <4>1. /\ hpc[w] # "idle" /\ hev[w][1] = "async_failed"
                  /\ Exists(hev[w][2]) /\ hev' = hev
                  /\ hpc' = [hpc EXCEPT ![w] = "flag"]
                BY <3>1 DEF WebhookFailed, WebhookSetStatus, Handling
            <4>2. Dead(hev[w][2]) /\ hev[w][2] \in Checkouts
                BY <4>1, DeadEventLemma
            <4>3. \A v \in Workers : hpc'[v] = "flag" => Flagged(v)
                BY <1>1, <1>2, <4>1, <4>2 DEF TypeOK
            <4>4. QED
                BY <1>1, <4>1, <4>3 DEF DeadStable, Dead, Exists
        <3>2. CASE ~ WebhookFailed(w)
            <4>1. /\ hpc'[w] # "flag"
                  /\ \A v \in Workers \ {w} :
                        hpc'[v] = hpc[v] /\ hev'[v] = hev[v]
                BY <1>1, <1>9, <3>2 DEF Receive, WebhookStep, WebhookConfirm,
                   WebhookSucceed, WebhookUnpaid, WebhookExpired,
                   WebhookRecordFailure, WebhookDispute, WebhookIgnores,
                   WebhookThrows, WebhookEnds, TypeOK
            <4>2. QED
                BY <1>1, <1>2, <4>1 DEF DeadStable, Dead, Exists
        <3>3. QED
            BY <3>1, <3>2
    <2>6. \A r \in failures' : Owed(r)'
        <3>1. CASE WebhookRecordFailure(w)
            BY <1>2, <1>4, <3>1 DEF WebhookRecordFailure, DeadInv
        <3>2. CASE ~ WebhookRecordFailure(w)
            <4>1. failures' = failures
                BY <1>9, <3>2 DEF Receive, WebhookStep, WebhookConfirm,
                   WebhookSucceed, WebhookUnpaid, WebhookExpired,
                   WebhookFailed, WebhookDispute, WebhookIgnores,
                   WebhookThrows, WebhookSetStatus
            <4>2. QED
                BY <1>4, <4>1 DEF DeadInv
        <3>3. QED
            BY <3>1, <3>2
    <2>7. QED
        BY <1>5, <2>1, <2>3, <2>4, <2>5, <2>6 DEF DeadInv
<1>10. ASSUME NEW k \in Cancels, CancelStep(k)
       PROVE  DeadInv'
    <2>1. UNCHANGED <<sent, sess, chk, todo, rpc, rcur, hpc, hev, failures>>
        BY <1>10 DEF CancelStep, CancelRead, RefundAlreadyMade, RefundRead,
           RefundAtStripe, RecordRefund, FinalizeCancel, CancelThrows,
           stripeVars, chkVars, hookVars, reconVars
    <2>2. \A c \in Checkouts : Written(c)' => Written(c)
        BY <1>1, <1>10 DEF CancelStep, CancelRead, RefundAlreadyMade,
           RefundRead, RefundAtStripe, RecordRefund, FinalizeCancel,
           CancelThrows, SetPayment, rowVars, TypeOK
    <2>3. \A c \in Checkouts : Written(c)' => Dead(c)'
        BY <1>1, <2>2 DEF DeadInv, DeadStable
    <2>4. QED
        BY <1>5, <1>6, <2>1, <2>3 DEF DeadInv
<1>11. CASE ReconcileScan \/ ReconcileStep \/ ReconcileThrows
    <2>1. UNCHANGED <<sent, sess, chk, hpc, hev>>
        BY <1>11 DEF ReconcileScan, ReconcileStep, NextStuck, RetrieveSession,
           ReconcileConfirm, confirmWithReservation, ReconcileDecline,
           declineWithReservation, ReconcileRecordFailure, ReconcileThrows,
           stripeVars, chkVars, hookVars
    <2>2. \A c \in Checkouts : Written(c)' => Dead(c)'
        <3>1. CASE ReconcileDecline
            BY <1>1, <1>3, <2>1, <3>1 DEF ReconcileDecline,
               declineWithReservation, SetPayment, DeadInv, DeadStable, TypeOK
        <3>2. CASE ~ ReconcileDecline
            <4>1. \A c \in Checkouts : Written(c)' => Written(c)
                BY <1>1, <1>11, <3>2 DEF ReconcileScan, ReconcileStep,
                   NextStuck, RetrieveSession, ReconcileConfirm, confirmWithReservation,
                   ReconcileRecordFailure, ReconcileThrows, SetPayment,
                   rowVars, TypeOK
            <4>2. QED
                BY <1>1, <4>1 DEF DeadInv, DeadStable
        <3>3. QED
            BY <3>1, <3>2
    <2>3. \A c \in todo' : c \in Checkouts /\ Dead(c)
        BY <1>1, <1>11 DEF ReconcileScan, StuckTimedOut, ReconcileStep,
           NextStuck, RetrieveSession, ReconcileConfirm, ReconcileDecline,
           ReconcileRecordFailure, ReconcileThrows, DeadInv, TypeOK
    <2>4. Reconciling'
        <3>1. ASSUME NEW c \in Checkouts, NextStuck(c) \/ RetrieveSession(c)
              PROVE  rcur' = c /\ Dead(c) /\ rpc' # "flag"
            BY <3>1 DEF NextStuck, RetrieveSession, DeadInv
        <3>2. CASE ReconcileDecline
            <4>1. rcur' = rcur /\ rpc = "unpaid" /\ Exists(rcur)
                BY <3>2 DEF ReconcileDecline, declineWithReservation
            <4>2. QED
                BY <1>1, <1>3, <4>1 DEF DeadInv, DeadStable, Dead, Exists
        <3>3. CASE ReconcileScan
            <4>1. rpc' = rpc /\ rcur' = rcur
                BY <3>3 DEF ReconcileScan
            <4>2. QED
                BY <1>1, <1>3, <4>1 DEF DeadInv, DeadStable, Dead, Exists
        <3>4. CASE ReconcileConfirm \/ ReconcileRecordFailure \/ ReconcileThrows
            BY <3>4 DEF ReconcileConfirm, ReconcileRecordFailure,
               ReconcileThrows
        <3>5. QED
            BY <1>1, <1>11, <3>1, <3>2, <3>3, <3>4
            DEF ReconcileStep, DeadStable, Dead
    <2>5. \A w \in Workers : hpc'[w] = "flag" =>
            (Dead(hev[w][2]) /\ Exists(hev[w][2]))'
        BY <1>1, <1>2, <2>1 DEF DeadStable, Dead, Exists
    <2>6. \A r \in failures' : Owed(r)'
        <3>1. CASE ReconcileRecordFailure
            <4>1. rcur \in Checkouts /\ Dead(rcur) /\ Exists(rcur)
                BY <1>3, <3>1 DEF ReconcileRecordFailure, DeadInv
            <4>2. QED
                BY <1>4, <3>1, <4>1 DEF ReconcileRecordFailure, DeadInv
        <3>2. CASE ~ ReconcileRecordFailure
            <4>1. failures' = failures
                BY <1>11, <3>2 DEF ReconcileScan, ReconcileStep,
                   NextStuck, RetrieveSession, ReconcileConfirm, ReconcileDecline,
                   ReconcileThrows
            <4>2. QED
                BY <1>4, <4>1 DEF DeadInv
        <3>3. QED
            BY <3>1, <3>2
    <2>7. QED
        BY <1>1, <1>5, <2>1, <2>2, <2>3, <2>4, <2>5, <2>6
        DEF DeadInv, DeadStable
<1>12. CASE SweepHolds \/ Clock \/ UNCHANGED vars \/ \E r \in Ids : Hold(r)
    <2>1. UNCHANGED <<pstatus, sent, sess, chk, todo, rpc, rcur, hpc, hev,
                      failures>>
        BY <1>12 DEF SweepHolds, Clock, Hold, vars, rowVars, stripeVars,
           chkVars, hookVars, reconVars
    <2>2. \A c \in Checkouts : Written(c)' => Dead(c)'
        BY <1>1, <2>1 DEF DeadInv, DeadStable
    <2>3. QED
        BY <1>5, <1>6, <2>1, <2>2 DEF DeadInv
<1>13. QED
    BY <1>7, <1>8, <1>9, <1>10, <1>11, <1>12 DEF Next

\* A payment is written off only on evidence that Stripe gave it up.
THEOREM DeadInvCorrect == Spec => [](TimeInv /\ DeadInv)
<1>1. Init => TimeInv /\ DeadInv
    BY TimeAssumption DEF Init, TableInit, TimeInv, DeadInv, Busy, Dead, Times
<1>2. QED
    BY <1>1, Inv0Correct, RowInvCorrect, TimeStep, DeadStep, PTL DEF Spec

(***************************************************************************)
(* No order of events, cleanups and reconciliation runs writes a paid      *)
(* payment off or holds it against its owner, unless Stripe has announced  *)
(* its session as expired.                                                 *)
(***************************************************************************)
THEOREM PaidIsNotWrittenOff == Spec => []PaidNeverWrittenOff
<1>1. ASSUME Inv0, RowInv, DeadInv
      PROVE  PaidNeverWrittenOff
    <2> SUFFICES ASSUME NEW c \in Checkouts, sess[c] = "paid",
                        <<"expired", c>> \notin sent
                 PROVE  /\ pstatus[c] \in {"PENDING", "IN_PROGRESS",
                                           "SUCCEEDED", "REFUNDED"}
                        /\ ForRes[c] \notin failures
        BY DEF PaidNeverWrittenOff
    <2>1. ~ Dead(c) /\ Exists(c)
        BY <1>1 DEF Dead, DeadInv, RowInv, TakenUp
    <2>2. \A d \in Checkouts : ForRes[d] = ForRes[c] /\ Exists(d) => d = c
        BY <1>1, <2>1 DEF RowInv
    <2>3. QED
        BY <1>1, <2>1, <2>2 DEF DeadInv, Exists, PaymentStatus, Inv0, TypeOK
<1>2. QED
    BY <1>1, Inv0Correct, RowInvCorrect, DeadInvCorrect, PTL

=============================================================================
