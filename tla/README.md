# A TLA+ model of the movie reservation system

This directory specifies, model-checks and proves properties of the NestJS
backend in `src/backend/src`: holding a seat, paying for it through Stripe,
giving it back, and the background jobs that clean up after all of that; and
around this core the accounts and sessions of its users, the limits on what they
may do, and the catalogue that administrators write and everybody reads.

## 1. Inventory

State lives in four places: PostgreSQL (through Prisma), Redis, the memory of
each Node.js process, and Stripe. A process runs one JavaScript thread, so code
between two `await`s is atomic with respect to that process; everything else
interleaves.

| Component | State it keeps | Operations | What makes it correct |
|---|---|---|---|
| Reservation table (`reservations.repository.ts`, the partial unique index of migration `20260702000000`) | `status`, `heldUntil` per row | insert HELD, `confirm`, `setStatus`, `extendHold`, `releaseExpiredHolds` | a seat of a screening has at most one active row; every HELD row can expire |
| ReservationsService | row locks, `ConcurrencyGuard.active` | `reserve`, `cancel`/`finalizeCancel`, `expireHolds`, `confirmPayment` | the guard never leaks; the existence check is still true at the insert; holds that ran out are released |
| Reservation breaker (opossum) | rolling statistics, timers | `holdSeat` | refusing or giving up never corrupts the guard |
| PaymentsService | `Payment` rows | `createCheckoutSession`, `handleWebhookEvent`, `refundReservation`, `reconcileTimedOutPayments` | bookings are paid for, nobody is charged or refunded twice, paid money is recorded |
| Stripe (external) | sessions, events, refunds, idempotency keys | create, retrieve, refund, deliver webhook | - |
| Cron jobs | none | every minute `expireHolds`, every five minutes reconciliation | they keep running |
| PaymentAbuseService | Redis failure log, lockout key | `recordFailure`, `isLockedOut` | three failures in 24 h lock the user out |
| Seat map (`screenings.cache.ts`, `screenings.service.ts`, listeners) | Redis cached maps | cache-aside read, invalidation after reservation events | what a client sees converges to the table |
| WebSocket gateway | rooms | join, seat deltas, counter | a watcher's picture converges to the table |
| Tokens (`token.service.ts`) | access versions, refresh keys and per-user session sets in Redis | issue, rotate, revoke one or all | one refresh token has one successor; revoking everything revokes everything |
| One-time codes (`otp.service.ts`) and accounts | code, attempts, cooldown keys; user rows | issue, verify, register, change e-mail | a code is used once, at most the allowed attempts |
| Rate limiter (`rate-limiter.service.ts`, its guard and its middleware) | sorted sets in Redis | `rateLimiter` | at most *limit* requests in any window; nobody is refused for less |
| Screenings, halls, movies | rows | CRUD, overlap check, publish, cancel | foreign keys hold; a cancelled screening stays cancelled |
| Their caches (`movies.cache.ts`, `screenings.cache.ts`) | Redis: movie details, browse lists, screening details, screenings of a movie, halls | cache-aside reads, deletion after each write | what is served is current, or out of date for a known reason and a bounded time |

Interaction: `reserve` calls PaymentAbuseService, the screenings repository, the
guard, the breaker and the seat-locking transaction, and emits an event that the
cache and broadcast listeners consume. Checkout reads the reservation, writes
the payment, calls Stripe and writes both again. A webhook writes the
reservation and then the payment. Cancelling a paid booking goes from
ReservationsService to PaymentsService to Stripe and back. The cron jobs write
the same rows as all of them.

What is hard here is that almost no update has a condition on the state it
replaces: the code checks first and writes after one or more awaits. The hazards
in `PROJECT.json` list the places where that bites, with the properties that
would catch it.

## 2. Modules

| Module | Models | Built on |
|---|---|---|
| `SeatInventory` | abstract specification: each slot has an owner or none, and may be booked | - |
| `ReservationTable` | one action per SQL statement on `reservation`, and the index | refines `SeatInventory` |
| `Reservations` | ReservationsService with guard, breaker, row locks, cron | extends `ReservationTable` |
| `Payments` | PaymentsService, Stripe, webhooks, refunds, reconciliation | extends `ReservationTable` |
| `SeatMap` | the cached seat map, the listeners, the WebSocket room | extends `ReservationTable` |
| `Programme` | abstract specification: which halls and movies there are, and where each screening is shown | - |
| `Cinema` | the rows that `Scheduling` and `Catalogue` have in common | - |
| `Scheduling` | administration of halls, movies and screenings against `reserve` | extends `Cinema`, refines `Programme` |
| `Sessions` | TokenService and its callers: sign-in, refresh, logout, password change | - |
| `Accounts` | AuthService, OtpService, UsersService: registration, one-time codes, change of address and password, Google | - |
| `Limits` | RateLimiterService with guard and middleware; PaymentAbuseService | - |
| `Catalogue` | MoviesService, HallsService, ScreeningsService behind their caches | extends `Cinema`, refines `Programme` |
| `*Proofs` | theorems about the module named; `CinemaProofs` about `Scheduling` and `Catalogue` | extend it |
| `MC*` and `*.cfg` | finite instances for TLC | extend it |

**ReservationTable.** `status[r]` and `heldUntil[r]` are the columns ("NONE":
no row yet), `now` is the clock. A *slot* is a (screening, seat) pair.
`IndexAdmits` is the partial unique index. As in the code, `Confirm`,
`SetCancelled` and `ExtendHold` have no condition on the status they replace.

**Reservations.** `pc[r]` follows a call through `reserve`: *new* (before the
screening is read), *screened*, *admitted* (guard acquired), *locked* (past
`FOR UPDATE`), *checked* (past the existence check), *committed* or *aborted*,
*done*. `lock` is the row lock on `Seat`, shared by all screenings of the hall.
`timedOut` holds calls that opossum gave up on (default timeout 10 s) and whose
transaction still runs. A cancel call keeps in `target` the row whose status it
has read. Ownership and role checks only reject and are left out; the answer of
`isLockedOut` is a free input.

**Payments.** A checkout call, the payment row it inserts and the session it
opens share an identifier. `chk`, `hpc`, `kpc`, `rpc` are the program counters
of checkouts, webhook deliveries, cancel calls and the reconciliation run; each
value is the code between two awaits, and each call can throw or die at each of
them (`CheckoutThrows`, `CheckoutDies`, `WebhookThrows`, `CancelThrows`,
`ReconcileThrows`). `sess`, `sent`, `refunds`, `keys` are Stripe: events in
`sent` may be delivered any number of times, in any order and concurrently.
`linked` and `intent` say whether `stripeSessionId` and `stripePaymentId` are
stored. Amounts, currencies and the refund percentage are left out: what
matters is whether the policy grants anything, a free choice in `RefundRead`.
The reconciliation run reads its list (`ReconcileScan`), takes the rows in an
order that nothing determines (`NextStuck`; `findMany` names none), and ends at
the first exception (`ReconcileThrows`). For a row that was never linked
`sessions.retrieve('')` can only throw.

**SeatMap.** Reservation statements commit first and put their event in
`outbox`, from which events are emitted in any order or, with `Faults`, lost.
An emitted event sends its delta to the room, starts the summary's read, and
queues a DEL in `dels` if the cache listener subscribes to it (it does not to
*confirmed*). `step` is the position of a cache-aside read (lookup, table read,
fill); the cache entry keeps `asOf`, the time at which its map was read. A client
joins as in `handleJoin`: read the map, read the summary, enter the room. `due`
and `excused` are history: `due[s]` is the pending event that announces the
present status of a seat, and `excused[c]` holds the seats of which client c has
a wrong picture for a reason. `extendHold`, which changes no
status, and deletions of the entry by administrators, which only remove it, are
left out.

**Scheduling.** An administrator's call is lookup, check, write, with an await
between them; `job` holds what it has read. `row` says which halls and movies
exist, `place` and `status` are the screening columns, `booked` the reservations
that have a row. `Cascade` is what the foreign keys delete. `Cuts` gives the
durations a movie may have; more than one means that `updateMovie` changes it.
The status COMPLETED is written by no code and does not occur. The cache entries
that these calls delete at their end are the subject of `Catalogue`.
`ImplementsProgramme` is the refinement of `Programme`: the venue of a screening
is its hall and movie while it has a row, lookups and checks are stutters, and
each write is one abstract step.

**Sessions.** One user: every Redis key carries the user's id. A call issues at
most one refresh token, so the call stands for its token: `until` is the expiry
of its key, `index` the session set, `from` the token a refresh call presents,
`sver` and `signed` the version in its access token and the time of signing. A
Lua script or MULTI is one step, all else is interleaved, and a call may fail
between any two steps. The version key and the refresh keys expire by the clock.
Whether a password is right only decides whether a call is refused, so it is
left out. `outdated` and `restarted` are history: the access tokens signed before
a password change, and those signed before a change that found no version key.

**Accounts.** `email`, `verified`, `hash`, `google` are the user rows; `otp`,
`tries`, `coolUntil` the keys of an address and `pending` that of a user, each
with its expiry. A call is at one await at a time (`call[c].at`), a pipeline is
one step, and any call may die anywhere (`CallEnds`). The n-th code issued is n
and 0 is a wrong guess; whoever enters a code enters one that was mailed or a
wrong one. A hash is represented by the function that made it, argon2 or bcrypt,
since that is all `verify` and `compare` disagree on. `proven` remembers who has
shown which address to be theirs; an address that Google vouches for counts as
shown by definition, although `google.profile.util.ts:16` takes the first address
of the profile without looking at its verified flag. `guesses` and `resets`
remember how often the present code of an address was compared and its counter
deleted.

**Limits.** One key of the rate limiter and one user of the abuse log; keys do
not interact. A sorted set holds the calls that were added, with the time each
has read as its score. The limiter's Lua script is one step; `recordFailure` is
one step per command and may stop after any of them ("cut": after its ZADD).
Clocks of different servers disagree by up to `Skew`, a request takes up to
`Delay` to reach Redis, and a `recordFailure` lasts up to `RecordTime`, during
which time passes, keys lapse and other calls run. `lost` is history: failures
whose key lapsed between their ZADD and their PEXPIRE. `canActivate` and `use` are the
guard's and the middleware's way into the same limiter; `retry` is the
Retry-After header of a refused call.

**Catalogue.** One cache key of any kind is followed next to the whole of the
tables: entries do not depend on each other, so what holds for every choice of
the key holds for all together. A read is lookup, table read, fill; an
administrator's call is lookup, write, deletion of the followed key if the code
deletes it (`Forgets`), with an await and a possible failure in between.
`entry` keeps the time `asOf` at which its content was read. `excused` is history:
something happened that leaves the entry out of date by design of the code - a
lost deletion, a read that overlapped a write, time that passed (the lists that
depend on it), or a write in `Gaps`. `Gaps` lists the writes after which the
code deletes no key although the answer changes: `updateMovie` and the lists and
screening details that embed the movie; publishing, unpublishing or deleting a
movie and the details (and, for the last two, the list) of its screenings; a
screening moved to another movie and that movie's list; `deleteHall` and
everything that showed its screenings. Its tables refine `Programme` as well
(`TablesImplementProgramme`): DRAFT and PUBLISHED are one row, and publishing is
a stutter.

Definitions whose comment starts with "Mutant:" are not part of any
specification. Each is a plausible mistake in the definition that follows it,
and `PROJECT.json` names the property that must fail when it takes that
definition's place; so no property holds for lack of anything that could break
it.

## 3. Runs

| Run | Instance | Shows |
|---|---|---|
| `reservations` | 3 calls (two for one slot, the third for the same seat row in another screening), guard of 2, 1 cancel call, clock 0..2 | no double booking, every hold can expire, guard count, the check stays true until the insert |
| `reservations_live` | 3 calls, one for a seat outside the hall | admitted calls end; holds that ran out are released; every step is one of `SeatInventory` |
| `payments` | 2 checkouts of 1 reservation, a rival for its slot, 2 concurrent deliveries, 1 cancel call, late settlement, clock 0..3 | paid bookings, one charge, one refund, no double booking and nothing paid written off, with payments that arrive after the hold was lost |
| `payments_live` | 2 reservations that have one seat in turn, a checkout of each, deliveries, late settlement, clock 0..3 | paid is recorded while the seat is free; linked timeouts are resolved unless a row that cannot be reconciled is in the list |
| `seat_map` | 1 seat, 1 reservation, 1 reader, 1 client, reads that last a tick, clock 0..3, TTL 2, faults | a cached map is never older than TTL plus one call; a client's picture of a seat is right, about to be corrected, or wrong for one of three reasons |
| `scheduling` | 2 halls, 1 movie, 2 screenings, 2 administrators, 1 reservation | foreign keys under every interleaving; an update never revives a cancelled screening; every statement is a step of `Programme` |
| `sessions` | 4 calls of any kind, clock 0..3, access tokens last 2, sessions 3 | one successor per refresh token; ended sessions stay ended; a password change rejects earlier access tokens |
| `accounts` | 2 users of whom one has a row at the start, 2 addresses, 1 Google profile, 2 calls of any kind, 1 attempt, 2 codes, TTL 2, cooldown 1, clock 0..1 | a verified account's address is proven; guesses per code are bounded; one account per address and profile |
| `catalogue` | 2 movies, 1 screening, 1 hall, 2 calls, 2 editions, each key in turn, TTL 1, reads that last a tick, clock 0..2 | entries are never older than TTL plus one read; an entry out of date has one of the reasons above |
| `limits` | 3 requests (window 5 for 1 request, second 2, delay 1) or 3 failures (window 5, threshold 2, calls that last a tick), skew 1, clock 0..8 | no window is overbooked, nobody is refused for less, Retry-After suffices; enough failures lock out, fewer do not |

Runs that are expected to be violated state a sentence of the repository's docs
or comments that the code does not keep; see `findings` in `PROJECT.json`.

| Run | Claim | Counterexample |
|---|---|---|
| `claim_refunded_is_terminal` | REFUNDED is terminal | a cancellation runs between the webhook's two updates; the second overwrites REFUNDED with SUCCEEDED, and Stripe was never asked for the refund |
| `claim_one_hash` | the settings reuse "the `bcrypt` hashing convention `AuthService.register`/`validateUser` already use" | a user registers (argon2), verifies, signs in; changing the address or the password compares with bcrypt and refuses the right password |

**Bounds.** `MaxTime` stops the clock and `MaxHold` bounds how far ahead a
deadline is set. Time is compared only with `<` against a deadline, so a few
ticks are enough to put every event before, at and after every deadline. One
hold lasts 1 tick and a checkout session 2, as the code makes the second longer
than the first; in `payments_live`, where a call takes no time, both last 1. `CallTime` bounds how many ticks pass during one checkout call:
HTTP and Stripe timeouts (seconds) end such a call long before its session (30
minutes) expires. Calls are numbered, not repeated: two rivals and one other
call suffice to make every pair of handlers meet; for larger numbers there are
the proofs. Symmetry is declared only between calls that the instance treats
alike, and only in runs without liveness properties. In `scheduling` durations
are fixed, since none of its properties depends on them. `accounts` allows one
attempt per code, so that the limit is reached, and a second code after the
cooldown, so that calls with the old code meet the new one. A code outlives the
cooldown and the run ends before the code expires, which is enough for a counter
to lapse too early; codes that expire are covered by the proofs, which hold for
every TTL and clock. In `catalogue` an entry lives for one tick and a read may
last one, so that a fill comes a tick after its read and the bound is met; two
movies let a screening leave one list for another. In `limits` both windows are
longer than what skew, delay and the length of a call take from them (5 against
3), and the clock runs past the window and its tolerance, so that requests and
failures leave it. A behaviour of that run has either requests or failures
(`MCSpec`): the two windows share nothing but the clock. The failure that comes
between two others may lapse with its key: without `lost`, `FailuresLockOut` is
violated there. The threshold of two leaves out one thing, a later call that
trims two failures at once, for which `FailuresLockOut` gives up `RecordTime`;
that is left to the theorem. In `seat_map` one reservation is held, confirmed,
cancelled and confirmed again, and its events overtake each other and get lost;
without any one of the three reasons `WrongForAReason` is violated. In
`payments_live` the seat goes from one reservation to the other, so the list can
hold each of the two kinds of row that cannot be reconciled, next to one that can;
without either exception `LinkedTimeoutResolved` is violated, and without its own
so is `PaidIsRecorded`. `payments` has one cancel call; cancel calls that run at
once are left to the theorem `NeverRefundedTwice`.
Deadlock checking is off because the calls are finitely many and the clock
stops: a finished instance is a legitimate end.

**Fairness.** `Reservations`: an admitted call is carried on by the event loop
and the database (WF), and the cron runs every minute (WF on the sweep). Nothing
is assumed about clients. In `Payments` the assumptions are
about the world outside, so each liveness property names its own as a premise.
`StripeFairness`, for `PaidIsRecorded`: Stripe redelivers an event until it gets
a 200 (SF on receiving it), a handler that started ends one way or the other
(WF), and an outage does not last for ever, so a write that is tried again and
again for one event succeeds at last (SF on the two writes of the webhook). Where
a rival has the seat the index refuses the confirmation each time, and the
payment stays unrecorded until an operator steps in: this is the exception the
property makes. `CronFairness`, for `LinkedTimeoutResolved`, assumes nothing of
Stripe: the cron keeps running (WF), and a row that has its turn again and again
is dealt with at last (SF, for each row, on its `retrieve` and on its two
transactions). That a row has a turn at all is not assumed: nothing determines the
order of the list, and the first exception ends the run.
The other modules have no liveness properties: their calls end or die,
and that a stale entry goes away is stated in its safety form,
`BoundedStaleness`.

## 4. Proofs

All theorems hold for every value of the constants that satisfies the
assumptions named in the modules: `SlotAssumption`, `NullAssumption`,
`TimeAssumption`, `ReservationsAssumption`, `PaymentsAssumption`,
`SeatMapAssumption`, `CinemaAssumption`, `SchedulingAssumption`,
`NullIsNoRecord`, `CatalogueAssumption`, `SessionsAssumption`, `NullIsNoTime`,
`AccountsAssumption`, `LimitsAssumption`
(functions have the domains one expects, NULL is not a value, holds fit in
`MaxHold`, the sets of reserve calls and of limited calls are finite, access
tokens live no longer than sessions, and a checkout call takes less time than a
checkout session lasts: seconds against 30 minutes).

- `ReservationTableProofs`. Type correctness; `NoDoubleBooking`, which is
  inductive together with the types because insert and confirm are the only
  statements that make a row active and both ask the index; `HeldHasDeadline`;
  and the refinement of `SeatInventory`, which needs `NoDoubleBooking` to know
  that the owner of a slot is unique.
- `ReservationsProofs`. The service implements `TableSpec`, so it inherits the
  table's theorems, the refinement of `SeatInventory` included. `LockDiscipline`
  proves `LocksBelongToTransactions` and from it `CheckStaysTrue`: only the owner
  of the seat row can insert a HELD row for one of its slots. `GuardCorrect`
  strengthens `GuardCountsCalls` with "a call
  the breaker gave up on is still in flight", without which a release could not
  be told from a second release.
- `PaymentsProofs`. As for `Reservations`, every step is a statement of
  `TableSpec` and so a step of `SeatInventory`. `Inv0` (types; a delivery being
  handled has an event that Stripe sent; a cancel or reconciliation past its read
  has a payment).
  `RowInv` (one payment row per reservation; a session the customer can pay
  belongs to the call that returned its URL and whose row is not deleted any
  more) gives `NeverChargedTwice`. `PaidInv` (whatever lets a handler confirm
  or refund - a completed event, a stored `stripePaymentId`, an answer of
  `retrieve` - is about a session that is paid, and paid is for ever) gives
  `BookingsArePaid`. `RefundInv` (each refund is remembered under its
  idempotency key) gives `NeverRefundedTwice`. `PaidIsNotWrittenOff` proves
  `PaidNeverWrittenOff`: a payment is written off on evidence - an `expired` or
  `async_payment_failed` event, a row that is TIMED_OUT, FAILED or DECLINED, a
  place in the reconciliation's list, an answer of `retrieve`. `DeadInv` says that
  all evidence, wherever a call keeps it, is about a session that Stripe has
  announced as dead, and that the checkout call of such a session is over; what
  was announced stays so. `TimeInv` (a running call is
  younger than `CallTime`, its session lives longer) shows that no session dies
  under a running call; this is what `CallTime < CheckoutTime` is for.
- `SeatMapProofs`. The commits are statements of `TableSpec`. `StaleInv` follows
  a map from the table read through a running call (begun at most `CallTime`
  ago) into the entry, whose lifetime `TTL` starts at the fill; together they
  give `BoundedStaleness`. `DueInv` (a due event is in the outbox, is about the
  seat and announces its present status) makes `WrongForAReason` inductive: a
  commit makes its own event due, and only what the property names takes a due
  event away without repairing the picture. That the sweep's event is true of the
  seats it released rests on `NoDoubleBooking`: no other row holds them.
- `CinemaProofs`, about `Scheduling`. `NoOrphans` and `CancelIsFinal` need that a
  call past its lookup knows which row it writes (`IdInv`). The refinement of
  `Programme` needs both, and `NoOrphans`: an update that leaves out hall or movie
  keeps those of the row, which must still exist. `NoOverlapIfEditsApart` says what
  `assertNoOverlap` is worth: for any number of administrators `NoOverlap` holds
  if movies keep their lengths and, at all times, no two edits in flight are about
  one screening or put screenings into one hall (`OneEditPerHall`). Its
  `OverlapInv`: a call between check and write holds a placement that overlaps
  nothing, and what it has read is still so; cancellations and deletions need no
  part in the discipline, they only make room. `NoOverlapAlone` is the case of one
  administrator. Both conditions are needed: two edits that pass the check
  before either writes, or a movie lengthened after it was scheduled, make
  screenings overlap. `HallCheckSeesCascade`: as long as no step moves a screening
  to another hall, reservations are for seats of the hall their screening is in
  (`SeatsInHall`, from the moment the screening is read), and so the check of
  `deleteHall` sees every reservation that the cascade would delete.
- `CinemaProofs`, about `Catalogue`. `BoundedStaleness` rests on `AgeInv`: a fill
  comes at most `CallTime` after the read, a key lives for its TTL from the fill.
  `StaleForAReason` is inductive together with the types, the foreign keys (a new
  movie is in no cached screening) and `NewShows` (a call that creates a
  screening deletes the list of the movie it puts it in). The heart is
  `WriteKeeps`: a write that neither deletes the followed key nor is listed in
  `Gaps` leaves the answer as it was, by kind of key and of write. That shows
  `Gaps` to be complete, for any number of movies, screenings and calls.
  `MoviesAndHallsPromptlyFresh` draws the conclusion for movie details and the
  hall list, which have no gaps: without lost deletions and overtaken fills they
  are current as soon as no deletion is pending. `TablesKeepForeignKeys`, and the
  refinement of `Programme`, which follows from the types alone since the write
  of a screening meets its foreign keys.
- `SessionsProofs`. `KeyInv` (a key is stored once, by its own call; the session
  set and the copies of it name stored keys; a call that presents a token never
  reaches `issueAuthCookies`) gives that no key comes to life twice, and from
  this follow `RotatesOnce` and `EndedStaysEnded`. `AccessInv` (an obsolete
  access token has expired, or is behind a version key that outlives it, or
  escapes) gives `EarlierAccessRejected`; it rests on access tokens living no
  longer than the version key. What escapes is named in the property: a token
  signed under a version key that had lapsed when the password was changed, since
  INCR then starts again from 0 and may count up to the token's version.

- `AccountsProofs`. `LocalsInv` (a call past its lookup has the locals its step
  needs). `Unique` is inductive because every write of an address or a profile
  meets the unique column. `ProofInv` gives `AddressesAreProven`: a code that is
  stored or was read belongs to the address it was issued for, and `CallFact`
  says what a call that compared successfully has learnt about its user; `Grows`
  lists what no step takes back (who has proven what, which code went where), so
  a fact lasts while others act. `GuessInv` relates comparisons, counter and
  deletions of the counter and orders the expiries of counter and code; it gives
  `GuessesAreBounded`.
- `LimitsProofs`. `LimiterInv` (what a call has read is close to the time of its
  decision; the set holds granted calls only, never too many, and all recent
  ones; the key outlives their window) gives
  `WindowNeverOverbooked`, `NobodyRefusedForNothing` and `RetryAfterIsEnough`,
  for any skew and delay. `AbuseInv` (a failure that was not lost is in the set
  while every server's window reaches back to it, and the key is kept for it)
  with `LockInv` (once enough failures have been counted, one of them is about to
  lock, or the lockout covers them all) gives `FailuresAlwaysLockOut`. It holds
  for every `RecordTime` below the window, so with keys that lapse and later
  clocks that trim between any two commands of a call; it gives up a failure whose
  key lapsed between its ZADD and its PEXPIRE, and without that exception TLC
  finds it violated. `CauseInv` (a call that decides to lock, and a lock
  in force, have enough failures within a window behind them) gives
  `LockoutHasCause`.

Every invariant and action property of a run is proved. Only model-checked:
liveness under fairness (`ReserveTerminates`, `ExpiredHoldsReleased`,
`PaidIsRecorded`, `LinkedTimeoutResolved`), which TLAPS does not handle, and the
claims that are violated.

## 5. Not modelled, and the plan

What is left, in this order:

1. Theorems that say under which discipline the claims the code does not keep
   would hold, as `NoOverlapIfEditsApart` does: a REFUNDED payment that stays so,
   a cancellation that never loses the refund of a booking paid meanwhile.
2. The gateway's sockets per user and the `hold:expired` message.
3. Two overlapping reconciliation runs in `Payments`. Two that overlap would
   repeat unconditional updates and record a failure each; that such
   `recordFailure` calls may interleave is in `Limits`.
4. The rolling statistics of the circuit breaker, of which only "may open" and
   "may time out" are modelled.

The models show more than the properties say. Where a sentence in the
repository is at odds with it, it is given here.

*Reservations and payments.* A confirmation has no condition on the status and
revives a CANCELLED row; the sweep can run between the HELD check of a checkout
and `extendHold`; a cancellation that read HELD cancels a booking that was paid
meanwhile without refund; a payment whose session id was never stored stays
TIMED_OUT, and so does one paid late whose seat has gone to another reservation,
and either may keep the rest of the list from being reconciled, although the
design has the cron retrieve the session "for each"; an `expired`
event for a payment that the catch block deleted fails on each delivery until
Stripe gives up; a failure is lost if the process stops
between the write that marks the event as processed and `recordFailure`.

*Seat map.* A confirmed seat stays HELD in the cache until the TTL ends; a read
that began before a commit may fill the cache after the DEL, so "the next
seat-map read recomputes from the DB" does not always hold; the acknowledgement
of a join may carry a map and counts of different moments;
`reservation-broadcast.listener.ts:84` calls the delta "always accurate", but a
cancellation and a late confirmation may commit in this order and be announced in
the other, and the last delta then shows a booked seat as free; a client that joined
with an old map, or missed an event, keeps a wrong picture of a seat until the
seat's next delta.

*Scheduling.* The "hall-overlap protection" holds while the edits of a hall come
one at a time; a screening that is moved keeps its reservations on seats of the old hall,
where a check before deleting that hall does not look.

*Sessions.* `token.service.ts:211` says "Revokes every refresh session"; a sign-in
between SMEMBERS and DEL of `revokeAllSessions` keeps its key and loses its
entry, so no later revocation finds it; `changePassword` may fail
between the new hash and the revocation.

*Accounts.* A call that succeeded with an old code deletes the attempts counter
of the new one; `register` may leave a row without a code, and the address then
needs a resend; the DEL at the end of an e-mail change drops a request made
meanwhile.

*Limits.* `payment-abuse.service.ts` bounds the delay of a lockout by "at most one
extra failure", because a call may not see another's ZADD. That cannot happen: a
failure is added before it is counted, so of three calls that run to their end the
last to count sees them all (`FailuresAlwaysLockOut`). What does delay a lockout is
a key that lapses between ZADD and PEXPIRE, and then by as many failures as went
with it. Near the end of the window, a call on a server
whose clock is ahead, or that begins while another is under way, trims failures
that the other would have counted.

*Catalogue.* Besides `Gaps`, a screening cancelled by a call that read it before
it was moved stays in the list of its new movie until the TTL ends.

Not modelled:

- Prisma, PostgreSQL, Redis and Stripe are modelled from how this code uses
  them: READ COMMITTED statements, row locks until the end of the transaction,
  unique indexes, single-threaded Redis commands and scripts, idempotency keys.
- Controllers, DTO validation, Swagger, metrics, audit log, mailer, seeds and
  load tests hold no state that anything reads back; the agent tooling under
  `.agents` is not part of the program.
