------------------------------- MODULE Limits -------------------------------
(***************************************************************************)
(* The two sliding windows kept in Redis sorted sets: RateLimiterService   *)
(* for one key (a user or an address, and a rule), and PaymentAbuseService *)
(* for one user.                                                           *)
(*                                                                         *)
(* A call is either a request that RateLimitGuard or IpRateLimitMiddleware *)
(* sends through the limiter, or a payment failure being recorded.  A      *)
(* member of a sorted set is the call that added it, its score the time    *)
(* that call has read.  The limiter's Lua script is one step; the commands *)
(* of recordFailure are one step each, and time passes between them.  An   *)
(* application server's clock may be off by Skew; a request reaches Redis  *)
(* up to Delay later, and a recordFailure lasts up to RecordTime, from its *)
(* Date.now() to its last command.                                         *)
(***************************************************************************)
EXTENDS Integers, FiniteSets

CONSTANTS
    Requests,       \* calls that the limiter is asked about
    Failures,       \* calls that record a payment failure
    NULL,
    Window,         \* windowSize
    MaxRequests,    \* maxRequests
    Second,         \* in units of the clock
    Skew, Delay,    \* bounds on the clocks and the way to Redis
    RecordTime,     \* bound on a recordFailure, from its first line to its last
    FailWindow,     \* WINDOW_MS
    Threshold,      \* FAILURE_THRESHOLD
    LockTime,       \* LOCKOUT_MS
    MaxTime         \* bound: the clock stops here

Calls == Requests \cup Failures

ASSUME LimitsAssumption ==
    /\ IsFiniteSet(Calls)
    /\ Window \in Nat \ {0} /\ MaxRequests \in Nat \ {0}
    /\ Second \in Nat \ {0}
    /\ Skew \in Nat /\ Delay \in Nat
    /\ FailWindow \in Nat \ {0} /\ Threshold \in Nat \ {0}
    /\ RecordTime \in Nat /\ RecordTime < FailWindow
    /\ LockTime \in Nat \ {0} /\ MaxTime \in Nat

ASSUME NullIsNoTime == NULL \notin Int

VARIABLES
    now,
    log, logUntil,      \* the limiter's sorted set, and when its key expires
    fails, failsUntil,  \* payment_failures; NULL: the key has no expiry yet
    lockUntil,          \* when payment_lockout expires
    at,                 \* where each call is
    ts,                 \* the time each call has read
    when,               \* history: when it began, then when it was decided
    retry,              \* Retry-After of a refused call; NULL: none, or overtaken
    lost                \* history: failures that went with a key about to expire

vars == <<now, log, logUntil, fails, failsUntil, lockUntil, at, ts, when, retry,
          lost>>
abuse == <<fails, failsUntil, lockUntil, lost>>
limiter == <<log, logUntil, retry>>

Steps == {"idle", "eval", "granted", "refused", "zadd", "pexpire", "trim",
          "count", "lock", "recorded", "dead", "cut"}

\* Steps of recordFailure between Date.now() and its return.
Recording == {"zadd", "pexpire", "trim", "count", "lock"}

TypeOK ==
    /\ now \in 0 .. MaxTime
    /\ log \subseteq Calls /\ logUntil \in 0 .. MaxTime + Window
    /\ fails \subseteq Calls
    /\ failsUntil \in (0 .. MaxTime + FailWindow) \cup {NULL}
    /\ lockUntil \in 0 .. MaxTime + LockTime
    /\ at \in [Calls -> Steps]
    /\ ts \in [Calls -> 0 .. MaxTime + Skew]
    /\ when \in [Calls -> 0 .. MaxTime]
    /\ retry \in [Calls -> Nat \cup {NULL}]
    /\ lost \subseteq Calls

Init ==
    /\ now = 0
    /\ log = {} /\ logUntil = 0
    /\ fails = {} /\ failsUntil = NULL /\ lockUntil = 0
    /\ at = [c \in Calls |-> "idle"]
    /\ ts = [c \in Calls |-> 0] /\ when = [c \in Calls |-> 0]
    /\ retry = [c \in Calls |-> NULL]
    /\ lost = {}

Goto(c, p, q) == at[c] = p /\ at' = [at EXCEPT ![c] = q]

\* Date.now() on some server.
ReadClock(c, t) ==
    /\ now - Skew <= t /\ t <= now + Skew
    /\ ts' = [ts EXCEPT ![c] = t] /\ when' = [when EXCEPT ![c] = now]
    /\ UNCHANGED <<now, limiter, abuse>>

-----------------------------------------------------------------------------
(* rateLimiter, called by the guard and by the middleware                  *)

rateLimiter(c, t) ==
    /\ c \in Requests
    /\ Goto(c, "idle", "eval") /\ ReadClock(c, t)

\* RateLimitGuard and IpRateLimitMiddleware, on a route that has a rule.  They
\* differ in the key they count under.
canActivate(c, t) == rateLimiter(c, t)
use(c, t) == rateLimiter(c, t)

\* What ZREMRANGEBYSCORE leaves: the boundary itself is removed.
InWindow(t) == {x \in log : ts[x] > t - Window}

\* Mutant: the key expires before the members it holds are a window old.
BriefLife == 1

\* Mutant: the window, already in milliseconds, is converted once more.
LongLife == 1000 * Window

LogLife == Window

Grant(c) ==
    /\ Cardinality(InWindow(ts[c])) < MaxRequests
    /\ Goto(c, "eval", "granted")
    /\ log' = InWindow(ts[c]) \cup {c}
    /\ logUntil' = now + LogLife
    /\ retry' = [x \in Calls |-> NULL]
    /\ when' = [when EXCEPT ![c] = now]
    /\ UNCHANGED <<now, abuse, ts>>

\* Score of the member ZRANGE key 0 0 returns.
Oldest(t) == CHOOSE s \in {ts[x] : x \in InWindow(t)} :
                \A x \in InWindow(t) : s <= ts[x]

ResetAfter(t) == LET r == Oldest(t) + Window - t IN IF r < 0 THEN 0 ELSE r

\* Mutant: Math.floor.
RetryAfterDown(r) == Second * (r \div Second)

\* The header, in whole seconds: Math.ceil(resetAfterMs / 1000).
RetryAfter(r) == Second * ((r + Second - 1) \div Second)

\* Mutant: a refused request is added to the window as well.
RefuseAndCount(c) ==
    /\ Cardinality(InWindow(ts[c])) >= MaxRequests
    /\ Goto(c, "eval", "refused")
    /\ log' = InWindow(ts[c]) \cup {c}
    /\ logUntil' = now + LogLife
    /\ retry' = [x \in Calls |-> NULL]
    /\ when' = [when EXCEPT ![c] = now]
    /\ UNCHANGED <<now, abuse, ts>>

Refuse(c) ==
    /\ Cardinality(InWindow(ts[c])) >= MaxRequests
    /\ Goto(c, "eval", "refused")
    /\ log' = InWindow(ts[c])
    /\ retry' = [retry EXCEPT ![c] = RetryAfter(ResetAfter(ts[c]))]
    /\ when' = [when EXCEPT ![c] = now]
    /\ UNCHANGED <<now, logUntil, abuse, ts>>

-----------------------------------------------------------------------------
(* recordFailure                                                           *)

recordFailure(c, t) ==
    /\ c \in Failures
    /\ Goto(c, "idle", "zadd") /\ ReadClock(c, t)

\* ZADD creates the key without an expiry, or leaves the one it has.
AddFailure(c) ==
    /\ Goto(c, "zadd", "pexpire")
    /\ fails' = fails \cup {c}
    /\ UNCHANGED <<now, limiter, failsUntil, lockUntil, ts, when, lost>>

\* Mutant: a window that starts at the first failure and does not roll.
ExpireOnce(c) ==
    /\ Goto(c, "pexpire", "trim")
    /\ failsUntil' = IF fails # {} /\ failsUntil = NULL
                     THEN now + FailWindow ELSE failsUntil
    /\ UNCHANGED <<now, limiter, fails, lockUntil, ts, when, lost>>

\* PEXPIRE does nothing to a key that is gone.
ExpireFailures(c) ==
    /\ Goto(c, "pexpire", "trim")
    /\ failsUntil' = IF fails = {} THEN failsUntil ELSE now + FailWindow
    /\ UNCHANGED <<now, limiter, fails, lockUntil, ts, when, lost>>

\* ZREMRANGEBYSCORE deletes a set that it empties.
TrimFailures(c) ==
    /\ Goto(c, "trim", "count")
    /\ fails' = {x \in fails : ts[x] > ts[c] - FailWindow}
    /\ failsUntil' = IF fails' = {} THEN NULL ELSE failsUntil
    /\ UNCHANGED <<now, limiter, lockUntil, ts, when, lost>>

\* Mutant: one failure short.
CountOneShort(c) ==
    /\ \/ Cardinality(fails) + 1 >= Threshold /\ Goto(c, "count", "lock")
       \/ Cardinality(fails) + 1 < Threshold /\ Goto(c, "count", "recorded")
    /\ UNCHANGED <<now, limiter, abuse, ts, when>>

CountFailures(c) ==
    /\ \/ Cardinality(fails) >= Threshold /\ Goto(c, "count", "lock")
       \/ Cardinality(fails) < Threshold /\ Goto(c, "count", "recorded")
    /\ UNCHANGED <<now, limiter, abuse, ts, when>>

LockOut(c) ==
    /\ Goto(c, "lock", "recorded")
    /\ lockUntil' = now + LockTime
    /\ UNCHANGED <<now, limiter, fails, failsUntil, ts, when, lost>>

\* What reserve asks.
isLockedOut == now < lockUntil

-----------------------------------------------------------------------------

\* Redis fails or the process stops; "cut": after the failure was added.
CallDies(c) ==
    /\ \/ at[c] \in {"eval", "zadd"} /\ at' = [at EXCEPT ![c] = "dead"]
       \/ /\ at[c] \in Recording \ {"zadd"}
          /\ at' = [at EXCEPT ![c] = "cut"]
    /\ UNCHANGED <<now, limiter, abuse, ts, when>>

\* Keys lapse as time passes.  A key that lapses between the ZADD and the
\* PEXPIRE of a call takes the failure that was just added with it.
Clock ==
    /\ now < MaxTime /\ now' = now + 1
    /\ \A c \in Calls : /\ at[c] = "eval" => now < when[c] + Delay
                        /\ at[c] \in Recording => now < when[c] + RecordTime
    /\ log' = IF now' < logUntil THEN log ELSE {}
    /\ IF failsUntil # NULL /\ now' >= failsUntil
       THEN /\ fails' = {} /\ failsUntil' = NULL
            /\ lost' = lost \cup {c \in fails : at[c] = "pexpire"}
       ELSE UNCHANGED <<fails, failsUntil, lost>>
    /\ UNCHANGED <<logUntil, lockUntil, at, ts, when, retry>>

CallStep(c) ==
    \/ \E t \in 0 .. MaxTime + Skew :
        canActivate(c, t) \/ use(c, t) \/ recordFailure(c, t)
    \/ Grant(c) \/ Refuse(c)
    \/ AddFailure(c) \/ ExpireFailures(c)
    \/ TrimFailures(c) \/ CountFailures(c) \/ LockOut(c) \/ CallDies(c)

Next == Clock \/ \E c \in Calls : CallStep(c)

Spec == Init /\ [][Next]_vars

-----------------------------------------------------------------------------
(* Properties                                                              *)

(***************************************************************************)
(* RATE_LIMITER_SCRIPT: in real time, no window is over-booked, although   *)
(* the servers' clocks disagree and requests reach Redis late and out of   *)
(* order: what is lost is 2 * Skew + Delay of the window, no more.         *)
(***************************************************************************)
Granted(lo, hi) ==
    {c \in Calls : at[c] = "granted" /\ lo < when[c] /\ when[c] <= hi}

Assured == Window - Delay - 2 * Skew

WindowLimit ==
    \A t \in -1 .. MaxTime : Cardinality(Granted(t, t + Assured)) <= MaxRequests

(***************************************************************************)
(* The converse: whoever is refused has maxRequests granted requests       *)
(* within the last window and the same tolerance; being refused never      *)
(* counts against anyone.                                                  *)
(***************************************************************************)
RefusedOnlyWhenFull ==
    \A c \in Calls : at[c] = "refused" =>
        Cardinality(Granted(when[c] - Window - Delay - 2 * Skew, when[c]))
            >= MaxRequests

(***************************************************************************)
(* Retry-After: after that time, and unless somebody else was let through  *)
(* meanwhile, the script finds room.                                       *)
(***************************************************************************)
RetryAfterSuffices ==
    \A c \in Calls : retry[c] # NULL =>
        Cardinality(InWindow(ts[c] + retry[c])) < MaxRequests

\* Failures that were recorded to the end, and are not lost.
Recorded == {c \in Calls : at[c] = "recorded"} \ lost

\* What the clocks and the time between its commands leave of the window.
AssuredFailWindow == FailWindow - RecordTime - 2 * Skew

\* n failures of F, each within the assured window of all the others.
Together(F, n) ==
    /\ Cardinality(F) = n
    /\ \A x, y \in F : when[x] < when[y] + AssuredFailWindow

LockedSince(F) == \A x \in F : lockUntil >= when[x] + LockTime

(***************************************************************************)
(* recordFailure, which is not atomic: any FAILURE_THRESHOLD failures that *)
(* were recorded to the end within a window have locked the user out since *)
(* the last of them, however their commands interleave.  Two things are    *)
(* given up: what the clocks and the length of a call take off the window, *)
(* since another server's later Date.now() trims what the call itself      *)
(* would have kept; and a failure whose key lapsed between its ZADD and    *)
(* its PEXPIRE, which is gone before it is counted.                        *)
(***************************************************************************)
FailuresLockOut ==
    \A F \in SUBSET Recorded : Together(F, Threshold) => LockedSince(F)

\* Failures that were added to the set, whatever became of the call.
Added == {c \in Calls : at[c] \in {"pexpire", "trim", "count", "lock",
                                    "recorded", "cut"}}

\* Enough failures for a lockout set at time t.
Cause(t) ==
    \E F \in SUBSET Added :
        /\ Cardinality(F) >= Threshold
        /\ \A x \in F : /\ when[x] > t - FailWindow - RecordTime - 2 * Skew
                        /\ when[x] <= t

(***************************************************************************)
(* And nobody is locked out for less: a lockout has FAILURE_THRESHOLD      *)
(* failures behind it, within the window and the same tolerance.           *)
(***************************************************************************)
LockedForCause == lockUntil > 0 => Cause(lockUntil - LockTime)

=============================================================================
