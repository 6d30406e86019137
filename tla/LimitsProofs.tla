---------------------------- MODULE LimitsProofs ----------------------------
(* Proofs about Limits, for any number of calls, any window and any skew.  *)
EXTENDS Limits, TLAPS, FiniteSetTheorems, WellFoundedInduction

-----------------------------------------------------------------------------
(* Numbers and finite sets                                                 *)

\* A set of natural numbers that is not empty has a least element.
LEMMA LeastExists ==
    ASSUME NEW S \in SUBSET Nat, S # {}
    PROVE  \E m \in S : \A k \in S : m <= k
<1>1. IsWellFoundedOn(OpToRel(<, Nat), Nat)
    BY NatLessThanWellFounded, Zenon
<1>2. PICK m \in S : \A k \in S : ~ (<<k, m>> \in OpToRel(<, Nat))
    BY <1>1, WFMin, Zenon
<1>3. \A k \in S : ~ (k < m)
    BY <1>2 DEF OpToRel
<1>4. QED
    BY <1>3

\* Rounding up to whole seconds never shortens the time.
LEMMA RoundingUp ==
    ASSUME NEW r \in Nat PROVE RetryAfter(r) \in Nat /\ RetryAfter(r) >= r
    BY LimitsAssumption DEF RetryAfter

LEMMA CallSets ==
    ASSUME NEW S \in SUBSET Calls
    PROVE  /\ IsFiniteSet(S) /\ Cardinality(S) \in Nat
           /\ \A T \in SUBSET S : Cardinality(T) <= Cardinality(S)
           /\ \A x : Cardinality(S \cup {x}) <= Cardinality(S) + 1
<1>1. IsFiniteSet(S)
    BY FS_Subset, LimitsAssumption
<1>2. Cardinality(S) \in Nat
    BY <1>1, FS_CardinalityType
<1>3. \A T \in SUBSET S : Cardinality(T) <= Cardinality(S)
    BY <1>1, FS_Subset
<1>4. ASSUME NEW x PROVE Cardinality(S \cup {x}) <= Cardinality(S) + 1
    BY <1>1, <1>2, FS_AddElement
<1>5. QED
    BY <1>1, <1>2, <1>3, <1>4

\* The script returns the least score of a window that holds a member.
LEMMA OldestScore ==
    ASSUME TypeOK, NEW t \in 0 .. MaxTime + Skew,
           Cardinality(InWindow(t)) >= MaxRequests
    PROVE  /\ \E x \in InWindow(t) : Oldest(t) = ts[x]
           /\ Oldest(t) \in Nat /\ ResetAfter(t) \in Nat
           /\ ResetAfter(t) >= Oldest(t) + Window - t
<1> DEFINE S == {ts[x] : x \in InWindow(t)}
<1>1. InWindow(t) \in SUBSET Calls
    BY DEF InWindow, TypeOK
<1>2. InWindow(t) # {}
    BY <1>1, CallSets, FS_EmptySet, LimitsAssumption
<1>3. S \in SUBSET Nat /\ S # {}
    BY <1>1, <1>2, LimitsAssumption DEF TypeOK
<1>4. PICK m \in S : \A k \in S : m <= k
    BY <1>3, LeastExists
<1>5. Oldest(t) \in S /\ \A x \in InWindow(t) : Oldest(t) <= ts[x]
    BY <1>4 DEF Oldest
<1>6. Oldest(t) \in Nat
    BY <1>5, <1>3
<1>7. QED
    BY <1>5, <1>6, LimitsAssumption DEF ResetAfter

-----------------------------------------------------------------------------
(* Types                                                                   *)

LEMMA InitTypes == Init => TypeOK
    BY LimitsAssumption DEF Init, TypeOK, Steps

LEMMA StepTypes == TypeOK /\ [Next]_vars => TypeOK'
<1>0. SUFFICES ASSUME TypeOK, [Next]_vars PROVE TypeOK'
    OBVIOUS
<1> USE LimitsAssumption DEF TypeOK, Steps, Goto
<1>1. ASSUME NEW c \in Calls, NEW t \in 0 .. MaxTime + Skew, rateLimiter(c, t)
      PROVE  TypeOK'
    BY <1>1, <1>0 DEF rateLimiter, ReadClock, limiter, abuse
<1>2. ASSUME NEW c \in Calls, Grant(c) PROVE TypeOK'
    BY <1>2, <1>0 DEF Grant, InWindow, LogLife, abuse
<1>3. ASSUME NEW c \in Calls, Refuse(c) PROVE TypeOK'
  <2>1. RetryAfter(ResetAfter(ts[c])) \in Nat
    BY <1>3, <1>0, OldestScore, RoundingUp DEF Refuse
  <2>2. QED
    BY <2>1, <1>3, <1>0 DEF Refuse, InWindow, abuse
<1>4. ASSUME NEW c \in Calls, NEW t \in 0 .. MaxTime + Skew,
             recordFailure(c, t)
      PROVE  TypeOK'
    BY <1>4, <1>0 DEF recordFailure, ReadClock, limiter, abuse
<1>5. ASSUME NEW c \in Calls, AddFailure(c) PROVE TypeOK'
    BY <1>5, <1>0 DEF AddFailure, limiter
<1>6. ASSUME NEW c \in Calls, ExpireFailures(c) PROVE TypeOK'
    BY <1>6, <1>0 DEF ExpireFailures, limiter
<1>7. ASSUME NEW c \in Calls, TrimFailures(c) PROVE TypeOK'
    BY <1>7, <1>0 DEF TrimFailures, limiter
<1>8. ASSUME NEW c \in Calls, CountFailures(c) PROVE TypeOK'
    BY <1>8, <1>0 DEF CountFailures, limiter, abuse
<1>9. ASSUME NEW c \in Calls, LockOut(c) PROVE TypeOK'
    BY <1>9, <1>0 DEF LockOut, limiter
<1>10. ASSUME NEW c \in Calls, CallDies(c) PROVE TypeOK'
    BY <1>10, <1>0 DEF CallDies, limiter, abuse
<1>11. CASE Clock
    BY <1>11, <1>0 DEF Clock
<1>12. CASE UNCHANGED vars
    BY <1>12, <1>0 DEF vars
<1>13. QED
    BY <1>0, <1>1, <1>2, <1>3, <1>4, <1>5, <1>6, <1>7, <1>8, <1>9, <1>10,
        <1>11, <1>12 DEF Next, CallStep, canActivate, use

(***************************************************************************)
(* Every component of the state keeps its type; in particular Retry-After  *)
(* is a natural number, since a refusal finds a member to measure from.    *)
(***************************************************************************)
THEOREM LimitsTypeCorrect == Spec => []TypeOK
    BY InitTypes, StepTypes, PTL DEF Spec

-----------------------------------------------------------------------------
(* The rate limiter                                                        *)

(***************************************************************************)
(* What a call has read is close to the real time of its decision; the set *)
(* holds granted requests only, never more than the limit, and every one   *)
(* that is recent enough.  The key outlives its members' window, so that   *)
(* its expiry loses nothing that counts.                                   *)
(***************************************************************************)
LimiterInv ==
    /\ \A c \in Calls : at[c] = "eval" =>
        /\ when[c] <= now /\ now <= when[c] + Delay
        /\ when[c] - Skew <= ts[c] /\ ts[c] <= when[c] + Skew
    /\ \A c \in Calls : at[c] = "granted" =>
        /\ when[c] <= now /\ logUntil >= when[c] + Window
        /\ when[c] - Delay - Skew <= ts[c] /\ ts[c] <= when[c] + Skew
        /\ when[c] > now - Assured => c \in log
    /\ \A c \in Calls : at[c] = "refused" => when[c] <= now
    /\ \A c \in log : at[c] = "granted"
    /\ Cardinality(log) <= MaxRequests
    /\ \A c \in Calls : retry[c] # NULL => at[c] = "refused"

LEMMA InitLimiter == Init => LimiterInv
    BY LimitsAssumption, FS_EmptySet DEF Init, LimiterInv

\* A step of recordFailure changes nothing that the limiter looks at.
RecordStep(c) ==
    /\ UNCHANGED <<now, limiter>>
    /\ at[c] \in {"idle"} \cup Recording
    /\ at'[c] \in Recording \cup {"recorded", "dead", "cut"}
    /\ \A x \in Calls \ {c} : at'[x] = at[x] /\ ts'[x] = ts[x]
                                /\ when'[x] = when[x]

LEMMA RecordSteps ==
    ASSUME TypeOK, NEW c \in Calls,
           \/ \E t \in 0 .. MaxTime + Skew : recordFailure(c, t)
           \/ AddFailure(c) \/ ExpireFailures(c)
           \/ TrimFailures(c) \/ CountFailures(c) \/ LockOut(c)
           \/ CallDies(c) /\ at[c] # "eval"
    PROVE  RecordStep(c)
<1> USE DEF RecordStep, Recording, Goto, TypeOK
<1>1. CASE \E t \in 0 .. MaxTime + Skew : recordFailure(c, t)
    BY <1>1 DEF recordFailure, ReadClock
<1>2. CASE AddFailure(c)
    BY <1>2 DEF AddFailure
<1>3. CASE ExpireFailures(c)
    BY <1>3 DEF ExpireFailures
<1>4. CASE TrimFailures(c)
    BY <1>4 DEF TrimFailures
<1>5. CASE CountFailures(c)
    BY <1>5 DEF CountFailures
<1>6. CASE LockOut(c)
    BY <1>6 DEF LockOut
<1>7. CASE CallDies(c) /\ at[c] # "eval"
    BY <1>7 DEF CallDies
<1>8. QED
    BY <1>1, <1>2, <1>3, <1>4, <1>5, <1>6, <1>7

\* What the steps are, as far as the limiter is concerned.
LEMMA LimiterSteps ==
    ASSUME TypeOK, [Next]_vars
    PROVE  \/ \E c \in Calls, t \in 0 .. MaxTime + Skew : rateLimiter(c, t)
           \/ \E c \in Calls : Grant(c) \/ Refuse(c) \/ RecordStep(c)
           \/ \E c \in Calls : CallDies(c) /\ at[c] = "eval"
           \/ Clock \/ UNCHANGED vars
    BY RecordSteps DEF Next, CallStep, canActivate, use

\* The window of a request reaches back far enough for the real one.
LEMMA WindowReaches ==
    ASSUME TypeOK, LimiterInv, NEW c \in Calls, at[c] = "eval"
    PROVE  /\ InWindow(ts[c]) \subseteq log
           /\ \A x \in Calls : at[x] = "granted" /\ when[x] > now - Assured =>
                x \in InWindow(ts[c])
           /\ \A x \in InWindow(ts[c]) :
                when[x] > now - Window - Delay - 2 * Skew
    BY LimitsAssumption DEF TypeOK, LimiterInv, InWindow, Assured

LEMMA StepLimiter == TypeOK /\ LimiterInv /\ [Next]_vars => LimiterInv'
<1>0. SUFFICES ASSUME TypeOK, LimiterInv, [Next]_vars PROVE LimiterInv'
    OBVIOUS
<1>a. TypeOK'
    BY <1>0, StepTypes
<1> USE LimitsAssumption, NullIsNoTime
<1>1. ASSUME NEW c \in Calls, NEW t \in 0 .. MaxTime + Skew, rateLimiter(c, t)
      PROVE  LimiterInv'
    BY <1>1, <1>0
    DEF rateLimiter, ReadClock, limiter, Goto, LimiterInv, TypeOK, Assured
<1>2. ASSUME NEW c \in Calls, Grant(c) PROVE LimiterInv'
  <2>1. at[c] = "eval" /\ InWindow(ts[c]) \in SUBSET Calls
        /\ InWindow(ts[c]) \subseteq log
    BY <1>2, <1>0 DEF Grant, Goto, InWindow, TypeOK
  <2>2. \A x \in Calls : at[x] = "granted" /\ when[x] > now - Assured =>
            x \in InWindow(ts[c])
    BY <2>1, <1>0, WindowReaches
  <2>3. Cardinality(log') <= MaxRequests
    <3>1. Cardinality(InWindow(ts[c])) \in Nat
          /\ Cardinality(log') <= Cardinality(InWindow(ts[c])) + 1
        BY <2>1, <1>2, CallSets DEF Grant
    <3>2. Cardinality(InWindow(ts[c])) < MaxRequests
        BY <1>2 DEF Grant
    <3>3. Cardinality(log') \in Nat
        BY <1>a, CallSets DEF TypeOK
    <3>4. QED
        BY <3>1, <3>2, <3>3
  <2>4. QED
    BY <2>1, <2>2, <2>3, <1>2, <1>0
    DEF Grant, Goto, LogLife, LimiterInv, TypeOK, Assured
<1>3. ASSUME NEW c \in Calls, Refuse(c) PROVE LimiterInv'
  <2>1. at[c] = "eval" /\ InWindow(ts[c]) \in SUBSET Calls
        /\ InWindow(ts[c]) \subseteq log
    BY <1>3, <1>0 DEF Refuse, Goto, InWindow, TypeOK
  <2>2. \A x \in Calls : at[x] = "granted" /\ when[x] > now - Assured =>
            x \in InWindow(ts[c])
    BY <2>1, <1>0, WindowReaches
  <2>3. Cardinality(log') <= MaxRequests
    <3>1. Cardinality(log') <= Cardinality(log) /\ Cardinality(log) \in Nat
          /\ Cardinality(log') \in Nat
        BY <2>1, <1>3, <1>0, CallSets DEF Refuse, TypeOK
    <3>2. QED
        BY <3>1, <1>0 DEF LimiterInv
  <2>4. QED
    BY <2>1, <2>2, <2>3, <1>3, <1>0
    DEF Refuse, Goto, LimiterInv, TypeOK, Assured
<1>4. ASSUME NEW c \in Calls, RecordStep(c) PROVE LimiterInv'
    BY <1>4, <1>0 DEF RecordStep, Recording, limiter, LimiterInv, TypeOK,
                      Assured
<1>5. ASSUME NEW c \in Calls, CallDies(c), at[c] = "eval" PROVE LimiterInv'
    BY <1>5, <1>0 DEF CallDies, limiter, LimiterInv, TypeOK, Assured
<1>6. CASE Clock
  <2>1. log' \subseteq log /\ log \in SUBSET Calls
    BY <1>6, <1>0 DEF Clock, TypeOK
  <2>2. Cardinality(log') <= MaxRequests
    <3>1. Cardinality(log') <= Cardinality(log) /\ Cardinality(log) \in Nat
          /\ Cardinality(log') \in Nat
        BY <2>1, CallSets
    <3>2. QED
        BY <3>1, <1>0 DEF LimiterInv
  <2>3. QED
    BY <2>1, <2>2, <1>6, <1>0 DEF Clock, LimiterInv, TypeOK, Assured
<1>7. CASE UNCHANGED vars
    BY <1>7, <1>0 DEF vars, LimiterInv, Assured
<1>8. QED
    BY <1>0, <1>1, <1>2, <1>3, <1>4, <1>5, <1>6, <1>7, LimiterSteps

(***************************************************************************)
(* RATE_LIMITER_SCRIPT keeps the bookkeeping above, whatever is refused,   *)
(* lost on the way or expired.                                             *)
(***************************************************************************)
THEOREM LimiterInvCorrect == Spec => [](TypeOK /\ LimiterInv)
    BY InitTypes, StepTypes, InitLimiter, StepLimiter, PTL DEF Spec

\* Granted requests stay as they are, and only Grant adds one.
LEMMA GrantedStep ==
    ASSUME TypeOK, [Next]_vars
    PROVE  /\ \A x \in Calls : at[x] \in {"granted", "refused"} =>
                at'[x] = at[x] /\ when'[x] = when[x] /\ ts'[x] = ts[x]
           /\ \A x \in Calls : at'[x] = "granted" /\ at[x] # "granted" =>
                Grant(x)
           /\ \A x \in Calls : at'[x] = "refused" /\ at[x] # "refused" =>
                Refuse(x)
<1> DEFINE Goal ==
        /\ \A x \in Calls : at[x] \in {"granted", "refused"} =>
            at'[x] = at[x] /\ when'[x] = when[x] /\ ts'[x] = ts[x]
        /\ \A x \in Calls : at'[x] = "granted" /\ at[x] # "granted" => Grant(x)
        /\ \A x \in Calls : at'[x] = "refused" /\ at[x] # "refused" => Refuse(x)
<1>1. ASSUME NEW c \in Calls, NEW t \in 0 .. MaxTime + Skew, rateLimiter(c, t)
      PROVE  Goal
    BY <1>1 DEF rateLimiter, ReadClock, Goto, TypeOK
<1>2. ASSUME NEW c \in Calls, Grant(c) PROVE Goal
    BY <1>2 DEF Grant, Goto, TypeOK
<1>3. ASSUME NEW c \in Calls, Refuse(c) PROVE Goal
    BY <1>3 DEF Refuse, Goto, TypeOK
<1>4. ASSUME NEW c \in Calls, RecordStep(c) PROVE Goal
    BY <1>4 DEF RecordStep, Recording, TypeOK
<1>5. ASSUME NEW c \in Calls, CallDies(c), at[c] = "eval"
      PROVE Goal
    BY <1>5 DEF CallDies, TypeOK
<1>6. CASE Clock
    BY <1>6 DEF Clock
<1>7. CASE UNCHANGED vars
    BY <1>7 DEF vars
<1>8. QED
    BY <1>1, <1>2, <1>3, <1>4, <1>5, <1>6, <1>7, LimiterSteps

LEMMA StepWindow ==
    TypeOK /\ LimiterInv /\ WindowLimit /\ [Next]_vars => WindowLimit'
<1>0. SUFFICES ASSUME TypeOK, LimiterInv, WindowLimit, [Next]_vars,
                      NEW t \in -1 .. MaxTime
               PROVE  Cardinality(Granted(t, t + Assured)') <= MaxRequests
    BY DEF WindowLimit, Assured
<1> DEFINE G == Granted(t, t + Assured)
<1>a. Cardinality(G) <= MaxRequests
    BY <1>0 DEF WindowLimit
<1>b. G \in SUBSET Calls /\ G' \in SUBSET Calls
    BY DEF Granted
<1>c. \A x \in Calls : at[x] = "granted" =>
        at'[x] = at[x] /\ when'[x] = when[x]
    BY <1>0, GrantedStep
<1>1. CASE \E c \in Calls : Grant(c)
  <2>1. PICK c \in Calls : Grant(c)
    BY <1>1
  <2>2. at[c] = "eval" /\ at'[c] = "granted" /\ when'[c] = now
        /\ \A x \in Calls \ {c} : at'[x] = at[x] /\ when'[x] = when[x]
    BY <2>1, <1>0 DEF Grant, Goto, TypeOK
  <2>3. CASE t < now /\ now <= t + Assured
    <3> DEFINE W == InWindow(ts[c])
    <3>1. \A x \in Calls : at[x] = "granted" /\ when[x] > now - Assured =>
            x \in W
        BY <2>2, <1>0, WindowReaches
    <3>2. G' \subseteq W \cup {c}
        BY <2>2, <2>3, <3>1, <1>0, LimitsAssumption
        DEF Granted, Assured, TypeOK
    <3>3. W \in SUBSET Calls /\ Cardinality(W) < MaxRequests
        BY <2>1, <1>0 DEF Grant, InWindow, TypeOK
    <3>4. W \cup {c} \in SUBSET Calls
        BY <3>3
    <3> HIDE DEF W, G
    <3>5. /\ Cardinality(W) \in Nat
          /\ Cardinality(W \cup {c}) \in Nat
          /\ Cardinality(W \cup {c}) <= Cardinality(W) + 1
        BY <3>3, <3>4, CallSets
    <3>6. Cardinality(G') \in Nat /\ Cardinality(G') <= Cardinality(W \cup {c})
        BY <3>2, <3>4, <1>b, CallSets
    <3>7. QED
        BY <3>3, <3>5, <3>6, LimitsAssumption DEF G
  <2>4. CASE ~ (t < now /\ now <= t + Assured)
    <3>1. G' = G
        BY <2>2, <2>4 DEF Granted, Assured
    <3>2. QED
        BY <3>1, <1>a
  <2>5. QED
    BY <2>3, <2>4
<1>2. CASE ~ \E c \in Calls : Grant(c)
  <2>1. \A x \in Calls : at'[x] = "granted" => at[x] = "granted"
    BY <1>2, <1>0, GrantedStep
  <2>2. G' = G
    BY <2>1, <1>c DEF Granted, Assured
  <2>3. QED
    BY <2>2, <1>a
<1>3. QED
    BY <1>1, <1>2

LEMMA InitWindow == Init => WindowLimit
<1>1. SUFFICES ASSUME Init, NEW t \in -1 .. MaxTime
               PROVE  Cardinality(Granted(t, t + Assured)) <= MaxRequests
    BY DEF WindowLimit
<1>2. Granted(t, t + Assured) = {}
    BY <1>1 DEF Init, Granted
<1>3. Cardinality(Granted(t, t + Assured)) = 0
    BY <1>2, FS_EmptySet, Zenon
<1>4. QED
    BY <1>3, LimitsAssumption

(***************************************************************************)
(* The limiter never lets more than maxRequests through in any real window *)
(* of Window - Delay - 2 * Skew, for any limit, any skew of the servers'   *)
(* clocks and any delay on the way to Redis.                               *)
(***************************************************************************)
THEOREM WindowNeverOverbooked == Spec => []WindowLimit
    BY LimiterInvCorrect, InitWindow, StepWindow, PTL DEF Spec

LEMMA StepRefused ==
    TypeOK /\ LimiterInv /\ RefusedOnlyWhenFull /\ [Next]_vars
        => RefusedOnlyWhenFull'
<1>0. SUFFICES ASSUME TypeOK, LimiterInv, RefusedOnlyWhenFull, [Next]_vars,
                      NEW c \in Calls, at'[c] = "refused"
               PROVE  Cardinality(Granted(when[c] - Window - Delay - 2 * Skew,
                                          when[c])') >= MaxRequests
    BY DEF RefusedOnlyWhenFull, Granted
<1> DEFINE H == Granted(when[c] - Window - Delay - 2 * Skew, when[c])'
<1>a. H \in SUBSET Calls
    BY DEF Granted
<1>1. CASE at[c] = "refused"
  <2> DEFINE G == Granted(when[c] - Window - Delay - 2 * Skew, when[c])
  <2>1. G \subseteq H
    BY <1>0, <1>1, GrantedStep DEF Granted
  <2>2. Cardinality(G) >= MaxRequests
    BY <1>0, <1>1 DEF RefusedOnlyWhenFull
  <2>3. G \in SUBSET Calls
    BY DEF Granted
  <2> HIDE DEF G, H
  <2>4. Cardinality(G) <= Cardinality(H) /\ Cardinality(G) \in Nat
        /\ Cardinality(H) \in Nat
    BY <2>1, <2>3, <1>a, CallSets
  <2>5. QED
    BY <2>2, <2>4, LimitsAssumption DEF H
<1>2. CASE at[c] # "refused"
  <2> DEFINE W == InWindow(ts[c])
  <2>1. Refuse(c)
    BY <1>0, <1>2, GrantedStep
  <2>2. at[c] = "eval" /\ when'[c] = now /\ W \subseteq log
        /\ log \in SUBSET Calls /\ Cardinality(W) >= MaxRequests
    BY <2>1, <1>0 DEF Refuse, Goto, TypeOK, InWindow
  <2>3. \A x \in W : at[x] = "granted" /\ when[x] <= now
                     /\ when[x] > now - Window - Delay - 2 * Skew
    BY <2>2, <1>0, WindowReaches DEF LimiterInv
  <2>4. W \subseteq H
    BY <2>2, <2>3, <1>0, GrantedStep DEF Granted
  <2>5. W \in SUBSET Calls
    BY <2>2
  <2> HIDE DEF W, H
  <2>6. Cardinality(W) <= Cardinality(H) /\ Cardinality(W) \in Nat
        /\ Cardinality(H) \in Nat
    BY <2>4, <2>5, <1>a, CallSets
  <2>7. QED
    BY <2>2, <2>6, LimitsAssumption DEF H
<1>3. QED
    BY <1>1, <1>2

(***************************************************************************)
(* A request is refused only when the limit was used up by requests that   *)
(* were let through, never by refused ones.                                *)
(***************************************************************************)
THEOREM NobodyRefusedForNothing == Spec => []RefusedOnlyWhenFull
<1>1. Init => RefusedOnlyWhenFull
    BY DEF Init, RefusedOnlyWhenFull
<1>2. QED
    BY <1>1, LimiterInvCorrect, StepRefused, PTL DEF Spec

LEMMA StepRetry ==
    TypeOK /\ LimiterInv /\ RetryAfterSuffices /\ [Next]_vars
        => RetryAfterSuffices'
<1>0. SUFFICES ASSUME TypeOK, LimiterInv, RetryAfterSuffices, [Next]_vars,
                      NEW c \in Calls, retry'[c] # NULL
               PROVE  Cardinality(InWindow(ts[c] + retry[c])') < MaxRequests
    BY DEF RetryAfterSuffices, InWindow
<1>a. TypeOK' /\ LimiterInv'
    BY <1>0, StepTypes, StepLimiter
<1>b. at'[c] = "refused"
    BY <1>0, <1>a DEF LimiterInv
<1> DEFINE V == InWindow(ts[c] + retry[c])'
<1>1. CASE at[c] = "refused"
  <2> DEFINE W == InWindow(ts[c] + retry[c])
  <2>1. ~ \E x \in Calls : Grant(x)
    BY <1>0 DEF Grant
  <2>2. log' \subseteq log /\ retry'[c] = retry[c]
    <3>1. ASSUME NEW x \in Calls, NEW t \in 0 .. MaxTime + Skew,
                 rateLimiter(x, t)
          PROVE  log' \subseteq log /\ retry'[c] = retry[c]
        BY <3>1 DEF rateLimiter, ReadClock, limiter
    <3>2. ASSUME NEW x \in Calls, Refuse(x)
          PROVE  log' \subseteq log /\ retry'[c] = retry[c]
        BY <3>2, <1>1, <1>0 DEF Refuse, Goto, InWindow, TypeOK
    <3>3. ASSUME NEW x \in Calls, RecordStep(x)
          PROVE  log' \subseteq log /\ retry'[c] = retry[c]
        BY <3>3 DEF RecordStep, limiter
    <3>4. ASSUME NEW x \in Calls, CallDies(x)
          PROVE  log' \subseteq log /\ retry'[c] = retry[c]
        BY <3>4 DEF CallDies, limiter
    <3>5. CASE Clock
        BY <3>5 DEF Clock
    <3>6. CASE UNCHANGED vars
        BY <3>6 DEF vars
    <3>7. QED
        BY <2>1, <3>1, <3>2, <3>3, <3>4, <3>5, <3>6, <1>0, LimiterSteps
  <2>3. \A x \in Calls : at[x] \in {"granted", "refused"} => ts'[x] = ts[x]
    BY <1>0, GrantedStep
  <2>4. V \subseteq W
    BY <2>2, <2>3, <1>0, <1>1 DEF InWindow, LimiterInv, TypeOK
  <2>5. W \in SUBSET Calls /\ Cardinality(W) < MaxRequests
    BY <2>2, <1>0 DEF RetryAfterSuffices, InWindow, TypeOK
  <2> HIDE DEF V, W
  <2>6. V \in SUBSET Calls
    BY <2>4, <2>5
  <2>7. Cardinality(V) <= Cardinality(W) /\ Cardinality(V) \in Nat
        /\ Cardinality(W) \in Nat
    BY <2>4, <2>5, <2>6, CallSets
  <2>8. QED
    BY <2>5, <2>7, LimitsAssumption DEF V
<1>2. CASE at[c] # "refused"
  <2>1. Refuse(c)
    BY <1>0, <1>2, <1>b, GrantedStep
  <2> DEFINE r == ResetAfter(ts[c])
  <2>2. Cardinality(InWindow(ts[c])) >= MaxRequests /\ ts' = ts
        /\ log' = InWindow(ts[c]) /\ retry'[c] = RetryAfter(r)
    BY <2>1, <1>0 DEF Refuse, TypeOK
  <2>3. PICK x \in InWindow(ts[c]) : Oldest(ts[c]) = ts[x]
    BY <2>2, <1>0, OldestScore DEF TypeOK
  <2>4. r \in Nat /\ r >= ts[x] + Window - ts[c]
    BY <2>2, <2>3, <1>0, OldestScore DEF TypeOK
  <2>5. RetryAfter(r) \in Nat /\ RetryAfter(r) >= r
    BY <2>4, RoundingUp
  <2>6. x \in log' /\ x \notin V
    BY <2>2, <2>3, <2>4, <2>5, <1>0, LimitsAssumption DEF InWindow, TypeOK
  <2>7. V \subseteq log' \ {x} /\ log' \in SUBSET Calls
        /\ Cardinality(log') <= MaxRequests
    BY <2>6, <1>a DEF InWindow, TypeOK, LimiterInv
  <2> HIDE DEF V
  <2>8. IsFiniteSet(log') /\ Cardinality(log') \in Nat
        /\ V \in SUBSET Calls /\ log' \ {x} \in SUBSET Calls
    BY <2>7, CallSets
  <2>9. Cardinality(log' \ {x}) = Cardinality(log') - 1
    BY <2>6, <2>8, FS_RemoveElement
  <2>10. Cardinality(V) <= Cardinality(log' \ {x}) /\ Cardinality(V) \in Nat
    BY <2>7, <2>8, CallSets
  <2>11. QED
    BY <2>7, <2>8, <2>9, <2>10, LimitsAssumption DEF V
<1>3. QED
    BY <1>1, <1>2

(***************************************************************************)
(* Whoever waits as long as Retry-After says, and is not overtaken, finds  *)
(* room: the header is rounded up, and the script measures from the oldest *)
(* request in a window that is never more than full.                       *)
(***************************************************************************)
THEOREM RetryAfterIsEnough == Spec => []RetryAfterSuffices
<1>1. Init => RetryAfterSuffices
    BY DEF Init, RetryAfterSuffices
<1>2. QED
    BY <1>1, LimiterInvCorrect, StepRetry, PTL DEF Spec

-----------------------------------------------------------------------------
(* The lockout after payment failures                                      *)

\* A request passing the limiter changes nothing recordFailure looks at.
LimitStep(c) ==
    /\ UNCHANGED <<now, abuse>>
    /\ at[c] \in {"idle", "eval"}
    /\ at'[c] \in {"eval", "granted", "refused", "dead"}
    /\ \A x \in Calls \ {c} : at'[x] = at[x] /\ ts'[x] = ts[x]
                                /\ when'[x] = when[x]

\* What a step does, as far as recordFailure is concerned.
LEMMA AbuseSteps ==
    ASSUME TypeOK, [Next]_vars
    PROVE  \/ \E c \in Calls :
                \/ LimitStep(c)
                \/ \E t \in 0 .. MaxTime + Skew : recordFailure(c, t)
                \/ AddFailure(c) \/ ExpireFailures(c) \/ TrimFailures(c)
                \/ CountFailures(c) \/ LockOut(c)
                \/ CallDies(c) /\ at[c] # "eval"
           \/ Clock \/ UNCHANGED vars
<1>1. ASSUME NEW c \in Calls, NEW t \in 0 .. MaxTime + Skew, rateLimiter(c, t)
      PROVE  LimitStep(c)
    BY <1>1 DEF rateLimiter, ReadClock, Goto, LimitStep, abuse, TypeOK
<1>2. ASSUME NEW c \in Calls, Grant(c) \/ Refuse(c) PROVE LimitStep(c)
    BY <1>2 DEF Grant, Refuse, Goto, LimitStep, abuse, TypeOK
<1>3. ASSUME NEW c \in Calls, CallDies(c), at[c] = "eval" PROVE LimitStep(c)
    BY <1>3 DEF CallDies, LimitStep, Recording, abuse, TypeOK
<1>4. ASSUME NEW c \in Calls, CallStep(c)
      PROVE  \/ LimitStep(c)
             \/ \E t \in 0 .. MaxTime + Skew : recordFailure(c, t)
             \/ AddFailure(c) \/ ExpireFailures(c) \/ TrimFailures(c)
             \/ CountFailures(c) \/ LockOut(c)
             \/ CallDies(c) /\ at[c] # "eval"
    BY <1>1, <1>2, <1>3, <1>4 DEF CallStep, canActivate, use
<1>5. QED
    BY <1>4 DEF Next

\* What a call has read stays; a failure that was added remains one.
LEMMA FailuresKept ==
    ASSUME TypeOK, [Next]_vars
    PROVE  \A x \in Added : x \in Added' /\ when'[x] = when[x] /\ ts'[x] = ts[x]
<1> DEFINE Kept == \A x \in Added :
        x \in Added' /\ when'[x] = when[x] /\ ts'[x] = ts[x]
<1> USE DEF Added, Recording, Goto, TypeOK
<1>1. ASSUME NEW c \in Calls, LimitStep(c) PROVE Kept
    BY <1>1 DEF LimitStep
<1>2. ASSUME NEW c \in Calls, NEW t \in 0 .. MaxTime + Skew, recordFailure(c, t)
      PROVE  Kept
    BY <1>2 DEF recordFailure, ReadClock
<1>3. ASSUME NEW c \in Calls, AddFailure(c) \/ ExpireFailures(c) PROVE Kept
    BY <1>3 DEF AddFailure, ExpireFailures
<1>4. ASSUME NEW c \in Calls, TrimFailures(c) \/ CountFailures(c) PROVE Kept
    BY <1>4 DEF TrimFailures, CountFailures
<1>5. ASSUME NEW c \in Calls, LockOut(c) \/ CallDies(c) PROVE Kept
    BY <1>5 DEF LockOut, CallDies
<1>6. CASE Clock \/ UNCHANGED vars
    BY <1>6 DEF Clock, vars
<1>7. QED
    BY <1>1, <1>2, <1>3, <1>4, <1>5, <1>6, AbuseSteps

(***************************************************************************)
(* A call that is recording began no longer than RecordTime ago, and every *)
(* score is within Skew of the time its call began.  A failure that was    *)
(* added stays in the set until it is a window old on any server's clock,  *)
(* unless it went with a key that lapsed under it; the key is kept for     *)
(* every failure whose call has come past its PEXPIRE.  A call that counts *)
(* has trimmed by its own clock, and what was added since is younger.      *)
(***************************************************************************)
AbuseInv ==
    /\ \A c \in Calls : at[c] \in Recording =>
        when[c] <= now /\ now <= when[c] + RecordTime
    /\ \A c \in Calls : at[c] \in Recording \cup {"recorded", "cut"} =>
        /\ when[c] <= now
        /\ when[c] - Skew <= ts[c] /\ ts[c] <= when[c] + Skew
    /\ fails \subseteq Added
    /\ \A c \in Added \ lost :
        at[c] # "cut" /\ ts[c] > now + Skew - FailWindow => c \in fails
    /\ \A c \in fails : at[c] \notin {"pexpire", "cut"} =>
        failsUntil # NULL /\ failsUntil >= when[c] + FailWindow
    /\ lockUntil <= now + LockTime
    /\ \A c \in Calls : at[c] = "count" =>
        \A x \in fails : when[x] > when[c] - FailWindow - 2 * Skew

LEMMA InitAbuse == Init => AbuseInv
    BY LimitsAssumption DEF Init, AbuseInv, Recording, Added

LEMMA StepAbuse == TypeOK /\ AbuseInv /\ [Next]_vars => AbuseInv'
<1>0. SUFFICES ASSUME TypeOK, AbuseInv, [Next]_vars PROVE AbuseInv'
    OBVIOUS
<1> USE LimitsAssumption, NullIsNoTime DEF Recording, Added, Goto
<1>1. ASSUME NEW c \in Calls, LimitStep(c) PROVE AbuseInv'
    BY <1>1, <1>0 DEF LimitStep, abuse, AbuseInv, TypeOK
<1>2. ASSUME NEW c \in Calls, NEW t \in 0 .. MaxTime + Skew, recordFailure(c, t)
      PROVE  AbuseInv'
    BY <1>2, <1>0 DEF recordFailure, ReadClock, abuse, AbuseInv, TypeOK
<1>3. ASSUME NEW c \in Calls, AddFailure(c) PROVE AbuseInv'
    BY <1>3, <1>0 DEF AddFailure, AbuseInv, TypeOK
<1>4. ASSUME NEW c \in Calls, ExpireFailures(c) PROVE AbuseInv'
    BY <1>4, <1>0 DEF ExpireFailures, AbuseInv, TypeOK
<1>5. ASSUME NEW c \in Calls, TrimFailures(c) PROVE AbuseInv'
    BY <1>5, <1>0 DEF TrimFailures, AbuseInv, TypeOK
<1>6. ASSUME NEW c \in Calls, CountFailures(c) PROVE AbuseInv'
    BY <1>6, <1>0 DEF CountFailures, abuse, AbuseInv, TypeOK
<1>7. ASSUME NEW c \in Calls, LockOut(c) PROVE AbuseInv'
    BY <1>7, <1>0 DEF LockOut, AbuseInv, TypeOK
<1>8. ASSUME NEW c \in Calls, CallDies(c), at[c] # "eval" PROVE AbuseInv'
    BY <1>8, <1>0 DEF CallDies, abuse, AbuseInv, TypeOK
<1>9. CASE Clock
    BY <1>9, <1>0 DEF Clock, AbuseInv, TypeOK
<1>10. CASE UNCHANGED vars
    BY <1>10, <1>0 DEF vars, AbuseInv
<1>11. QED
    BY <1>0, <1>1, <1>2, <1>3, <1>4, <1>5, <1>6, <1>7, <1>8, <1>9, <1>10,
        AbuseSteps

(***************************************************************************)
(* recordFailure keeps the bookkeeping above, although its commands are    *)
(* not atomic, time passes between them and any of them may be the last.   *)
(***************************************************************************)
THEOREM AbuseInvCorrect == Spec => [](TypeOK /\ AbuseInv)
    BY InitTypes, StepTypes, InitAbuse, StepAbuse, PTL DEF Spec

\* Calls that have counted the failures, their own included.
Past == {c \in Calls : at[c] \in {"lock", "recorded"}} \ lost

(***************************************************************************)
(* Once enough failures have been counted, one of them is about to lock    *)
(* the user out, or the lockout covers them all.                           *)
(***************************************************************************)
LockInv ==
    \A F \in SUBSET Past :
        Together(F, Threshold) => (\E x \in F : at[x] = "lock") \/ LockedSince(F)

\* Nothing but a count adds to those that have counted.
Quiet ==
    /\ lockUntil' = lockUntil /\ Past' \subseteq Past
    /\ \A x \in Past : x \in Past' => at'[x] = at[x]
    /\ \A x \in Past : when'[x] = when[x]

LEMMA QuietStep == TypeOK /\ LockInv /\ Quiet => LockInv'
<1>1. SUFFICES ASSUME TypeOK, LockInv, Quiet, NEW F \in SUBSET (Past'),
                      Together(F, Threshold)'
               PROVE  (\E x \in F : at'[x] = "lock") \/ LockedSince(F)'
    BY DEF LockInv
<1>2. F \in SUBSET Past /\ Together(F, Threshold)
    BY <1>1 DEF Quiet, Together, AssuredFailWindow
<1>3. QED
    BY <1>1, <1>2 DEF LockInv, Quiet, LockedSince

LEMMA StepLock == TypeOK /\ AbuseInv /\ LockInv /\ [Next]_vars => LockInv'
<1>0. SUFFICES ASSUME TypeOK, AbuseInv, LockInv, [Next]_vars PROVE LockInv'
    OBVIOUS
<1> USE DEF Goto
<1>1. ASSUME NEW c \in Calls, LimitStep(c) PROVE Quiet
    BY <1>1, <1>0 DEF LimitStep, abuse, Quiet, Past, TypeOK
<1>2. ASSUME NEW c \in Calls,
             \/ \E t \in 0 .. MaxTime + Skew : recordFailure(c, t)
             \/ AddFailure(c) \/ ExpireFailures(c) \/ TrimFailures(c)
      PROVE  Quiet
    BY <1>2, <1>0 DEF recordFailure, ReadClock, abuse, AddFailure,
        ExpireFailures, TrimFailures, Quiet, Past, TypeOK
<1>3. ASSUME NEW c \in Calls, CallDies(c) PROVE Quiet
    BY <1>3, <1>0 DEF CallDies, Recording, abuse, Quiet, Past, TypeOK
<1>4. CASE Clock \/ UNCHANGED vars
    BY <1>4, <1>0, QuietStep DEF Clock, vars, Quiet, Past, TypeOK
<1>5. ASSUME NEW c \in Calls, CountFailures(c) PROVE LockInv'
  <2>1. SUFFICES ASSUME NEW F \in SUBSET (Past'), Together(F, Threshold)'
                 PROVE  (\E x \in F : at'[x] = "lock") \/ LockedSince(F)'
    BY DEF LockInv
  <2>2. at[c] = "count" /\ at'[c] \in {"lock", "recorded"} /\ lost' = lost
        /\ when' = when /\ lockUntil' = lockUntil /\ fails' = fails
        /\ \A x \in Calls \ {c} : at'[x] = at[x]
    BY <1>5, <1>0 DEF CountFailures, abuse, TypeOK
  <2>3. Together(F, Threshold)
    BY <2>1, <2>2 DEF Together, AssuredFailWindow
  <2>4. CASE c \notin F
    <3>1. F \in SUBSET Past
        BY <2>1, <2>2, <2>4 DEF Past
    <3>2. QED
        BY <3>1, <2>2, <2>3, <2>4, <1>0 DEF LockInv, Past, LockedSince
  <2>5. CASE c \in F
    <3>1. \A x \in F : x \in Calls \ lost /\ at[x] \in {"count", "lock", "recorded"}
        BY <2>1, <2>2, <2>5 DEF Past
    <3>2. \A x \in F : when[x] > when[c] - AssuredFailWindow
        BY <2>3, <2>5, <3>1, <1>0, LimitsAssumption
        DEF Together, AssuredFailWindow, TypeOK
    <3>3. now <= when[c] + RecordTime
        BY <2>2, <1>0 DEF AbuseInv, Recording
    <3>4. \A x \in F : ts[x] > now + Skew - FailWindow
        BY <3>1, <3>2, <3>3, <1>0, LimitsAssumption
        DEF AssuredFailWindow, AbuseInv, Recording, TypeOK
    <3>5. F \subseteq fails
        BY <3>1, <3>4, <1>0 DEF AbuseInv, Added
    <3>6. Cardinality(F) <= Cardinality(fails) /\ Cardinality(fails) \in Nat
        BY <3>5, <1>0, CallSets DEF TypeOK
    <3>7. Cardinality(fails) >= Threshold
        BY <3>6, <2>3, LimitsAssumption DEF Together
    <3>8. at'[c] = "lock"
        BY <3>6, <3>7, <1>5, <1>0, LimitsAssumption DEF CountFailures, TypeOK
    <3>9. QED
        BY <3>8, <2>5
  <2>6. QED
    BY <2>4, <2>5
<1>6. ASSUME NEW c \in Calls, LockOut(c) PROVE LockInv'
  <2>1. SUFFICES ASSUME NEW F \in SUBSET (Past') PROVE LockedSince(F)'
    BY DEF LockInv
  <2>2. lockUntil' = now + LockTime /\ when' = when
        /\ \A x \in Past' : x \in Calls /\ when[x] <= now
    BY <1>6, <1>0, LimitsAssumption
    DEF LockOut, Past, AbuseInv, Recording, TypeOK
  <2>3. QED
    BY <2>1, <2>2, <1>0, LimitsAssumption DEF TypeOK, LockedSince
<1>7. QED
    BY <1>0, <1>1, <1>2, <1>3, <1>4, <1>5, <1>6, QuietStep, AbuseSteps

LEMMA InitLock == Init => LockInv
<1>1. SUFFICES ASSUME Init, NEW F \in SUBSET Past, Together(F, Threshold)
               PROVE  FALSE
    BY DEF LockInv
<1>2. F = {}
    BY <1>1 DEF Init, Past
<1>3. Cardinality(F) = 0
    BY <1>2, FS_EmptySet, Zenon
<1>4. QED
    BY <1>3, <1>1, LimitsAssumption DEF Together

LEMMA LockInvSuffices == LockInv => FailuresLockOut
<1>1. SUFFICES ASSUME LockInv, NEW F \in SUBSET Recorded, Together(F, Threshold)
               PROVE  LockedSince(F)
    BY DEF FailuresLockOut
<1>2. F \in SUBSET Past /\ \A x \in F : at[x] # "lock"
    BY DEF Recorded, Past
<1>3. QED
    BY <1>1, <1>2 DEF LockInv

(***************************************************************************)
(* Threshold failures recorded to the end, within FailWindow less twice    *)
(* the skew of the servers' clocks and the time a recordFailure takes,     *)
(* have locked the user out since the last of them.  The commands of the   *)
(* calls interleave, time passes and keys lapse between them, a call with  *)
(* a later clock trims under another's count, and calls die half way.  A   *)
(* failure is not counted on if its key lapsed between its ZADD and its    *)
(* PEXPIRE.                                                                *)
(***************************************************************************)
THEOREM FailuresAlwaysLockOut == Spec => []FailuresLockOut
<1>1. Spec => []LockInv
    BY AbuseInvCorrect, InitLock, StepLock, PTL DEF Spec
<1>2. QED
    BY <1>1, LockInvSuffices, PTL

\* The failures a call may have counted.
Behind(c) == {x \in Added : when[x] > when[c] - FailWindow - 2 * Skew}

\* Enough failures are behind a lockout, and behind one about to be set.
CauseInv ==
    /\ \A c \in Calls : at[c] = "lock" => Cardinality(Behind(c)) >= Threshold
    /\ LockedForCause

\* A cause lasts: failures are recorded for ever, with their times.
LEMMA CauseLasts ==
    ASSUME TypeOK, [Next]_vars, NEW t, Cause(t)
    PROVE  Cause(t)'
    BY FailuresKept DEF Cause

LEMMA BehindLasts ==
    ASSUME TypeOK, [Next]_vars, NEW c \in Calls, at[c] = "lock",
           Cardinality(Behind(c)) >= Threshold
    PROVE  Cardinality(Behind(c)') >= Threshold
<1>1. c \in Added
    BY DEF Added
<1>2. Behind(c) \subseteq Behind(c)'
    BY <1>1, FailuresKept DEF Behind
<1>3. Behind(c)' \in SUBSET Calls
    BY DEF Behind, Added
<1>4. QED
    BY <1>2, <1>3, CallSets, LimitsAssumption

\* Only a count decides to lock out.
LEMMA LockDecided ==
    ASSUME TypeOK, [Next]_vars, NEW c \in Calls, at'[c] = "lock", at[c] # "lock"
    PROVE  CountFailures(c)
<1> USE DEF Goto, TypeOK
<1>1. ASSUME NEW x \in Calls, LimitStep(x) PROVE FALSE
    BY <1>1 DEF LimitStep
<1>2. ASSUME NEW x \in Calls, NEW t \in 0 .. MaxTime + Skew, recordFailure(x, t)
      PROVE  FALSE
    BY <1>2 DEF recordFailure
<1>3. ASSUME NEW x \in Calls,
             \/ AddFailure(x) \/ ExpireFailures(x) \/ TrimFailures(x)
             \/ LockOut(x) \/ CallDies(x)
      PROVE  FALSE
    BY <1>3 DEF AddFailure, ExpireFailures, TrimFailures, LockOut, CallDies,
        Recording
<1>4. CASE Clock \/ UNCHANGED vars
    BY <1>4 DEF Clock, vars
<1>5. ASSUME NEW x \in Calls, CountFailures(x) PROVE CountFailures(c)
    BY <1>5 DEF CountFailures
<1>6. QED
    BY <1>1, <1>2, <1>3, <1>4, <1>5, AbuseSteps

\* Only LockOut sets the lockout.
LEMMA LockoutSet ==
    ASSUME TypeOK, [Next]_vars, lockUntil' # lockUntil
    PROVE  \E c \in Calls : LockOut(c)
    BY AbuseSteps DEF LimitStep, recordFailure, ReadClock, abuse, AddFailure,
        ExpireFailures, TrimFailures, CountFailures, CallDies, Clock, vars

LEMMA StepCause == TypeOK /\ AbuseInv /\ CauseInv /\ [Next]_vars => CauseInv'
<1>0. SUFFICES ASSUME TypeOK, AbuseInv, CauseInv, [Next]_vars PROVE CauseInv'
    OBVIOUS
<1>1. ASSUME NEW c \in Calls, at'[c] = "lock"
      PROVE  Cardinality(Behind(c)') >= Threshold
  <2>1. CASE at[c] = "lock"
    BY <1>0, <2>1, BehindLasts DEF CauseInv
  <2>2. CASE at[c] # "lock"
    <3>1. CountFailures(c)
        BY <1>0, <1>1, <2>2, LockDecided
    <3>2. at[c] = "count" /\ Cardinality(fails) >= Threshold /\ c \in Added
        BY <3>1, <1>0, <1>1 DEF CountFailures, Goto, TypeOK, Added
    <3>3. fails \subseteq Behind(c)
        BY <3>2, <1>0 DEF AbuseInv, Behind
    <3>4. Behind(c) \subseteq Behind(c)'
        BY <1>0, <3>2, FailuresKept DEF Behind
    <3>5. Behind(c)' \in SUBSET Calls /\ fails \in SUBSET Calls
        BY <1>0 DEF Behind, Added, TypeOK
    <3>6. Cardinality(fails) \in Nat /\ Cardinality(Behind(c)') \in Nat
          /\ Cardinality(fails) <= Cardinality(Behind(c)')
        BY <3>3, <3>4, <3>5, CallSets
    <3>7. QED
        BY <3>2, <3>6, LimitsAssumption
  <2>3. QED
    BY <2>1, <2>2
<1>2. LockedForCause'
  <2>1. CASE lockUntil' = lockUntil
    BY <2>1, <1>0, CauseLasts DEF CauseInv, LockedForCause
  <2>2. CASE lockUntil' # lockUntil
    <3>1. PICK c \in Calls : LockOut(c)
        BY <2>2, <1>0, LockoutSet
    <3>2. at[c] = "lock" /\ lockUntil' = now + LockTime
        BY <3>1 DEF LockOut, Goto
    <3>3. Cardinality(Behind(c)) >= Threshold
        BY <3>2, <1>0 DEF CauseInv
    <3>4. \A x \in Behind(c) :
            when[x] > now - FailWindow - RecordTime - 2 * Skew /\ when[x] <= now
        BY <3>2, <1>0, LimitsAssumption
        DEF Behind, Added, AbuseInv, Recording, TypeOK
    <3>5. Behind(c) \in SUBSET Added
        BY DEF Behind
    <3>6. Cause(now)
        BY <3>3, <3>4, <3>5 DEF Cause
    <3>7. Cause(now)'
        <4>1. now' = now
            BY <3>1 DEF LockOut
        <4>2. QED
            BY <4>1, <3>4, <3>3, <3>5, <1>0, FailuresKept DEF Cause
    <3>8. lockUntil' - LockTime = now'
        BY <3>1, <3>2, <1>0, LimitsAssumption DEF LockOut, TypeOK
    <3>9. QED
        BY <3>7, <3>8 DEF LockedForCause
  <2>3. QED
    BY <2>1, <2>2
<1>3. QED
    BY <1>1, <1>2 DEF CauseInv

(***************************************************************************)
(* Whoever is locked out had Threshold payment failures, within a window   *)
(* and the tolerance of clocks and calls, when the lockout was set:        *)
(* commands of several calls that interleave count none that is older.     *)
(***************************************************************************)
THEOREM LockoutHasCause == Spec => []LockedForCause
<1>1. Init => CauseInv
    BY DEF Init, CauseInv, LockedForCause
<1>2. Spec => []CauseInv
    BY <1>1, AbuseInvCorrect, StepCause, PTL DEF Spec
<1>3. CauseInv => LockedForCause
    BY DEF CauseInv
<1>4. QED
    BY <1>2, <1>3, PTL

=============================================================================
