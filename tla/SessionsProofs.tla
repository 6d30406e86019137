--------------------------- MODULE SessionsProofs ---------------------------
(* Proofs about Sessions, for any number of calls and any lifetimes.       *)
EXTENDS Sessions, TLAPS

-----------------------------------------------------------------------------
(* Types                                                                   *)

LEMMA InitTypes == Init => TypeOK
    BY SessionsAssumption DEF Init, TypeOK, Times, Step, Op

LEMMA StepTypes == TypeOK /\ [Next]_vars => TypeOK'
<1>0. SUFFICES ASSUME TypeOK, [Next]_vars PROVE TypeOK'
    OBVIOUS
<1>a. getAccessVersion \in Nat
    BY <1>0 DEF getAccessVersion, TypeOK
<1>b. now + SessionTime \in Times
    BY <1>0, SessionsAssumption DEF TypeOK, Times
<1>c. 0 \in Times
    BY SessionsAssumption DEF Times
<1>d. Signed \subseteq Calls
    BY DEF Signed
<1> USE DEF Step, Op
<1>1. CASE \E c \in Calls : SignIn(c)
    BY <1>1, <1>0, <1>a, <1>b, <1>c, <1>d, SessionsAssumption
    DEF SignIn, Begin, TypeOK, redis, access
<1>2. CASE \E c \in Calls : Logout(c)
    BY <1>2, <1>0, <1>a, <1>b, <1>c, <1>d, SessionsAssumption
    DEF Logout, Begin, TypeOK, redis, access
<1>3. CASE \E c \in Calls : ChangePassword(c)
    BY <1>3, <1>0, <1>a, <1>b, <1>c, <1>d, SessionsAssumption
    DEF ChangePassword, Begin, TypeOK, redis, access
<1>4. CASE \E c, t \in Calls : Refresh(c, t)
    BY <1>4, <1>0, <1>a, <1>b, <1>c, <1>d, SessionsAssumption
    DEF Refresh, Begin, TypeOK, redis, access
<1>5. CASE \E c \in Calls : Rotate(c)
    BY <1>5, <1>0, <1>a, <1>b, <1>c, <1>d, SessionsAssumption
    DEF Rotate, Goto, TypeOK, redis, access
<1>6. CASE \E c \in Calls : RotateRefused(c)
    BY <1>6, <1>0, <1>a, <1>b, <1>c, <1>d, SessionsAssumption
    DEF RotateRefused, Goto, TypeOK, redis, access
<1>7. CASE \E c \in Calls : incrementAccessVersion(c)
    BY <1>7, <1>0, <1>a, <1>b, <1>c, <1>d, SessionsAssumption
    DEF incrementAccessVersion, OutdateAll, Goto, TypeOK, redis, access
<1>8. CASE \E c \in Calls : ReadSessions(c)
    BY <1>8, <1>0, <1>a, <1>b, <1>c, <1>d, SessionsAssumption
    DEF ReadSessions, Goto, Revoked, TypeOK, redis, access
<1>9. CASE \E c \in Calls : DeleteSessions(c)
    BY <1>9, <1>0, <1>a, <1>b, <1>c, <1>d, SessionsAssumption
    DEF DeleteSessions, Goto, Revoked, TypeOK, redis, access
<1>10. CASE \E c \in Calls : signAccess(c)
    BY <1>10, <1>0, <1>a, <1>b, <1>c, <1>d, SessionsAssumption
    DEF signAccess, Goto, TypeOK, redis, access
<1>11. CASE \E c \in Calls : StoreSession(c)
    BY <1>11, <1>0, <1>a, <1>b, <1>c, <1>d, SessionsAssumption
    DEF StoreSession, Goto, TypeOK, redis, access
<1>12. CASE \E c \in Calls : CallFails(c)
    BY <1>12, <1>0, <1>a, <1>b, <1>c, <1>d, SessionsAssumption
    DEF CallFails, TypeOK, redis, access
<1>13. CASE Clock
    BY <1>13, <1>0, <1>a, <1>b, <1>c, <1>d, SessionsAssumption
    DEF Clock, TypeOK, redis, access
<1>14. CASE UNCHANGED vars
    BY <1>14, <1>0, <1>a, <1>b, <1>c, <1>d, SessionsAssumption
    DEF vars, TypeOK, redis, access
<1>15. QED
    BY <1>0, <1>1, <1>2, <1>3, <1>4, <1>5, <1>6, <1>7, <1>8, <1>9, <1>10,
        <1>11, <1>12, <1>13, <1>14
    DEF Next, CallStep

(***************************************************************************)
(* Every component of the state keeps its type, for any number of calls.   *)
(***************************************************************************)
THEOREM SessionsTypeCorrect == Spec => []TypeOK
    BY InitTypes, StepTypes, PTL DEF Spec

-----------------------------------------------------------------------------
(* Refresh tokens                                                          *)

\* Before it rotates or stores, a call has no key.
NotYet == {"idle", "rotate", "incr", "members", "del", "issue", "store"}

(***************************************************************************)
(* A key is stored once, by its own call; the session set and its copies   *)
(* name stored keys; a call that presents a token presents a stored one    *)
(* and never reaches issueAuthCookies.                                     *)
(***************************************************************************)
KeyInv ==
    /\ \A c \in Calls : pc[c] \in NotYet => ~ Stored(c)
    /\ \A c \in index : Stored(c)
    /\ \A c \in Calls : \A t \in seen[c] : Stored(t)
    /\ \A c \in Calls : from[c] # NULL =>
        Stored(from[c]) /\ pc[c] \in {"rotate", "sign", "done", "failed"}
    /\ \A c \in Calls : pc[c] = "rotate" => from[c] # NULL

LEMMA InitKeys == Init => KeyInv
    BY DEF Init, KeyInv, Stored, NotYet

LEMMA StepKeys == TypeOK /\ KeyInv /\ [Next]_vars => KeyInv'
<1>0. SUFFICES ASSUME TypeOK, KeyInv, [Next]_vars PROVE KeyInv'
    OBVIOUS
<1>a. now + SessionTime # NULL /\ 0 # NULL
    BY <1>0, SessionsAssumption, NullIsNoTime DEF TypeOK
<1> USE DEF NotYet, Stored
<1>1. CASE \E c \in Calls : SignIn(c)
    BY <1>1, <1>0, <1>a, SessionsAssumption
    DEF SignIn, Begin, KeyInv, TypeOK, redis, access
<1>2. CASE \E c \in Calls : Logout(c)
    BY <1>2, <1>0, <1>a, SessionsAssumption
    DEF Logout, Begin, KeyInv, TypeOK, redis, access
<1>3. CASE \E c \in Calls : ChangePassword(c)
    BY <1>3, <1>0, <1>a, SessionsAssumption
    DEF ChangePassword, Begin, KeyInv, TypeOK, redis, access
<1>4. CASE \E c, t \in Calls : Refresh(c, t)
    BY <1>4, <1>0, <1>a, SessionsAssumption
    DEF Refresh, Begin, KeyInv, TypeOK, redis, access
<1>5. CASE \E c \in Calls : Rotate(c)
    BY <1>5, <1>0, <1>a, SessionsAssumption
    DEF Rotate, Goto, KeyInv, TypeOK, redis, access
<1>6. CASE \E c \in Calls : RotateRefused(c)
    BY <1>6, <1>0, <1>a, SessionsAssumption
    DEF RotateRefused, Goto, KeyInv, TypeOK, redis, access
<1>7. CASE \E c \in Calls : incrementAccessVersion(c)
    BY <1>7, <1>0, <1>a, SessionsAssumption
    DEF incrementAccessVersion, Goto, KeyInv, TypeOK, redis, access
<1>8. CASE \E c \in Calls : ReadSessions(c)
    BY <1>8, <1>0, <1>a, SessionsAssumption
    DEF ReadSessions, Goto, Revoked, KeyInv, TypeOK, redis, access
<1>9. CASE \E c \in Calls : DeleteSessions(c)
    BY <1>9, <1>0, <1>a, SessionsAssumption
    DEF DeleteSessions, Goto, Revoked, KeyInv, TypeOK, redis, access
<1>10. CASE \E c \in Calls : signAccess(c)
    BY <1>10, <1>0, <1>a, SessionsAssumption
    DEF signAccess, Goto, KeyInv, TypeOK, redis, access
<1>11. CASE \E c \in Calls : StoreSession(c)
    BY <1>11, <1>0, <1>a, SessionsAssumption
    DEF StoreSession, Goto, KeyInv, TypeOK, redis, access
<1>12. CASE \E c \in Calls : CallFails(c)
    BY <1>12, <1>0, <1>a, SessionsAssumption
    DEF CallFails, KeyInv, TypeOK, redis, access
<1>13. CASE Clock
    BY <1>13, <1>0, <1>a, SessionsAssumption
    DEF Clock, KeyInv, TypeOK, redis, access
<1>14. CASE UNCHANGED vars
    BY <1>14, <1>0, <1>a, SessionsAssumption
    DEF vars, KeyInv, TypeOK, redis, access
<1>15. QED
    BY <1>0, <1>1, <1>2, <1>3, <1>4, <1>5, <1>6, <1>7, <1>8, <1>9, <1>10,
        <1>11, <1>12, <1>13, <1>14
    DEF Next, CallStep

\* A step stores a key only for a call that had none, and only by rotating a
\* live one if the call presents one; no other key comes to life.
LEMMA KeysComeOnce ==
    ASSUME TypeOK, KeyInv, [Next]_vars, NEW k \in Calls
    PROVE  /\ Stored(k) => Stored(k)' /\ (~ Live(k) => ~ Live(k)')
           /\ ~ Stored(k) /\ Stored(k)' /\ from[k] # NULL =>
                /\ Live(from[k]) /\ ~ Live(from[k])'
                /\ \A d \in Calls \ {k} : Stored(d)' => Stored(d)
<1>a. /\ now + SessionTime # NULL /\ 0 # NULL
      /\ now \in Int /\ now >= 0
    BY SessionsAssumption, NullIsNoTime DEF TypeOK
<1>b. \A c \in Calls : until[c] # NULL => until[c] \in Int
    BY DEF TypeOK, Times
<1> USE DEF Stored, Live, NotYet
<1>1. CASE \E c \in Calls : SignIn(c)
    BY <1>1, <1>a, <1>b, SessionsAssumption
    DEF SignIn, Begin, KeyInv, TypeOK, redis, access
<1>2. CASE \E c \in Calls : Logout(c)
    BY <1>2, <1>a, <1>b, SessionsAssumption
    DEF Logout, Begin, KeyInv, TypeOK, redis, access
<1>3. CASE \E c \in Calls : ChangePassword(c)
    BY <1>3, <1>a, <1>b, SessionsAssumption
    DEF ChangePassword, Begin, KeyInv, TypeOK, redis, access
<1>4. CASE \E c, t \in Calls : Refresh(c, t)
    BY <1>4, <1>a, <1>b, SessionsAssumption
    DEF Refresh, Begin, KeyInv, TypeOK, redis, access
<1>5. CASE \E c \in Calls : Rotate(c)
    BY <1>5, <1>a, <1>b, SessionsAssumption
    DEF Rotate, Goto, KeyInv, TypeOK, redis, access
<1>6. CASE \E c \in Calls : RotateRefused(c)
    BY <1>6, <1>a, <1>b, SessionsAssumption
    DEF RotateRefused, Goto, KeyInv, TypeOK, redis, access
<1>7. CASE \E c \in Calls : incrementAccessVersion(c)
    BY <1>7, <1>a, <1>b, SessionsAssumption
    DEF incrementAccessVersion, Goto, KeyInv, TypeOK, redis, access
<1>8. CASE \E c \in Calls : ReadSessions(c)
    BY <1>8, <1>a, <1>b, SessionsAssumption
    DEF ReadSessions, Goto, Revoked, KeyInv, TypeOK, redis, access
<1>9. CASE \E c \in Calls : DeleteSessions(c)
    BY <1>9, <1>a, <1>b, SessionsAssumption
    DEF DeleteSessions, Goto, Revoked, KeyInv, TypeOK, redis, access
<1>10. CASE \E c \in Calls : signAccess(c)
    BY <1>10, <1>a, <1>b, SessionsAssumption
    DEF signAccess, Goto, KeyInv, TypeOK, redis, access
<1>11. CASE \E c \in Calls : StoreSession(c)
    BY <1>11, <1>a, <1>b, SessionsAssumption
    DEF StoreSession, Goto, KeyInv, TypeOK, redis, access
<1>12. CASE \E c \in Calls : CallFails(c)
    BY <1>12, <1>a, <1>b, SessionsAssumption
    DEF CallFails, KeyInv, TypeOK, redis, access
<1>13. CASE Clock
    BY <1>13, <1>a, <1>b, SessionsAssumption
    DEF Clock, KeyInv, TypeOK, redis, access
<1>14. CASE UNCHANGED vars
    BY <1>14, <1>a, <1>b, SessionsAssumption
    DEF vars, KeyInv, TypeOK, redis, access
<1>15. QED
    BY <1>1, <1>2, <1>3, <1>4, <1>5, <1>6, <1>7, <1>8, <1>9, <1>10, <1>11,
        <1>12, <1>13, <1>14
    DEF Next, CallStep

\* A call that has its key after this step has not changed its token.
LEMMA FromIsKept ==
    ASSUME TypeOK, KeyInv, [Next]_vars, NEW k \in Calls, Stored(k)'
    PROVE  from'[k] = from[k]
<1> USE DEF NotYet, Stored
<1>1. CASE \E c \in Calls : SignIn(c)
    BY <1>1, SessionsAssumption
    DEF SignIn, Begin, KeyInv, TypeOK, redis, access
<1>2. CASE \E c \in Calls : Logout(c)
    BY <1>2, SessionsAssumption
    DEF Logout, Begin, KeyInv, TypeOK, redis, access
<1>3. CASE \E c \in Calls : ChangePassword(c)
    BY <1>3, SessionsAssumption
    DEF ChangePassword, Begin, KeyInv, TypeOK, redis, access
<1>4. CASE \E c, t \in Calls : Refresh(c, t)
    BY <1>4, SessionsAssumption
    DEF Refresh, Begin, KeyInv, TypeOK, redis, access
<1>5. CASE \E c \in Calls : Rotate(c)
    BY <1>5, SessionsAssumption
    DEF Rotate, Goto, KeyInv, TypeOK, redis, access
<1>6. CASE \E c \in Calls : RotateRefused(c)
    BY <1>6, SessionsAssumption
    DEF RotateRefused, Goto, KeyInv, TypeOK, redis, access
<1>7. CASE \E c \in Calls : incrementAccessVersion(c)
    BY <1>7, SessionsAssumption
    DEF incrementAccessVersion, Goto, KeyInv, TypeOK, redis, access
<1>8. CASE \E c \in Calls : ReadSessions(c)
    BY <1>8, SessionsAssumption
    DEF ReadSessions, Goto, Revoked, KeyInv, TypeOK, redis, access
<1>9. CASE \E c \in Calls : DeleteSessions(c)
    BY <1>9, SessionsAssumption
    DEF DeleteSessions, Goto, Revoked, KeyInv, TypeOK, redis, access
<1>10. CASE \E c \in Calls : signAccess(c)
    BY <1>10, SessionsAssumption
    DEF signAccess, Goto, KeyInv, TypeOK, redis, access
<1>11. CASE \E c \in Calls : StoreSession(c)
    BY <1>11, SessionsAssumption
    DEF StoreSession, Goto, KeyInv, TypeOK, redis, access
<1>12. CASE \E c \in Calls : CallFails(c)
    BY <1>12, SessionsAssumption
    DEF CallFails, KeyInv, TypeOK, redis, access
<1>13. CASE Clock
    BY <1>13, SessionsAssumption
    DEF Clock, KeyInv, TypeOK, redis, access
<1>14. CASE UNCHANGED vars
    BY <1>14, SessionsAssumption
    DEF vars, KeyInv, TypeOK, redis, access
<1>15. QED
    BY <1>1, <1>2, <1>3, <1>4, <1>5, <1>6, <1>7, <1>8, <1>9, <1>10, <1>11,
        <1>12, <1>13, <1>14
    DEF Next, CallStep

LEMMA StepRotates ==
    TypeOK /\ KeyInv /\ RotatesOnce /\ [Next]_vars => RotatesOnce'
<1> SUFFICES ASSUME TypeOK, KeyInv, RotatesOnce, [Next]_vars,
                    NEW c \in Calls, NEW d \in Calls,
                    from'[c] # NULL, Stored(c)'
             PROVE  /\ ~ Live(from[c])'
                    /\ from'[d] = from'[c] /\ Stored(d)' => c = d
    BY DEF RotatesOnce
<1>1. TypeOK'
    BY StepTypes
<1>2. ASSUME NEW e \in Calls, Stored(e)'
      PROVE  from'[e] = from[e]
    BY <1>2, FromIsKept
<1>3. from[c] \in Calls /\ Stored(from[c])
    BY <1>2, SessionsAssumption DEF TypeOK, KeyInv
<1>4. ~ Live(from[c])'
    <2>1. CASE Stored(c)
        BY <2>1, <1>2, <1>3, KeysComeOnce DEF RotatesOnce
    <2>2. CASE ~ Stored(c)
        BY <2>2, <1>2, KeysComeOnce
    <2> QED
        BY <2>1, <2>2
<1>5. ASSUME from'[d] = from'[c], Stored(d)', c # d
      PROVE  FALSE
    <2>1. from[d] = from[c] /\ from[c] # NULL
        BY <1>2, <1>5
    <2>2. CASE Stored(c) /\ Stored(d)
        BY <2>1, <2>2, <1>5 DEF RotatesOnce
    <2>3. CASE ~ Stored(c)
        <3>1. Live(from[c]) /\ Stored(d)
            BY <2>1, <2>3, <1>5, KeysComeOnce
        <3> QED
            BY <2>1, <3>1 DEF RotatesOnce
    <2>4. CASE ~ Stored(d)
        <3>1. Live(from[d]) /\ Stored(c)
            BY <2>1, <2>4, <1>5, KeysComeOnce
        <3> QED
            BY <2>1, <3>1 DEF RotatesOnce
    <2> QED
        BY <2>2, <2>3, <2>4
<1> QED
    BY <1>4, <1>5

LEMMA InitRotates == Init => RotatesOnce
    BY DEF Init, RotatesOnce, Stored

(***************************************************************************)
(* Of any number of refresh calls that present a token, one gets a         *)
(* successor, and the token is spent.                                      *)
(***************************************************************************)
THEOREM TokensRotateOnce == Spec => []RotatesOnce
<1>1. Init => TypeOK /\ KeyInv /\ RotatesOnce
    BY InitTypes, InitKeys, InitRotates
<1>2. TypeOK /\ KeyInv /\ RotatesOnce /\ [Next]_vars
      => TypeOK' /\ KeyInv' /\ RotatesOnce'
    BY StepTypes, StepKeys, StepRotates
<1> QED
    BY <1>1, <1>2, PTL DEF Spec

(***************************************************************************)
(* A session that was rotated, revoked or expired never comes back.        *)
(***************************************************************************)
THEOREM SessionsStayEnded == Spec => EndedStaysEnded
<1> DEFINE Kept(t) == Stored(t) /\ ~ Live(t) =>
                /\ ~ Live(t)'
                /\ \A c \in Calls : from[c] = t /\ Stored(c)' => Stored(c)
<1>1. Init => TypeOK /\ KeyInv
    BY InitTypes, InitKeys
<1>2. TypeOK /\ KeyInv /\ [Next]_vars => TypeOK' /\ KeyInv'
    BY StepTypes, StepKeys
<1>3. TypeOK /\ KeyInv /\ [Next]_vars => [\A t \in Calls : Kept(t)]_vars
    <2> SUFFICES ASSUME TypeOK, KeyInv, [Next]_vars, NEW t \in Calls,
                        Stored(t), ~ Live(t)
                 PROVE  /\ ~ Live(t)'
                        /\ \A c \in Calls :
                            from[c] = t /\ Stored(c)' => Stored(c)
        OBVIOUS
    <2>1. ~ Live(t)'
        BY KeysComeOnce
    <2>2. ASSUME NEW c \in Calls, from[c] = t, Stored(c)', ~ Stored(c)
          PROVE  FALSE
        BY <2>2, KeysComeOnce, SessionsAssumption
    <2> QED
        BY <2>1, <2>2
<1> QED
    BY <1>1, <1>2, <1>3, PTL DEF Spec, EndedStaysEnded

-----------------------------------------------------------------------------
(* Access tokens                                                           *)

(***************************************************************************)
(* A call signs once.  A token no password change has followed has at most *)
(* the version of the key it was signed under, or version 0 if it was      *)
(* signed without one.  A token that is out of date has expired, or is     *)
(* behind a version key that outlives it, or is the exception.             *)
(***************************************************************************)
AccessInv ==
    /\ \A t \in Calls : signed[t] # NULL =>
        signed[t] <= now /\ pc[t] \in {"store", "done", "failed"}
    /\ \A t \in Signed \ outdated :
        /\ signed[t] < verUntil => sver[t] <= ver
        /\ signed[t] >= verUntil => sver[t] = 0
    /\ \A t \in outdated :
        /\ signed[t] # NULL
        /\ \/ now >= signed[t] + AccessTime
           \/ sver[t] < ver /\ signed[t] + AccessTime <= verUntil
           \/ t \in restarted /\ sver[t] > 0

LEMMA InitAccess == Init => AccessInv
    BY DEF Init, AccessInv, Signed

LEMMA StepAccess == TypeOK /\ AccessInv /\ [Next]_vars => AccessInv'
<1>0. SUFFICES ASSUME TypeOK, AccessInv, [Next]_vars PROVE AccessInv'
    OBVIOUS
<1>a. /\ now \in Int /\ ver \in Int /\ verUntil \in Int /\ AccessTime \in Int
      /\ SessionTime \in Int /\ AccessTime <= SessionTime /\ AccessTime > 0
      /\ \A t \in Calls : signed[t] # NULL => signed[t] \in Int
      /\ \A t \in Calls : sver[t] \in Int /\ sver[t] >= 0
      /\ outdated \subseteq Calls
    BY <1>0, SessionsAssumption DEF TypeOK, Times
<1>b. now # NULL
    BY <1>a, NullIsNoTime
<1>1. CASE \E c \in Calls : SignIn(c)
    BY <1>1, <1>0, <1>a
    DEF SignIn, Begin, AccessInv, Signed, TypeOK, redis, access
<1>2. CASE \E c \in Calls : Logout(c)
    BY <1>2, <1>0, <1>a
    DEF Logout, Begin, AccessInv, Signed, TypeOK, redis, access
<1>3. CASE \E c \in Calls : ChangePassword(c)
    BY <1>3, <1>0, <1>a
    DEF ChangePassword, Begin, AccessInv, Signed, TypeOK, redis, access
<1>4. CASE \E c, t \in Calls : Refresh(c, t)
    BY <1>4, <1>0, <1>a
    DEF Refresh, Begin, AccessInv, Signed, TypeOK, redis, access
<1>5. CASE \E c \in Calls : Rotate(c)
    BY <1>5, <1>0, <1>a
    DEF Rotate, Goto, AccessInv, Signed, TypeOK, redis, access
<1>6. CASE \E c \in Calls : RotateRefused(c)
    BY <1>6, <1>0, <1>a
    DEF RotateRefused, Goto, AccessInv, Signed, TypeOK, redis, access
<1>7. CASE \E c \in Calls : incrementAccessVersion(c)
    <2>1. PICK c \in Calls : incrementAccessVersion(c)
        BY <1>7
    <2>2. /\ pc[c] = "incr" /\ pc' = [pc EXCEPT ![c] = "members"]
          /\ ver' = getAccessVersion + 1 /\ verUntil' = now + SessionTime
          /\ outdated' = outdated \cup Signed
          /\ restarted \subseteq restarted'
          /\ ~ (now < verUntil) => Signed \subseteq restarted'
          /\ now' = now /\ sver' = sver /\ signed' = signed
        BY <2>1 DEF incrementAccessVersion, OutdateAll, Goto
    <2>3. \A t \in Calls : signed'[t] # NULL =>
            signed'[t] <= now' /\ pc'[t] \in {"store", "done", "failed"}
        BY <1>0, <2>2 DEF AccessInv, TypeOK
    <2>4. Signed' \ outdated' = {}
        BY <2>2 DEF Signed
    <2>5. ASSUME NEW t \in outdated'
          PROVE  /\ signed'[t] # NULL
                 /\ \/ now' >= signed'[t] + AccessTime
                    \/ /\ sver'[t] < ver'
                       /\ signed'[t] + AccessTime <= verUntil'
                    \/ t \in restarted' /\ sver'[t] > 0
        <3>1. CASE t \in outdated
            BY <1>0, <1>a, <2>2, <3>1 DEF AccessInv, getAccessVersion
        <3>2. CASE t \in Signed \ outdated /\ now < verUntil
            BY <1>0, <1>a, <2>2, <3>2 DEF AccessInv, getAccessVersion, Signed
        <3>3. CASE t \in Signed \ outdated /\ ~ (now < verUntil)
            BY <1>0, <1>a, <2>2, <3>3 DEF AccessInv, getAccessVersion, Signed
        <3> QED
            BY <1>a, <2>2, <2>5, <3>1, <3>2, <3>3
    <2> QED
        BY <2>3, <2>4, <2>5 DEF AccessInv
<1>8. CASE \E c \in Calls : ReadSessions(c)
    BY <1>8, <1>0, <1>a
    DEF ReadSessions, Goto, Revoked, AccessInv, Signed, TypeOK, redis, access
<1>9. CASE \E c \in Calls : DeleteSessions(c)
    BY <1>9, <1>0, <1>a
    DEF DeleteSessions, Goto, Revoked, AccessInv, Signed, TypeOK, redis, access
<1>10. CASE \E c \in Calls : signAccess(c)
    <2>1. PICK c \in Calls : signAccess(c)
        BY <1>10
    <2>2. /\ pc[c] \in {"issue", "sign"}
          /\ \/ pc' = [pc EXCEPT ![c] = "store"]
             \/ pc' = [pc EXCEPT ![c] = "done"]
          /\ sver' = [sver EXCEPT ![c] = getAccessVersion]
          /\ signed' = [signed EXCEPT ![c] = now]
          /\ outdated' = outdated /\ restarted' = restarted
          /\ now' = now /\ ver' = ver /\ verUntil' = verUntil
        BY <2>1 DEF signAccess, Goto, redis
    <2>3. signed[c] = NULL /\ c \notin outdated
        BY <1>0, <2>2 DEF AccessInv
    <2>4. /\ signed'[c] = now /\ sver'[c] = getAccessVersion
          /\ pc'[c] \in {"store", "done"}
          /\ \A t \in Calls \ {c} : /\ signed'[t] = signed[t]
                                    /\ sver'[t] = sver[t] /\ pc'[t] = pc[t]
        BY <1>0, <2>2 DEF TypeOK
    <2>5. \A t \in Calls : signed'[t] # NULL =>
            signed'[t] <= now' /\ pc'[t] \in {"store", "done", "failed"}
        BY <1>0, <1>a, <2>2, <2>4 DEF AccessInv
    <2>6. \A t \in Signed' \ outdated' :
            /\ signed'[t] < verUntil' => sver'[t] <= ver'
            /\ signed'[t] >= verUntil' => sver'[t] = 0
        BY <1>0, <1>a, <1>b, <2>2, <2>3, <2>4
        DEF AccessInv, getAccessVersion, Signed
    <2>7. \A t \in outdated' :
            /\ signed'[t] # NULL
            /\ \/ now' >= signed'[t] + AccessTime
               \/ sver'[t] < ver' /\ signed'[t] + AccessTime <= verUntil'
               \/ t \in restarted' /\ sver'[t] > 0
        BY <1>0, <1>a, <2>2, <2>3, <2>4 DEF AccessInv
    <2> QED
        BY <2>5, <2>6, <2>7 DEF AccessInv
<1>11. CASE \E c \in Calls : StoreSession(c)
    BY <1>11, <1>0, <1>a
    DEF StoreSession, Goto, AccessInv, Signed, TypeOK, redis, access
<1>12. CASE \E c \in Calls : CallFails(c)
    BY <1>12, <1>0, <1>a
    DEF CallFails, AccessInv, Signed, TypeOK, redis, access
<1>13. CASE Clock
    BY <1>13, <1>0, <1>a
    DEF Clock, AccessInv, Signed, TypeOK, redis, access
<1>14. CASE UNCHANGED vars
    BY <1>14, <1>0, <1>a
    DEF vars, AccessInv, Signed, TypeOK, redis, access
<1>15. QED
    BY <1>0, <1>1, <1>2, <1>3, <1>4, <1>5, <1>6, <1>7, <1>8, <1>9, <1>10,
        <1>11, <1>12, <1>13, <1>14
    DEF Next, CallStep

(***************************************************************************)
(* No access token whose version was read before a password change is      *)
(* accepted after it, whatever was under way, with one exception: a token  *)
(* signed under a version key that had expired when some later change      *)
(* incremented it, starting again from 0.                                  *)
(***************************************************************************)
THEOREM PasswordChangeRevokesAccess == Spec => []EarlierAccessRejected
<1>1. Init => TypeOK /\ AccessInv
    BY InitTypes, InitAccess
<1>2. TypeOK /\ AccessInv /\ [Next]_vars => TypeOK' /\ AccessInv'
    BY StepTypes, StepAccess
<1>3. TypeOK /\ AccessInv => EarlierAccessRejected
    <2> SUFFICES ASSUME TypeOK, AccessInv, NEW t \in outdated, Accepted(t),
                        ~ (t \in restarted /\ sver[t] > 0)
                 PROVE  FALSE
        BY DEF EarlierAccessRejected
    <2>1. /\ now \in Int /\ ver \in Int /\ verUntil \in Int
          /\ AccessTime \in Int /\ signed[t] \in Int /\ sver[t] \in Int
        BY SessionsAssumption DEF TypeOK, Times, Accepted
    <2>2. sver[t] < ver /\ now < verUntil
        BY <2>1 DEF AccessInv, Accepted
    <2> QED
        BY <2>1, <2>2 DEF Accepted, getAccessVersion
<1> QED
    BY <1>1, <1>2, <1>3, PTL DEF Spec

=============================================================================
