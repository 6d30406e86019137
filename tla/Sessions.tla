------------------------------ MODULE Sessions ------------------------------
(***************************************************************************)
(* TokenService and the handlers that call it, for one user (every Redis   *)
(* key carries the user's id, so users do not interact): sign-in, token    *)
(* refresh, logout and password change.                                    *)
(*                                                                         *)
(* A call issues at most one refresh token, whose jti is a fresh UUID, so  *)
(* the call stands for its token.  Each program counter value is the code  *)
(* between two awaits; a Lua script, a MULTI and a single command are one  *)
(* step of Redis.  Credentials only reject a call and are left out.        *)
(***************************************************************************)
EXTENDS Integers

CONSTANTS
    Calls,
    NULL,
    AccessTime,     \* lifetime of an access token
    SessionTime,    \* REFRESH_TTL_SECONDS: refresh keys and the version key
    MaxTime         \* bound: the clock stops here

ASSUME SessionsAssumption ==
    /\ NULL \notin Calls
    /\ AccessTime \in Nat \ {0}
    /\ SessionTime \in Nat /\ AccessTime <= SessionTime
    /\ MaxTime \in Nat

\* The key is gone, or was never there.
ASSUME NullIsNoTime == NULL \notin Int

VARIABLES
    now,
    ver, verUntil,  \* access_version and when the key expires
    until,          \* when each refresh key expires; NULL: not stored yet
    index,          \* the session set
    pc, op,         \* where each call is, and what it does
    from,           \* the refresh token a refresh call has presented
    sver, signed,   \* version in the access token, and when it was signed
    seen,           \* the session set as a revoking call has read it
    outdated,       \* history: access tokens signed before a password change
    restarted       \* history: those before a change that found no version key

redis == <<ver, verUntil, until, index>>
access == <<sver, signed, outdated, restarted>>
vars == <<now, redis, pc, op, from, access, seen>>

Op == {"none", "signIn", "refresh", "logout", "change"}

Step == {"idle", "rotate", "incr", "members", "del", "issue", "store",
         "sign", "done", "out", "failed"}

Times == 0 .. MaxTime + SessionTime

TypeOK ==
    /\ now \in 0 .. MaxTime
    /\ ver \in Nat /\ verUntil \in Times
    /\ until \in [Calls -> Times \cup {NULL}]
    /\ index \in SUBSET Calls
    /\ pc \in [Calls -> Step]
    /\ op \in [Calls -> Op]
    /\ from \in [Calls -> Calls \cup {NULL}]
    /\ sver \in [Calls -> Nat]
    /\ signed \in [Calls -> (0 .. MaxTime) \cup {NULL}]
    /\ seen \in [Calls -> SUBSET Calls]
    /\ outdated \in SUBSET Calls /\ restarted \in SUBSET Calls

Init ==
    /\ now = 0
    /\ ver = 0 /\ verUntil = 0
    /\ until = [c \in Calls |-> NULL]
    /\ index = {}
    /\ pc = [c \in Calls |-> "idle"]
    /\ op = [c \in Calls |-> "none"]
    /\ from = [c \in Calls |-> NULL]
    /\ sver = [c \in Calls |-> 0]
    /\ signed = [c \in Calls |-> NULL]
    /\ seen = [c \in Calls |-> {}]
    /\ outdated = {} /\ restarted = {}

-----------------------------------------------------------------------------
(* What Redis and the guards see                                           *)

Stored(t) == until[t] # NULL

Live(t) == Stored(t) /\ now < until[t]

\* Mutant: a missing key is not read as 0.
getAccessVersionRaw == IF now < verUntil THEN ver ELSE NULL

\* An expired key reads as 0, and INCR starts again from it.
getAccessVersion == IF now < verUntil THEN ver ELSE 0

\* JwtStrategy: the signature is valid, the token has not expired, and its
\* version is not behind.  The client has the token once the call is done.
Accepted(t) ==
    /\ pc[t] = "done"
    /\ signed[t] # NULL
    /\ now < signed[t] + AccessTime
    /\ ~ (sver[t] < getAccessVersion)

Signed == {t \in Calls : signed[t] # NULL}

\* A password change puts every token signed before it out of date.
OutdateAll ==
    /\ outdated' = outdated \cup Signed
    /\ restarted' = IF now < verUntil THEN restarted
                    ELSE restarted \cup Signed

-----------------------------------------------------------------------------
(* A call begins                                                           *)

Begin(c, o, p) ==
    /\ pc[c] = "idle"
    /\ pc' = [pc EXCEPT ![c] = p]
    /\ op' = [op EXCEPT ![c] = o]
    /\ UNCHANGED <<now, redis, access, seen>>

\* Login, verifyOtp and the Google callback all end in issueAuthCookies.
SignIn(c) == Begin(c, "signIn", "issue") /\ UNCHANGED from

\* The client presents a refresh token it has, as often as it likes.
Refresh(c, t) ==
    /\ pc[t] = "done" /\ Stored(t)
    /\ Begin(c, "refresh", "rotate")
    /\ from' = [from EXCEPT ![c] = t]

Logout(c) ==
    /\ \E t \in Calls : Accepted(t)
    /\ Begin(c, "logout", "members")
    /\ UNCHANGED from

ChangePassword(c) ==
    /\ \E t \in Calls : Accepted(t)
    /\ Begin(c, "change", "incr")
    /\ UNCHANGED from

-----------------------------------------------------------------------------
(* Its steps                                                               *)

Goto(c, p, q) == pc[c] = p /\ pc' = [pc EXCEPT ![c] = q]

\* Mutant: the old key is left in place.
RotateKeepsOld(c) ==
    /\ Goto(c, "rotate", "sign")
    /\ Live(from[c])
    /\ until' = [until EXCEPT ![c] = now + SessionTime]
    /\ index' = (index \ {from[c]}) \cup {c}
    /\ UNCHANGED <<now, ver, verUntil, op, from, access, seen>>

\* Mutant: the script asks the session set, which does not expire.
RotateByIndex(c) ==
    /\ Goto(c, "rotate", "sign")
    /\ from[c] \in index
    /\ until' = [until EXCEPT ![from[c]] = 0, ![c] = now + SessionTime]
    /\ index' = (index \ {from[c]}) \cup {c}
    /\ UNCHANGED <<now, ver, verUntil, op, from, access, seen>>

\* ROTATE_SCRIPT.
Rotate(c) ==
    /\ Goto(c, "rotate", "sign")
    /\ Live(from[c])
    /\ until' = [until EXCEPT ![from[c]] = 0, ![c] = now + SessionTime]
    /\ index' = (index \ {from[c]}) \cup {c}
    /\ UNCHANGED <<now, ver, verUntil, op, from, access, seen>>

RotateRefused(c) ==
    /\ Goto(c, "rotate", "failed")
    /\ ~ Live(from[c])
    /\ UNCHANGED <<now, redis, op, from, access, seen>>

\* Mutant: the version is kept no longer than it takes to write it.
IncrementBriefly(c) ==
    /\ Goto(c, "incr", "members")
    /\ ver' = getAccessVersion + 1
    /\ verUntil' = now + 1
    /\ OutdateAll
    /\ UNCHANGED <<now, until, index, op, from, sver, signed, seen>>

incrementAccessVersion(c) ==
    /\ Goto(c, "incr", "members")
    /\ ver' = getAccessVersion + 1
    /\ verUntil' = now + SessionTime
    /\ OutdateAll
    /\ UNCHANGED <<now, until, index, op, from, sver, signed, seen>>

\* What follows revokeAllSessions in logout and in changePassword.
Revoked(c) == IF op[c] = "change" THEN "issue" ELSE "out"

ReadSessions(c) ==
    /\ Goto(c, "members", IF index = {} THEN Revoked(c) ELSE "del")
    /\ seen' = [seen EXCEPT ![c] = index]
    /\ UNCHANGED <<now, redis, op, from, access>>

\* One DEL for the keys that were read and for the set, as it is now.
DeleteSessions(c) ==
    /\ Goto(c, "del", Revoked(c))
    /\ until' = [t \in Calls |-> IF t \in seen[c] THEN 0 ELSE until[t]]
    /\ index' = {}
    /\ seen' = [seen EXCEPT ![c] = {}]
    /\ UNCHANGED <<now, ver, verUntil, op, from, access>>

\* issueAuthCookies signs before it stores; rotateAuthCookies signs last.
signAccess(c) ==
    /\ Goto(c, "issue", "store") \/ Goto(c, "sign", "done")
    /\ sver' = [sver EXCEPT ![c] = getAccessVersion]
    /\ signed' = [signed EXCEPT ![c] = now]
    /\ UNCHANGED <<now, redis, op, from, outdated, restarted, seen>>

StoreSession(c) ==
    /\ Goto(c, "store", "done")
    /\ until' = [until EXCEPT ![c] = now + SessionTime]
    /\ index' = index \cup {c}
    /\ UNCHANGED <<now, ver, verUntil, op, from, access, seen>>

\* Redis or PostgreSQL fails, the user is gone, or the process stops.
CallFails(c) ==
    /\ pc[c] \notin {"idle", "done", "out", "failed"}
    /\ pc' = [pc EXCEPT ![c] = "failed"]
    /\ UNCHANGED <<now, redis, op, from, access, seen>>

Clock ==
    /\ now < MaxTime
    /\ now' = now + 1
    /\ UNCHANGED <<redis, pc, op, from, access, seen>>

CallStep(c) ==
    \/ SignIn(c) \/ Logout(c) \/ ChangePassword(c)
    \/ \E t \in Calls : Refresh(c, t)
    \/ Rotate(c) \/ RotateRefused(c)
    \/ incrementAccessVersion(c) \/ ReadSessions(c) \/ DeleteSessions(c)
    \/ signAccess(c) \/ StoreSession(c) \/ CallFails(c)

Next == Clock \/ \E c \in Calls : CallStep(c)

Spec == Init /\ [][Next]_vars

-----------------------------------------------------------------------------
(* Properties                                                              *)

(***************************************************************************)
(* ROTATE_SCRIPT: a refresh token is used once.  Of any number of refresh  *)
(* calls that present it at the same time, one gets a successor, and from  *)
(* then on the token itself is not live.                                   *)
(***************************************************************************)
RotatesOnce ==
    \A c, d \in Calls :
        from[c] # NULL /\ Stored(c) =>
            /\ ~ Live(from[c])
            /\ from[d] = from[c] /\ Stored(d) => c = d

(***************************************************************************)
(* A session that ended, by rotation, revocation or age, stays ended: no   *)
(* call that is still under way brings its key back or rotates it.         *)
(***************************************************************************)
EndedStaysEnded ==
    [][\A t \in Calls : Stored(t) /\ ~ Live(t) =>
            /\ ~ Live(t)'
            /\ \A c \in Calls : from[c] = t /\ Stored(c)' => Stored(c)]_vars

(***************************************************************************)
(* changePassword increments the access version: an access token whose     *)
(* version was read before some password change is not accepted after it,  *)
(* also when the call that signs it is still under way, and although the   *)
(* version key expires.  One kind of token escapes: signed under a version *)
(* key, which then expired before the change, so that INCR started again   *)
(* from 0 and the token is not behind.                                     *)
(***************************************************************************)
EarlierAccessRejected ==
    \A t \in outdated : Accepted(t) => t \in restarted /\ sver[t] > 0

=============================================================================
