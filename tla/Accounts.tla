------------------------------ MODULE Accounts ------------------------------
(***************************************************************************)
(* AuthService, OtpService and UsersService: registration, one-time codes  *)
(* by e-mail, change of e-mail and password, sign-in and linking with      *)
(* Google.                                                                 *)
(*                                                                         *)
(* The rows of the user table and the Redis keys otp, otp_attempts,        *)
(* otp_cooldown (per address) and pending_email (per user).  A call is at  *)
(* one await at a time; a pipeline is one step, and any call may die.  The *)
(* code that was issued n-th is n (codes are random: no two are taken to   *)
(* be equal), and 0 stands for a wrong guess and for no code.  A hash is   *)
(* the function that made it, and the password given is the right one.     *)
(***************************************************************************)
EXTENDS Integers, Sequences

CONSTANTS
    Users, Emails, Googles, Calls, NULL,
    GoogleMail,     \* the address in each Google profile
    Seeded,         \* users with a row, a bcrypt hash and a session at the start
    SeedMail,       \* and their addresses
    TTL,            \* otpTtlSeconds
    Cooldown,       \* otpResendCooldownSeconds
    MaxAttempts,    \* otpMaxAttempts
    MaxCodes,       \* bound: codes issued
    MaxTime         \* bound: the clock stops here

ASSUME AccountsAssumption ==
    /\ NULL \notin Users \cup Emails \cup Googles
    /\ GoogleMail \in [Googles -> Emails]
    /\ Seeded \subseteq Users
    /\ SeedMail \in [Seeded -> Emails]
    /\ \A u, v \in Seeded : SeedMail[u] = SeedMail[v] => u = v
    /\ TTL \in Nat \ {0} /\ Cooldown \in Nat \ {0}
    /\ MaxAttempts \in Nat \ {0}
    /\ MaxCodes \in Nat /\ MaxTime \in Nat

VARIABLES
    now,
    email, verified, hash, google,  \* the user rows; email NULL: no row
    otp, otpUntil,                  \* per address: the code; 0: no key
    tries, triesUntil,              \* otp_attempts; 0: no key
    coolUntil,                      \* otp_cooldown; 0: no key
    pending, pendingUntil,          \* per user: pending_email; NULL: no key
    issued, mailed,                 \* the address of each code; codes sent
    call,                           \* per call: step, handler and locals
    proven,     \* history: <<user, address>> whose owner read a code there
    guesses,    \* history: comparisons with the code each address has now
    resets      \* history: how often its counter was deleted meanwhile

rows == <<email, verified, hash, google>>
codeKeys == <<otp, otpUntil, tries, triesUntil, coolUntil>>
redis == <<codeKeys, pending, pendingUntil>>
mail == <<issued, mailed>>
history == <<proven, guesses, resets>>
vars == <<now, rows, redis, mail, call, history>>

Times == 0 .. MaxTime + TTL + Cooldown

Steps == {"idle", "create", "cooldown", "store", "mail", "get", "count",
          "discard", "consume", "clear", "apply", "pend", "forget",
          "byEmail", "createGoogle", "link", "rehash"}

\* The user, address and profile of a call, the code it was given (or has
\* issued) and the one it has read; confirm: confirmEmailChange, not verifyOtp.
Call == [at : Steps, confirm : BOOLEAN, user : Users \cup {NULL},
         addr : Emails \cup {NULL}, prof : Googles \cup {NULL},
         given : 0 .. MaxCodes, stored : 0 .. MaxCodes]

Idle == [at |-> "idle", confirm |-> FALSE, user |-> NULL, addr |-> NULL,
         prof |-> NULL, given |-> 0, stored |-> 0]

TypeOK ==
    /\ now \in 0 .. MaxTime
    /\ email \in [Users -> Emails \cup {NULL}]
    /\ verified \in [Users -> BOOLEAN]
    /\ hash \in [Users -> {"argon2", "bcrypt", "none"}]
    /\ google \in [Users -> Googles \cup {NULL}]
    /\ otp \in [Emails -> 0 .. Len(issued)] /\ otpUntil \in [Emails -> Times]
    /\ tries \in [Emails -> Nat] /\ triesUntil \in [Emails -> Times]
    /\ coolUntil \in [Emails -> Times]
    /\ pending \in [Users -> Emails \cup {NULL}]
    /\ pendingUntil \in [Users -> Times]
    /\ issued \in Seq(Emails) /\ Len(issued) <= MaxCodes
    /\ mailed \subseteq 1 .. Len(issued)
    /\ call \in [Calls -> Call]
    /\ proven \subseteq Users \X Emails
    /\ guesses \in [Emails -> Nat] /\ resets \in [Emails -> Nat]

Init ==
    /\ now = 0
    /\ email = [u \in Users |-> IF u \in Seeded THEN SeedMail[u] ELSE NULL]
    /\ verified = [u \in Users |-> u \in Seeded]
    /\ hash = [u \in Users |-> IF u \in Seeded THEN "bcrypt" ELSE "none"]
    /\ google = [u \in Users |-> NULL]
    /\ otp = [e \in Emails |-> 0] /\ otpUntil = [e \in Emails |-> 0]
    /\ tries = [e \in Emails |-> 0] /\ triesUntil = [e \in Emails |-> 0]
    /\ coolUntil = [e \in Emails |-> 0]
    /\ pending = [u \in Users |-> NULL] /\ pendingUntil = [u \in Users |-> 0]
    /\ issued = <<>> /\ mailed = {}
    /\ call = [c \in Calls |-> Idle]
    /\ proven = {<<u, SeedMail[u]>> : u \in Seeded}
    /\ guesses = [e \in Emails |-> 0] /\ resets = [e \in Emails |-> 0]

-----------------------------------------------------------------------------
(* What a read returns                                                     *)

\* findByEmail finds a row.
Taken(e) == \E u \in Users : email[u] = e

\* findByGoogleId finds a row.
Owned(g) == \E u \in Users : google[u] = g

\* JwtAuthGuard: cookies are issued to verified users only.
SignedIn(u) == email[u] # NULL /\ verified[u]

\* bcrypt.compare, in the settings; argon2.verify, at login.
SettingsAccept(u) == email[u] # NULL /\ hash[u] = "bcrypt"
validateUser(u) == email[u] # NULL /\ hash[u] = "argon2" /\ verified[u]

-----------------------------------------------------------------------------
(* A call begins, with what it has read before its first write             *)

Begin(c, rec) ==
    /\ call[c].at = "idle"
    /\ call' = [call EXCEPT ![c] = rec]
    /\ UNCHANGED <<now, rows, redis, mail, guesses, resets>>

Locals(step, u, e) == [Idle EXCEPT !.at = step, !.user = u, !.addr = e]

\* The codes a caller may present: one mailed to the address, or a wrong one.
\* Whoever presents the former has read the mail it came in.
Known(e) == {n \in mailed : issued[n] = e} \cup {0}

Present(u, n) ==
    proven' = IF n = 0 THEN proven ELSE proven \cup {<<u, issued[n]>>}

register(c, e) ==
    ~ Taken(e) /\ Begin(c, Locals("create", NULL, e)) /\ UNCHANGED proven

resendOtp(c, u) ==
    /\ email[u] # NULL /\ ~ verified[u]
    /\ Begin(c, Locals("cooldown", u, email[u])) /\ UNCHANGED proven

verifyOtp(c, u, n) ==
    /\ email[u] # NULL /\ ~ verified[u] /\ n \in Known(email[u])
    /\ Begin(c, [Locals("get", u, email[u]) EXCEPT !.given = n])
    /\ Present(u, n)

requestEmailChange(c, u, e) ==
    /\ SignedIn(u) /\ SettingsAccept(u) /\ ~ Taken(e)
    /\ Begin(c, Locals("pend", u, e)) /\ UNCHANGED proven

confirmEmailChange(c, u, n) ==
    /\ SignedIn(u) /\ pending[u] # NULL /\ n \in Known(pending[u])
    /\ Begin(c, [Locals("get", u, pending[u]) EXCEPT !.given = n,
                                                     !.confirm = TRUE])
    /\ Present(u, n)

changePassword(c, u) ==
    /\ SignedIn(u) /\ SettingsAccept(u)
    /\ Begin(c, Locals("rehash", u, NULL)) /\ UNCHANGED proven

resolveGoogleUser(c, g) ==
    /\ ~ Owned(g)
    /\ Begin(c, [Locals("byEmail", NULL, GoogleMail[g]) EXCEPT !.prof = g])
    /\ UNCHANGED proven

linkGoogle(c, u, g) ==
    /\ SignedIn(u) /\ ~ Owned(g)
    /\ Begin(c, [Locals("link", u, NULL) EXCEPT !.prof = g])
    /\ UNCHANGED proven

-----------------------------------------------------------------------------
(* Its writes to the user table; a unique key that is taken is P2002       *)

Goto(c, p, q) == call[c].at = p /\ call' = [call EXCEPT ![c].at = q]

Finish(c, p) == call[c].at = p /\ call' = [call EXCEPT ![c] = Idle]

\* Mutant: the table has no unique index on the address.
CreateUnindexed(c) ==
    /\ Goto(c, "create", "cooldown")
    /\ \E u \in Users :
        /\ email[u] = NULL
        /\ email' = [email EXCEPT ![u] = call[c].addr]
        /\ hash' = [hash EXCEPT ![u] = "argon2"]
    /\ UNCHANGED <<now, verified, google, redis, mail, history>>

\* What follows uses the address only.
createUser(c) ==
    /\ Goto(c, "create", "cooldown") /\ ~ Taken(call[c].addr)
    /\ \E u \in Users :
        /\ email[u] = NULL
        /\ email' = [email EXCEPT ![u] = call[c].addr]
        /\ hash' = [hash EXCEPT ![u] = "argon2"]
    /\ UNCHANGED <<now, verified, google, redis, mail, history>>

updateEmail(c) ==
    /\ call[c].confirm /\ Goto(c, "apply", "forget") /\ ~ Taken(call[c].addr)
    /\ email' = [email EXCEPT ![call[c].user] = call[c].addr]
    /\ UNCHANGED <<now, verified, hash, google, redis, mail, history>>

\* verifyOtp updates the row it looked up at first.
markEmailVerified(c) ==
    /\ ~ call[c].confirm /\ Finish(c, "apply")
    /\ verified' = [verified EXCEPT ![call[c].user] = TRUE]
    /\ UNCHANGED <<now, email, hash, google, redis, mail, history>>

updatePassword(c) ==
    /\ Finish(c, "rehash")
    /\ hash' = [hash EXCEPT ![call[c].user] = "bcrypt"]
    /\ UNCHANGED <<now, email, verified, google, redis, mail, history>>

\* The second lookup of the Google sign-in.
FindProfileEmail(c) ==
    /\ Goto(c, "byEmail", "createGoogle") /\ ~ Taken(call[c].addr)
    /\ UNCHANGED <<now, rows, redis, mail, history>>

\* Google has verified the address.
createGoogleUser(c) ==
    /\ Finish(c, "createGoogle")
    /\ ~ Taken(call[c].addr) /\ ~ Owned(call[c].prof)
    /\ \E u \in Users :
        /\ email[u] = NULL
        /\ email' = [email EXCEPT ![u] = call[c].addr]
        /\ verified' = [verified EXCEPT ![u] = TRUE]
        /\ google' = [google EXCEPT ![u] = call[c].prof]
        /\ proven' = proven \cup {<<u, call[c].addr>>}
    /\ UNCHANGED <<now, hash, redis, mail, guesses, resets>>

setGoogleId(c) ==
    /\ Finish(c, "link") /\ ~ Owned(call[c].prof)
    /\ google' = [google EXCEPT ![call[c].user] = call[c].prof]
    /\ UNCHANGED <<now, email, verified, hash, redis, mail, history>>

-----------------------------------------------------------------------------
(* OtpService.issue, and the pending address before and after it           *)

\* Mutant: milliseconds where Redis expects seconds.
PendingMillis == 1000 * TTL

PendingTTL == TTL

SetPending(c) ==
    /\ Goto(c, "pend", "cooldown")
    /\ pending' = [pending EXCEPT ![call[c].user] = call[c].addr]
    /\ pendingUntil' = [pendingUntil EXCEPT ![call[c].user] = now + PendingTTL]
    /\ UNCHANGED <<now, rows, codeKeys, mail, history>>

\* It deletes whatever is pending by now.
ForgetPending(c) ==
    /\ Finish(c, "forget")
    /\ pending' = [pending EXCEPT ![call[c].user] = NULL]
    /\ pendingUntil' = [pendingUntil EXCEPT ![call[c].user] = 0]
    /\ UNCHANGED <<now, rows, codeKeys, mail, history>>

\* Another issue for the address may pass the same check before the store.
CheckCooldown(c) ==
    /\ Goto(c, "cooldown", "store") /\ coolUntil[call[c].addr] = 0
    /\ UNCHANGED <<now, rows, redis, mail, history>>

\* Another code, or none, is current.
Recount(e) ==
    /\ guesses' = [guesses EXCEPT ![e] = 0]
    /\ resets' = [resets EXCEPT ![e] = 0]

StoreCode(c) ==
    LET e == call[c].addr
        n == Len(issued) + 1
    IN  /\ call[c].at = "store" /\ n <= MaxCodes
        /\ call' = [call EXCEPT ![c] = [@ EXCEPT !.at = "mail", !.given = n]]
        /\ issued' = Append(issued, e)
        /\ otp' = [otp EXCEPT ![e] = n]
        /\ otpUntil' = [otpUntil EXCEPT ![e] = now + TTL]
        /\ tries' = [tries EXCEPT ![e] = 0]
        /\ triesUntil' = [triesUntil EXCEPT ![e] = 0]
        /\ coolUntil' = [coolUntil EXCEPT ![e] = now + Cooldown]
        /\ Recount(e)
        /\ UNCHANGED <<now, rows, pending, pendingUntil, mailed, proven>>

sendOtpEmail(c) ==
    /\ Finish(c, "mail")
    /\ mailed' = mailed \cup {call[c].given}
    /\ UNCHANGED <<now, rows, redis, issued, history>>

-----------------------------------------------------------------------------
(* OtpService.verify                                                       *)

ReadCode(c) ==
    /\ call[c].at = "get" /\ otp[call[c].addr] # 0
    /\ call' = [call EXCEPT ![c] = [@ EXCEPT !.at = "count",
                                            !.stored = otp[call[c].addr]]]
    /\ UNCHANGED <<now, rows, redis, mail, history>>

\* What INCR returns; past the limit all numbers are alike.
Attempt(e) == IF tries[e] <= MaxAttempts THEN tries[e] + 1 ELSE tries[e]

\* Mutant: the handlers do not look at what verify returns.
Unjudged(c, k) ==
    \/ k > MaxAttempts /\ Goto(c, "count", "discard")
    \/ k <= MaxAttempts /\ Goto(c, "count", "consume")

\* The outcome of the k-th attempt.
Judge(c, k) ==
    \/ k > MaxAttempts /\ Goto(c, "count", "discard")
    \/ k <= MaxAttempts /\ call[c].stored # call[c].given /\ Finish(c, "count")
    \/ k <= MaxAttempts /\ call[c].stored = call[c].given
       /\ Goto(c, "count", "consume")

\* The attempt is a guess at the code that is current.
Guesses(c, k) ==
    IF k <= MaxAttempts /\ otp[call[c].addr] = call[c].stored
    THEN [guesses EXCEPT ![call[c].addr] = @ + 1] ELSE guesses

\* Mutant: the counter is not kept as long as the code.
BriefTTL == 1

AttemptsTTL == TTL

\* INCR and EXPIRE in one batch, then the limit, then the comparison.
CountAttempt(c) ==
    LET e == call[c].addr
        k == Attempt(e)
    IN  /\ call[c].at = "count" /\ Judge(c, k) /\ guesses' = Guesses(c, k)
        /\ tries' = [tries EXCEPT ![e] = k]
        /\ triesUntil' = [triesUntil EXCEPT ![e] = now + AttemptsTTL]
        /\ UNCHANGED <<now, rows, otp, otpUntil, coolUntil, pending,
                       pendingUntil, mail, proven, resets>>

\* DEL otp:e, after too many attempts or after the right code; either may
\* delete a code that was issued since this call has read its own.
DeleteCode(c) ==
    /\ Finish(c, "discard") \/ Goto(c, "consume", "clear")
    /\ otp' = [otp EXCEPT ![call[c].addr] = 0]
    /\ otpUntil' = [otpUntil EXCEPT ![call[c].addr] = 0]
    /\ Recount(call[c].addr)
    /\ UNCHANGED <<now, rows, tries, triesUntil, coolUntil, pending,
                   pendingUntil, mail, proven>>

\* DEL otp_attempts:e, by now perhaps the counter of a later code.
ClearAttempts(c) ==
    LET e == call[c].addr
    IN  /\ Goto(c, "clear", "apply")
        /\ tries' = [tries EXCEPT ![e] = 0]
        /\ triesUntil' = [triesUntil EXCEPT ![e] = 0]
        /\ resets' = IF otp[e] = 0 THEN resets
                     ELSE [resets EXCEPT ![e] = @ + 1]
        /\ UNCHANGED <<now, rows, otp, otpUntil, coolUntil, pending,
                       pendingUntil, mail, proven, guesses>>

-----------------------------------------------------------------------------

\* A refusal, a unique key that is taken, Redis, PostgreSQL or the mail server
\* failing, or the process stopping: the call ends where it is.
CallEnds(c) ==
    /\ call[c].at # "idle" /\ Finish(c, call[c].at)
    /\ UNCHANGED <<now, rows, redis, mail, history>>

\* What is left of a key at time t, and of its time to live.
Kept(val, until, t, none) ==
    [x \in DOMAIN val |-> IF until[x] > t THEN val[x] ELSE none]

\* Keys lapse as time passes.
Clock ==
    /\ now < MaxTime /\ now' = now + 1
    /\ otp' = Kept(otp, otpUntil, now', 0)
    /\ otpUntil' = Kept(otpUntil, otpUntil, now', 0)
    /\ tries' = Kept(tries, triesUntil, now', 0)
    /\ triesUntil' = Kept(triesUntil, triesUntil, now', 0)
    /\ coolUntil' = Kept(coolUntil, coolUntil, now', 0)
    /\ pending' = Kept(pending, pendingUntil, now', NULL)
    /\ pendingUntil' = Kept(pendingUntil, pendingUntil, now', 0)
    /\ guesses' = Kept(guesses, otpUntil, now', 0)
    /\ resets' = Kept(resets, otpUntil, now', 0)
    /\ UNCHANGED <<rows, mail, call, proven>>

Begins(c) ==
    \/ \E e \in Emails : register(c, e)
    \/ \E u \in Users :
        \/ resendOtp(c, u) \/ changePassword(c, u)
        \/ \E n \in mailed \cup {0} :
            verifyOtp(c, u, n) \/ confirmEmailChange(c, u, n)
        \/ \E e \in Emails : requestEmailChange(c, u, e)
        \/ \E g \in Googles : linkGoogle(c, u, g)
    \/ \E g \in Googles : resolveGoogleUser(c, g)

Continues(c) ==
    \/ createUser(c) \/ updateEmail(c) \/ markEmailVerified(c)
    \/ updatePassword(c) \/ FindProfileEmail(c) \/ createGoogleUser(c)
    \/ setGoogleId(c) \/ SetPending(c) \/ ForgetPending(c)
    \/ CheckCooldown(c) \/ StoreCode(c) \/ sendOtpEmail(c) \/ ReadCode(c)
    \/ CountAttempt(c) \/ DeleteCode(c) \/ ClearAttempts(c) \/ CallEnds(c)

Next == Clock \/ \E c \in Calls : Begins(c) \/ Continues(c)

Spec == Init /\ [][Next]_vars

-----------------------------------------------------------------------------
(* Properties                                                              *)

(***************************************************************************)
(* verifyOtp, confirmEmailChange and the Google sign-in: the address of a  *)
(* verified account is one whose mail its owner has read, or one Google    *)
(* vouches for, although the address, the pending request and the code are *)
(* read at different moments and other calls replace each of them.         *)
(***************************************************************************)
AddressProven == \A u \in Users : SignedIn(u) => <<u, email[u]>> \in proven

(***************************************************************************)
(* OtpService.verify: while a code is in Redis it is compared with at most *)
(* otpMaxAttempts guesses, however many calls try at once, and the counter *)
(* never lapses before the code.  The exception the code allows for: a     *)
(* call that succeeded with an earlier code deletes the counter late, and  *)
(* counting starts again.                                                  *)
(***************************************************************************)
GuessesBounded ==
    \A e \in Emails : guesses[e] <= MaxAttempts * (1 + resets[e])

(***************************************************************************)
(* register, confirmEmailChange, createGoogleUser and linkGoogle all look  *)
(* first and write later: no two accounts end up with the same address or  *)
(* the same Google profile.                                                *)
(***************************************************************************)
OneAccountEach ==
    \A u, v \in Users : u # v /\ email[u] # NULL =>
        /\ email[u] # email[v]
        /\ google[u] # NULL => google[u] # google[v]

-----------------------------------------------------------------------------
(* A claim of the design notes that the code does not keep                 *)

(***************************************************************************)
(* The settings use "the bcrypt hashing convention AuthService.register /  *)
(* validateUser already use": a password that login accepts is accepted    *)
(* when the user changes the address or the password.                      *)
(***************************************************************************)
OneHash == \A u \in Users : validateUser(u) => SettingsAccept(u)

=============================================================================
