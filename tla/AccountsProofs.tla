--------------------------- MODULE AccountsProofs ---------------------------
(* Proofs about Accounts, for any number of users, addresses and calls.    *)
EXTENDS Accounts, TLAPS

-----------------------------------------------------------------------------
(* Types                                                                   *)

\* Steps of OtpService.verify and of what follows a right code.
Checking == {"get", "count", "discard", "consume", "clear", "apply"}

(***************************************************************************)
(* Whatever is at a step has the locals the step needs.                    *)
(***************************************************************************)
LocalsInv ==
    \A c \in Calls :
        /\ call[c].at \notin {"idle", "rehash", "link"} =>
            call[c].addr \in Emails
        /\ call[c].at \in Checking \cup {"pend", "forget", "rehash", "link"} =>
            call[c].user \in Users
        /\ call[c].at = "mail" => call[c].given \in 1 .. Len(issued)

LEMMA TimesLemma ==
    ASSUME TypeOK
    PROVE  /\ now + TTL \in Times /\ now + Cooldown \in Times
           /\ now + PendingTTL \in Times /\ now + AttemptsTTL \in Times
           /\ 0 \in Times
    BY AccountsAssumption DEF TypeOK, Times, PendingTTL, AttemptsTTL

LEMMA AppendLemma ==
    ASSUME TypeOK, NEW e \in Emails
    PROVE  /\ Append(issued, e) \in Seq(Emails)
           /\ Len(issued) \in Nat /\ Len(Append(issued, e)) = Len(issued) + 1
           /\ Append(issued, e)[Len(issued) + 1] = e
           /\ \A n \in 1 .. Len(issued) : Append(issued, e)[n] = issued[n]
    BY DEF TypeOK

LEMMA MailedLemma ==
    ASSUME TypeOK, NEW n \in mailed \cup {0}
    PROVE  /\ n \in 0 .. Len(issued) /\ n \in 0 .. MaxCodes
           /\ n # 0 => issued[n] \in Emails
<1>1. issued \in Seq(Emails) /\ Len(issued) \in Nat /\ Len(issued) <= MaxCodes
    BY DEF TypeOK
<1>2. n = 0 \/ n \in 1 .. Len(issued)
    BY DEF TypeOK
<1>3. QED
    BY <1>1, <1>2, AccountsAssumption

LEMMA IdleTyped == Idle \in Call
    BY AccountsAssumption DEF Idle, Call, Steps

LEMMA InitTypes == Init => TypeOK /\ LocalsInv
<1>1. SUFFICES ASSUME Init PROVE TypeOK /\ LocalsInv
    OBVIOUS
<1>2. LocalsInv
    BY <1>1 DEF Init, LocalsInv, Idle, Checking
<1>3. issued \in Seq(Emails) /\ Len(issued) = 0
    BY <1>1 DEF Init
<1>4. TypeOK
    BY <1>1, <1>3, IdleTyped, AccountsAssumption DEF Init, TypeOK, Times
<1>5. QED
    BY <1>2, <1>4

-----------------------------------------------------------------------------
(* How a step moves its call                                               *)

\* The locals a call begins with.
LEMMA LocalsLemma ==
    ASSUME NEW step \in Steps, NEW u \in Users \cup {NULL},
           NEW e \in Emails \cup {NULL}
    PROVE  LET r == Locals(step, u, e)
           IN  /\ r \in Call /\ r.at = step /\ r.user = u /\ r.addr = e
               /\ r.given = 0 /\ ~ r.confirm
    BY IdleTyped DEF Locals, Idle, Call

\* A call begins with locals r, and nothing but the history changes.
BegunWith(c, r) ==
    /\ call[c].at = "idle" /\ call' = [call EXCEPT ![c] = r] /\ r \in Call
    /\ UNCHANGED <<now, rows, redis, mail, guesses, resets>>
    /\ proven \subseteq proven' /\ proven' \subseteq Users \X Emails
    /\ r.at \in {"create", "cooldown", "pend", "rehash", "byEmail", "link",
                 "get"}
    /\ r.at \notin {"rehash", "link"} => r.addr \in Emails
    /\ r.at \in {"get", "pend", "rehash", "link"} => r.user \in Users
    /\ r.at = "get" =>
        /\ r.given \in 0 .. Len(issued)
        /\ r.given # 0 => <<r.user, issued[r.given]>> \in proven'
        /\ IF r.confirm THEN verified[r.user] ELSE email[r.user] = r.addr

LEMMA PlainBegin ==
    ASSUME TypeOK, NEW c \in Calls, NEW r \in Call,
           r.at \in {"create", "cooldown", "pend", "rehash", "byEmail", "link"},
           r.at \notin {"rehash", "link"} => r.addr \in Emails,
           r.at \in {"pend", "rehash", "link"} => r.user \in Users,
           Begin(c, r), proven' = proven
    PROVE  BegunWith(c, r)
    BY DEF TypeOK, Begin, BegunWith

LEMMA CodeBegin ==
    ASSUME TypeOK, NEW c \in Calls, NEW r \in Call, r.at = "get",
           r.user \in Users, r.addr \in Emails, r.given \in mailed \cup {0},
           IF r.confirm THEN verified[r.user] ELSE email[r.user] = r.addr,
           Begin(c, r), Present(r.user, r.given)
    PROVE  BegunWith(c, r)
<1> DEFINE u == r.user
           n == r.given
<1>1. n \in 0 .. Len(issued) /\ (n # 0 => issued[n] \in Emails)
    BY MailedLemma
<1>2. u \in Users /\ Present(u, n) /\ proven \subseteq Users \X Emails
    BY DEF TypeOK
<1> HIDE DEF u, n
<1>3. proven \subseteq proven' /\ proven' \subseteq Users \X Emails
      /\ (n # 0 => <<u, issued[n]>> \in proven')
  <2>1. CASE n = 0
    BY <2>1, <1>2 DEF Present
  <2>2. CASE n # 0
    <3>1. proven' = proven \cup {<<u, issued[n]>>}
        BY <2>2, <1>2 DEF Present
    <3>2. QED
        BY <3>1, <2>2, <1>1, <1>2
  <2>3. QED
    BY <2>1, <2>2
<1>4. QED
    BY <1>1, <1>3 DEF Begin, BegunWith, u, n

LEMMA BeginsLemma ==
    ASSUME TypeOK, NEW c \in Calls, Begins(c)
    PROVE  \E r \in Call : BegunWith(c, r)
<1> USE DEF Steps
<1>1. ASSUME NEW e \in Emails, register(c, e)
      PROVE  \E r \in Call : BegunWith(c, r)
  <2> DEFINE r == Locals("create", NULL, e)
  <2>1. Begin(c, r) /\ proven' = proven
    BY <1>1 DEF register
  <2>2. r \in Call /\ r.at = "create" /\ r.addr \in Emails
    BY LocalsLemma
  <2> HIDE DEF r
  <2>3. QED
    BY <2>1, <2>2, PlainBegin
<1>2. ASSUME NEW u \in Users, resendOtp(c, u)
      PROVE  \E r \in Call : BegunWith(c, r)
  <2> DEFINE r == Locals("cooldown", u, email[u])
  <2>1. Begin(c, r) /\ proven' = proven /\ email[u] \in Emails
    BY <1>2 DEF resendOtp, TypeOK
  <2>2. r \in Call /\ r.at = "cooldown" /\ r.addr \in Emails
    BY <2>1, LocalsLemma
  <2> HIDE DEF r
  <2>3. QED
    BY <2>1, <2>2, PlainBegin
<1>3. ASSUME NEW u \in Users, changePassword(c, u)
      PROVE  \E r \in Call : BegunWith(c, r)
  <2> DEFINE r == Locals("rehash", u, NULL)
  <2>1. Begin(c, r) /\ proven' = proven
    BY <1>3 DEF changePassword
  <2>2. r \in Call /\ r.at = "rehash" /\ r.user \in Users
    BY LocalsLemma
  <2> HIDE DEF r
  <2>3. QED
    BY <2>1, <2>2, PlainBegin
<1>4. ASSUME NEW u \in Users, NEW n \in mailed \cup {0}, verifyOtp(c, u, n)
      PROVE  \E r \in Call : BegunWith(c, r)
  <2> DEFINE l == Locals("get", u, email[u])
             r == [l EXCEPT !.given = n]
  <2>1. Begin(c, r) /\ Present(u, n) /\ email[u] \in Emails
        /\ n \in 0 .. MaxCodes
    BY <1>4, MailedLemma DEF verifyOtp, TypeOK
  <2>2. l \in Call /\ l.at = "get" /\ l.addr = email[u] /\ l.user = u
        /\ ~ l.confirm
    BY <2>1, LocalsLemma
  <2> HIDE DEF l
  <2>3. r \in Call /\ r.at = "get" /\ r.addr = email[u] /\ r.user = u
        /\ ~ r.confirm /\ r.given = n
    BY <2>1, <2>2 DEF Call
  <2> HIDE DEF r
  <2>4. QED
    BY <2>1, <2>3, CodeBegin
<1>5. ASSUME NEW u \in Users, NEW n \in mailed \cup {0},
             confirmEmailChange(c, u, n)
      PROVE  \E r \in Call : BegunWith(c, r)
  <2> DEFINE l == Locals("get", u, pending[u])
             r == [l EXCEPT !.given = n, !.confirm = TRUE]
  <2>1. Begin(c, r) /\ Present(u, n) /\ pending[u] \in Emails
        /\ n \in 0 .. MaxCodes /\ verified[u]
    BY <1>5, MailedLemma DEF confirmEmailChange, SignedIn, TypeOK
  <2>2. l \in Call /\ l.at = "get" /\ l.addr = pending[u] /\ l.user = u
    BY <2>1, LocalsLemma
  <2> HIDE DEF l
  <2>3. r \in Call /\ r.at = "get" /\ r.addr = pending[u] /\ r.user = u
        /\ r.confirm /\ r.given = n
    BY <2>1, <2>2 DEF Call
  <2> HIDE DEF r
  <2>4. QED
    BY <2>1, <2>3, CodeBegin
<1>6. ASSUME NEW u \in Users, NEW e \in Emails, requestEmailChange(c, u, e)
      PROVE  \E r \in Call : BegunWith(c, r)
  <2> DEFINE r == Locals("pend", u, e)
  <2>1. Begin(c, r) /\ proven' = proven
    BY <1>6 DEF requestEmailChange
  <2>2. r \in Call /\ r.at = "pend" /\ r.addr \in Emails /\ r.user \in Users
    BY LocalsLemma
  <2> HIDE DEF r
  <2>3. QED
    BY <2>1, <2>2, PlainBegin
<1>7. ASSUME NEW u \in Users, NEW g \in Googles, linkGoogle(c, u, g)
      PROVE  \E r \in Call : BegunWith(c, r)
  <2> DEFINE l == Locals("link", u, NULL)
             r == [l EXCEPT !.prof = g]
  <2>1. Begin(c, r) /\ proven' = proven
    BY <1>7 DEF linkGoogle
  <2>2. l \in Call /\ l.at = "link" /\ l.user = u
    BY LocalsLemma
  <2> HIDE DEF l
  <2>3. r \in Call /\ r.at = "link" /\ r.user \in Users
    BY <2>2 DEF Call
  <2> HIDE DEF r
  <2>4. QED
    BY <2>1, <2>3, PlainBegin
<1>8. ASSUME NEW g \in Googles, resolveGoogleUser(c, g)
      PROVE  \E r \in Call : BegunWith(c, r)
  <2> DEFINE l == Locals("byEmail", NULL, GoogleMail[g])
             r == [l EXCEPT !.prof = g]
  <2>1. Begin(c, r) /\ proven' = proven /\ GoogleMail[g] \in Emails
    BY <1>8, AccountsAssumption DEF resolveGoogleUser
  <2>2. l \in Call /\ l.at = "byEmail" /\ l.addr = GoogleMail[g]
    BY <2>1, LocalsLemma
  <2> HIDE DEF l
  <2>3. r \in Call /\ r.at = "byEmail" /\ r.addr \in Emails
    BY <2>1, <2>2 DEF Call
  <2> HIDE DEF r
  <2>4. QED
    BY <2>1, <2>3, PlainBegin
<1>9. QED
    BY <1>1, <1>2, <1>3, <1>4, <1>5, <1>6, <1>7, <1>8 DEF Begins

\* A call moves on and keeps its locals, or is over; other calls stay.
Moved(c, q) ==
    /\ call' \in [Calls -> Call]
    /\ \A x \in Calls \ {c} : call'[x] = call[x]
    /\ call'[c].at = q
    /\ call'[c].user = call[c].user /\ call'[c].addr = call[c].addr
    /\ call'[c].prof = call[c].prof /\ call'[c].confirm = call[c].confirm
    /\ call'[c].given = call[c].given /\ call'[c].stored = call[c].stored

Ended(c) ==
    /\ call' \in [Calls -> Call]
    /\ \A x \in Calls \ {c} : call'[x] = call[x]
    /\ call'[c].at = "idle"

LEMMA GotoLemma ==
    ASSUME TypeOK, NEW c \in Calls, NEW p, NEW q \in Steps, Goto(c, p, q)
    PROVE  call[c].at = p /\ Moved(c, q)
    BY DEF TypeOK, Goto, Moved, Call

LEMMA FinishLemma ==
    ASSUME TypeOK, NEW c \in Calls, NEW p, Finish(c, p)
    PROVE  call[c].at = p /\ Ended(c)
    BY IdleTyped DEF TypeOK, Finish, Ended, Idle

\* The outcome of an attempt: the code is discarded, or the call is over, or
\* the right code is consumed.
LEMMA JudgeLemma ==
    ASSUME TypeOK, NEW c \in Calls, NEW k, Judge(c, k)
    PROVE  /\ call[c].at = "count"
           /\ \/ Moved(c, "discard") \/ Ended(c)
              \/ Moved(c, "consume") /\ call[c].stored = call[c].given
    BY GotoLemma, FinishLemma DEF Judge, Steps

LEMMA KeptLemma ==
    ASSUME NEW S, NEW T, NEW val \in [S -> T], NEW until, NEW t, NEW none \in T
    PROVE  Kept(val, until, t, none) \in [S -> T]
    BY DEF Kept

LEMMA AddrLemma ==
    ASSUME LocalsInv, NEW c \in Calls,
           call[c].at \notin {"idle", "rehash", "link"}
    PROVE  call[c].addr \in Emails
    BY DEF LocalsInv

\* The new code is kept in the locals until it is mailed.
LEMMA StoreLemma ==
    ASSUME TypeOK, LocalsInv, NEW c \in Calls, StoreCode(c)
    PROVE  /\ call[c].at = "store" /\ call[c].addr \in Emails
           /\ Len(issued) \in Nat /\ Len(issued) + 1 <= MaxCodes
           /\ call' \in [Calls -> Call]
           /\ \A x \in Calls \ {c} : call'[x] = call[x]
           /\ call'[c].at = "mail" /\ call'[c].addr = call[c].addr
           /\ call'[c].given = Len(issued) + 1
<1> DEFINE n == Len(issued) + 1
           r == [call[c] EXCEPT !.at = "mail", !.given = n]
<1>1. call[c].at = "store" /\ n <= MaxCodes /\ call' = [call EXCEPT ![c] = r]
    BY DEF StoreCode
<1>2. call[c].addr \in Emails
    BY <1>1, AddrLemma
<1>3. Len(issued) \in Nat /\ call \in [Calls -> Call]
    BY DEF TypeOK
<1>4. n \in 0 .. MaxCodes
    BY <1>1, <1>3, AccountsAssumption
<1> HIDE DEF n
<1>5. r \in Call /\ r.at = "mail" /\ r.addr = call[c].addr /\ r.given = n
    BY <1>3, <1>4 DEF Call, Steps
<1> HIDE DEF r
<1>6. QED
    BY <1>1, <1>2, <1>3, <1>4, <1>5 DEF n

\* The code that was read is one that was issued.
LEMMA ReadLemma ==
    ASSUME TypeOK, LocalsInv, NEW c \in Calls, ReadCode(c)
    PROVE  /\ call[c].at = "get" /\ call[c].addr \in Emails
           /\ call' \in [Calls -> Call]
           /\ \A x \in Calls \ {c} : call'[x] = call[x]
           /\ call'[c].at = "count" /\ call'[c].addr = call[c].addr
           /\ call'[c].user = call[c].user /\ call'[c].given = call[c].given
           /\ call'[c].confirm = call[c].confirm
           /\ call'[c].stored = otp[call[c].addr]
           /\ otp[call[c].addr] \in 1 .. Len(issued)
<1> DEFINE n == otp[call[c].addr]
           r == [call[c] EXCEPT !.at = "count", !.stored = n]
<1>1. call[c].at = "get" /\ n # 0 /\ call' = [call EXCEPT ![c] = r]
    BY DEF ReadCode
<1>2. call[c].addr \in Emails
    BY <1>1, AddrLemma
<1>3. Len(issued) \in Nat /\ Len(issued) <= MaxCodes
      /\ call \in [Calls -> Call]
    BY DEF TypeOK
<1>4. n \in 0 .. Len(issued)
    BY <1>2 DEF TypeOK
<1>5. n \in 1 .. Len(issued) /\ n \in 0 .. MaxCodes
    BY <1>1, <1>3, <1>4, AccountsAssumption
<1> HIDE DEF n
<1>6. r \in Call /\ r.at = "count" /\ r.addr = call[c].addr /\ r.stored = n
      /\ r.user = call[c].user /\ r.given = call[c].given
      /\ r.confirm = call[c].confirm
    BY <1>3, <1>5 DEF Call, Steps
<1> HIDE DEF r
<1>7. QED
    BY <1>1, <1>2, <1>3, <1>5, <1>6 DEF n

LEMMA StepTypes ==
    TypeOK /\ LocalsInv /\ [Next]_vars => TypeOK' /\ LocalsInv'
<1>0. SUFFICES ASSUME TypeOK, LocalsInv, [Next]_vars
               PROVE  TypeOK' /\ LocalsInv'
    OBVIOUS
<1>a. Len(issued) \in Nat
    BY <1>0 DEF TypeOK
<1>b. /\ now + TTL \in Times /\ now + Cooldown \in Times
      /\ now + PendingTTL \in Times /\ now + AttemptsTTL \in Times
      /\ 0 \in Times
    BY <1>0, TimesLemma
<1> USE DEF Checking
<1>1. ASSUME NEW c \in Calls, Begins(c) PROVE TypeOK' /\ LocalsInv'
  <2>1. PICK r \in Call : BegunWith(c, r)
    BY <1>1, <1>0, BeginsLemma
  <2>2. QED
    BY <2>1, <1>0 DEF BegunWith, TypeOK, LocalsInv, rows, redis, codeKeys, mail
<1> USE DEF Moved, Ended, TypeOK, LocalsInv, Steps, rows, redis, codeKeys, mail,
            history
<1>2. ASSUME NEW c \in Calls, createUser(c) PROVE TypeOK' /\ LocalsInv'
  <2>1. Moved(c, "cooldown") /\ call[c].at = "create"
    BY <1>2, <1>0, GotoLemma DEF createUser
  <2>2. QED
    BY <2>1, <1>2, <1>0 DEF createUser
<1>3. ASSUME NEW c \in Calls, updateEmail(c) PROVE TypeOK' /\ LocalsInv'
  <2>1. Moved(c, "forget") /\ call[c].at = "apply"
    BY <1>3, <1>0, GotoLemma DEF updateEmail
  <2>2. QED
    BY <2>1, <1>3, <1>0 DEF updateEmail
<1>4. ASSUME NEW c \in Calls, markEmailVerified(c) PROVE TypeOK' /\ LocalsInv'
  <2>1. Ended(c)
    BY <1>4, <1>0, FinishLemma DEF markEmailVerified
  <2>2. QED
    BY <2>1, <1>4, <1>0 DEF markEmailVerified
<1>5. ASSUME NEW c \in Calls, updatePassword(c) PROVE TypeOK' /\ LocalsInv'
  <2>1. Ended(c)
    BY <1>5, <1>0, FinishLemma DEF updatePassword
  <2>2. QED
    BY <2>1, <1>5, <1>0 DEF updatePassword
<1>6. ASSUME NEW c \in Calls, FindProfileEmail(c) PROVE TypeOK' /\ LocalsInv'
  <2>1. Moved(c, "createGoogle") /\ call[c].at = "byEmail"
    BY <1>6, <1>0, GotoLemma DEF FindProfileEmail
  <2>2. QED
    BY <2>1, <1>6, <1>0 DEF FindProfileEmail
<1>7. ASSUME NEW c \in Calls, createGoogleUser(c) PROVE TypeOK' /\ LocalsInv'
  <2>1. Ended(c) /\ call[c].at = "createGoogle"
    BY <1>7, <1>0, FinishLemma DEF createGoogleUser
  <2>2. call[c].addr \in Emails /\ call[c].prof \in Googles \cup {NULL}
    BY <2>1, <1>0, AddrLemma DEF Call
  <2>3. /\ email' \in [Users -> Emails \cup {NULL}]
        /\ verified' \in [Users -> BOOLEAN]
        /\ google' \in [Users -> Googles \cup {NULL}]
        /\ proven' \subseteq Users \X Emails
    BY <2>2, <1>7, <1>0 DEF createGoogleUser
  <2>4. LocalsInv'
    BY <2>1, <1>7, <1>0 DEF createGoogleUser
  <2>5. QED
    BY <2>1, <2>3, <2>4, <1>7, <1>0 DEF createGoogleUser
<1>8. ASSUME NEW c \in Calls, setGoogleId(c) PROVE TypeOK' /\ LocalsInv'
  <2>1. Ended(c)
    BY <1>8, <1>0, FinishLemma DEF setGoogleId
  <2>2. QED
    BY <2>1, <1>8, <1>0 DEF setGoogleId, Call
<1>9. ASSUME NEW c \in Calls, SetPending(c) PROVE TypeOK' /\ LocalsInv'
  <2>1. Moved(c, "cooldown") /\ call[c].at = "pend"
    BY <1>9, <1>0, GotoLemma DEF SetPending
  <2>2. QED
    BY <2>1, <1>9, <1>0, <1>b DEF SetPending
<1>10. ASSUME NEW c \in Calls, ForgetPending(c) PROVE TypeOK' /\ LocalsInv'
  <2>1. Ended(c)
    BY <1>10, <1>0, FinishLemma DEF ForgetPending
  <2>2. QED
    BY <2>1, <1>10, <1>0, <1>b DEF ForgetPending
<1>11. ASSUME NEW c \in Calls, CheckCooldown(c) PROVE TypeOK' /\ LocalsInv'
  <2>1. Moved(c, "store") /\ call[c].at = "cooldown"
    BY <1>11, <1>0, GotoLemma DEF CheckCooldown
  <2>2. QED
    BY <2>1, <1>11, <1>0 DEF CheckCooldown
<1>12. ASSUME NEW c \in Calls, StoreCode(c) PROVE TypeOK' /\ LocalsInv'
  <2>1. /\ call[c].addr \in Emails /\ Len(issued) + 1 <= MaxCodes
        /\ call' \in [Calls -> Call] /\ call'[c].at = "mail"
        /\ call'[c].given = Len(issued) + 1 /\ call'[c].addr = call[c].addr
        /\ \A x \in Calls \ {c} : call'[x] = call[x]
    BY <1>12, <1>0, StoreLemma
  <2>2. issued' = Append(issued, call[c].addr) /\ issued' \in Seq(Emails)
        /\ Len(issued') = Len(issued) + 1
    BY <2>1, <1>12, <1>0, AppendLemma DEF StoreCode
  <2>3. LocalsInv'
    <3>1. \A x \in Calls \ {c} : call[x].at = "mail" =>
            call[x].given \in 1 .. Len(issued')
        BY <2>2, <1>0, <1>a
    <3>2. call'[c].given \in 1 .. Len(issued')
        BY <2>1, <2>2, <1>a
    <3>3. QED
        BY <2>1, <3>1, <3>2, <1>0
  <2>4. mailed' \subseteq 1 .. Len(issued')
        /\ otp' \in [Emails -> 0 .. Len(issued')]
    BY <2>2, <1>12, <1>0, <1>a DEF StoreCode
  <2>5. /\ otpUntil' \in [Emails -> Times] /\ tries' \in [Emails -> Nat]
        /\ triesUntil' \in [Emails -> Times] /\ coolUntil' \in [Emails -> Times]
        /\ guesses' \in [Emails -> Nat] /\ resets' \in [Emails -> Nat]
    BY <1>12, <1>0, <1>b DEF StoreCode, Recount
  <2>6. QED
    BY <2>1, <2>2, <2>3, <2>4, <2>5, <1>12, <1>0 DEF StoreCode
<1>13. ASSUME NEW c \in Calls, sendOtpEmail(c) PROVE TypeOK' /\ LocalsInv'
  <2>1. Ended(c) /\ call[c].at = "mail"
    BY <1>13, <1>0, FinishLemma DEF sendOtpEmail
  <2>2. QED
    BY <2>1, <1>13, <1>0 DEF sendOtpEmail
<1>14. ASSUME NEW c \in Calls, ReadCode(c) PROVE TypeOK' /\ LocalsInv'
  <2>1. /\ call[c].at = "get" /\ call' \in [Calls -> Call]
        /\ call'[c].at = "count" /\ call'[c].addr = call[c].addr
        /\ call'[c].user = call[c].user
        /\ \A x \in Calls \ {c} : call'[x] = call[x]
    BY <1>14, <1>0, ReadLemma
  <2>2. QED
    BY <2>1, <1>14, <1>0 DEF ReadCode
<1>15. ASSUME NEW c \in Calls, CountAttempt(c) PROVE TypeOK' /\ LocalsInv'
  <2> DEFINE e == call[c].addr
  <2>1. call[c].at = "count"
        /\ (Moved(c, "discard") \/ Ended(c) \/ Moved(c, "consume"))
    BY <1>15, <1>0, JudgeLemma DEF CountAttempt
  <2>2. e \in Emails
    BY <2>1, <1>0, AddrLemma
  <2>3. Attempt(e) \in Nat
    BY <2>2, <1>0 DEF Attempt
  <2>4. guesses' \in [Emails -> Nat]
    BY <2>2, <1>15, <1>0 DEF CountAttempt, Guesses
  <2>5. LocalsInv'
    BY <2>1, <1>15, <1>0 DEF CountAttempt
  <2>6. QED
    BY <2>1, <2>2, <2>3, <2>4, <2>5, <1>15, <1>0, <1>b DEF CountAttempt
<1>16. ASSUME NEW c \in Calls, DeleteCode(c) PROVE TypeOK' /\ LocalsInv'
  <2>1. \/ Ended(c) /\ call[c].at = "discard"
        \/ Moved(c, "clear") /\ call[c].at = "consume"
    BY <1>16, <1>0, FinishLemma, GotoLemma DEF DeleteCode
  <2>2. LocalsInv'
    BY <2>1, <1>16, <1>0 DEF DeleteCode
  <2>3. /\ otp' \in [Emails -> 0 .. Len(issued)]
        /\ otpUntil' \in [Emails -> Times]
        /\ guesses' \in [Emails -> Nat] /\ resets' \in [Emails -> Nat]
    <3>1. 0 \in 0 .. Len(issued)
        BY <1>a
    <3>2. otp \in [Emails -> 0 .. Len(issued)]
          /\ otp' = [otp EXCEPT ![call[c].addr] = 0]
        BY <1>16, <1>0 DEF DeleteCode
    <3>3. otp' \in [Emails -> 0 .. Len(issued)]
        BY <3>1, <3>2
    <3>4. QED
        BY <3>3, <1>16, <1>0, <1>b DEF DeleteCode, Recount
  <2>4. call' \in [Calls -> Call]
    BY <2>1
  <2>5. QED
    BY <2>2, <2>3, <2>4, <1>16, <1>0 DEF DeleteCode
<1>17. ASSUME NEW c \in Calls, ClearAttempts(c) PROVE TypeOK' /\ LocalsInv'
  <2>1. Moved(c, "apply") /\ call[c].at = "clear"
    BY <1>17, <1>0, GotoLemma DEF ClearAttempts
  <2>2. call[c].addr \in Emails
    BY <2>1, <1>0, AddrLemma
  <2>3. LocalsInv'
    BY <2>1, <1>17, <1>0 DEF ClearAttempts
  <2>4. tries' \in [Emails -> Nat] /\ triesUntil' \in [Emails -> Times]
        /\ resets' \in [Emails -> Nat]
    BY <2>2, <1>17, <1>0, <1>b DEF ClearAttempts
  <2>5. QED
    BY <2>1, <2>3, <2>4, <1>17, <1>0 DEF ClearAttempts
<1>18. ASSUME NEW c \in Calls, CallEnds(c) PROVE TypeOK' /\ LocalsInv'
  <2>1. Ended(c)
    BY <1>18, <1>0, FinishLemma DEF CallEnds
  <2>2. QED
    BY <2>1, <1>18, <1>0 DEF CallEnds
<1>19. CASE Clock
  <2>1. 0 \in 0 .. Len(issued) /\ 0 \in Times
    BY <1>a, AccountsAssumption DEF Times
  <2>2. /\ otp' \in [Emails -> 0 .. Len(issued)] /\ otpUntil' \in [Emails -> Times]
        /\ tries' \in [Emails -> Nat] /\ triesUntil' \in [Emails -> Times]
        /\ coolUntil' \in [Emails -> Times]
        /\ pending' \in [Users -> Emails \cup {NULL}]
        /\ pendingUntil' \in [Users -> Times]
        /\ guesses' \in [Emails -> Nat] /\ resets' \in [Emails -> Nat]
    BY <2>1, <1>19, <1>0, KeptLemma DEF Clock
  <2>3. now' \in 0 .. MaxTime
    BY <1>19, <1>0, AccountsAssumption DEF Clock
  <2>4. QED
    BY <2>2, <2>3, <1>19, <1>0 DEF Clock
<1>20. CASE UNCHANGED vars
    BY <1>20, <1>0 DEF vars
<1>21. QED
    BY <1>0, <1>1, <1>2, <1>3, <1>4, <1>5, <1>6, <1>7, <1>8, <1>9, <1>10,
        <1>11, <1>12, <1>13, <1>14, <1>15, <1>16, <1>17, <1>18, <1>19, <1>20
    DEF Next, Continues

(***************************************************************************)
(* Every component of the state keeps its type, and a call has the locals  *)
(* its step uses: what sendOtpEmail sends is a code that was issued.       *)
(***************************************************************************)
THEOREM AccountsTypeCorrect == Spec => [](TypeOK /\ LocalsInv)
    BY InitTypes, StepTypes, PTL DEF Spec

-----------------------------------------------------------------------------
(* Accounts are unique                                                     *)

\* Steps that change no row.
LEMMA RowSteps ==
    ASSUME TypeOK, [Next]_vars
    PROVE  \/ UNCHANGED rows
           \/ \E c \in Calls :
                \/ createUser(c) \/ updateEmail(c) \/ markEmailVerified(c)
                \/ updatePassword(c) \/ createGoogleUser(c) \/ setGoogleId(c)
<1>1. ASSUME NEW c \in Calls, Begins(c) PROVE UNCHANGED rows
    BY <1>1, BeginsLemma DEF BegunWith
<1>2. ASSUME NEW c \in Calls, FindProfileEmail(c) \/ SetPending(c)
             \/ ForgetPending(c) \/ CheckCooldown(c) \/ StoreCode(c)
             \/ sendOtpEmail(c) \/ ReadCode(c) \/ CountAttempt(c)
             \/ DeleteCode(c) \/ ClearAttempts(c) \/ CallEnds(c)
      PROVE  UNCHANGED rows
    BY <1>2 DEF FindProfileEmail, SetPending, ForgetPending, CheckCooldown,
        StoreCode, sendOtpEmail, ReadCode, CountAttempt, DeleteCode,
        ClearAttempts, CallEnds
<1>3. CASE Clock \/ UNCHANGED vars
    BY <1>3 DEF Clock, vars
<1>4. QED
    BY <1>1, <1>2, <1>3 DEF Next, Continues

\* A profile is unique even without a row.
Unique ==
    /\ \A u, v \in Users : u # v /\ email[u] # NULL => email[u] # email[v]
    /\ \A u, v \in Users : u # v /\ google[u] # NULL => google[u] # google[v]

LEMMA StepUnique == TypeOK /\ Unique /\ [Next]_vars => Unique'
<1>0. SUFFICES ASSUME TypeOK, Unique, [Next]_vars PROVE Unique'
    OBVIOUS
<1>1. ASSUME NEW c \in Calls, createUser(c) PROVE Unique'
    BY <1>1, <1>0 DEF createUser, Taken, Unique, TypeOK
<1>2. ASSUME NEW c \in Calls, updateEmail(c) PROVE Unique'
    BY <1>2, <1>0 DEF updateEmail, Taken, Unique, TypeOK
<1>3. ASSUME NEW c \in Calls, markEmailVerified(c) \/ updatePassword(c)
      PROVE  Unique'
    BY <1>3, <1>0 DEF markEmailVerified, updatePassword, Unique
<1>4. ASSUME NEW c \in Calls, createGoogleUser(c) PROVE Unique'
    BY <1>4, <1>0 DEF createGoogleUser, Taken, Owned, Unique, TypeOK
<1>5. ASSUME NEW c \in Calls, setGoogleId(c) PROVE Unique'
    BY <1>5, <1>0 DEF setGoogleId, Owned, Unique, TypeOK
<1>6. CASE UNCHANGED rows
    BY <1>6, <1>0 DEF rows, Unique
<1>7. QED
    BY <1>0, <1>1, <1>2, <1>3, <1>4, <1>5, <1>6, RowSteps

(***************************************************************************)
(* No two accounts share an address or a Google profile, although every    *)
(* handler looks first and writes later: the unique keys of the table      *)
(* settle what the lookups cannot.                                         *)
(***************************************************************************)
THEOREM AccountsAreUnique == Spec => []OneAccountEach
<1>1. Init => Unique
    BY AccountsAssumption DEF Init, Unique
<1>2. Spec => []Unique
    BY <1>1, StepUnique, AccountsTypeCorrect, PTL DEF Spec
<1>3. Unique => OneAccountEach
    BY DEF Unique, OneAccountEach
<1>4. QED
    BY <1>2, <1>3, PTL

-----------------------------------------------------------------------------
(* Addresses are proven                                                    *)

\* What holds of the locals of a call that was given a code.
CallFact(r) ==
    /\ r.at \in Checking /\ r.given # 0 =>
        r.given \in 1 .. Len(issued) /\ <<r.user, issued[r.given]>> \in proven
    /\ r.at \in Checking \ {"get"} =>
        r.stored \in 1 .. Len(issued) /\ issued[r.stored] = r.addr
    /\ r.at \in {"consume", "clear", "apply"} => r.given = r.stored
    /\ r.at \in Checking =>
        IF r.confirm THEN verified[r.user]
        ELSE email[r.user] = r.addr \/ verified[r.user]

(***************************************************************************)
(* A stored code was issued for the address it is stored under, so the one *)
(* a call has read was issued for the address the call is about.  Whoever  *)
(* changes an address is verified, so an unverified row still has the      *)
(* address that verifyOtp has looked up.                                   *)
(***************************************************************************)
ProofInv ==
    /\ \A u \in Users : verified[u] => email[u] # NULL
    /\ \A e \in Emails : otp[e] # 0 => issued[otp[e]] = e
    /\ \A c \in Calls : CallFact(call[c])
    /\ AddressProven

LEMMA InitProof == Init => ProofInv
<1>1. SUFFICES ASSUME Init PROVE ProofInv
    OBVIOUS
<1>2. \A u \in Users : verified[u] => email[u] # NULL
    BY <1>1, AccountsAssumption DEF Init
<1>3. \A c \in Calls : CallFact(call[c])
    BY <1>1 DEF Init, CallFact, Checking, Idle
<1>4. AddressProven
    BY <1>1, AccountsAssumption DEF Init, AddressProven, SignedIn
<1>5. QED
    BY <1>1, <1>2, <1>3, <1>4 DEF Init, ProofInv

\* Codes, proofs and verified rows only accumulate.
Grows ==
    /\ Len(issued) <= Len(issued')
    /\ \A n \in 1 .. Len(issued) : issued'[n] = issued[n]
    /\ proven \subseteq proven'
    /\ \A u \in Users : verified[u] => verified'[u]
    /\ \A u \in Users : email[u] # NULL /\ ~ verified[u] => email'[u] = email[u]

LEMMA MailSteps ==
    ASSUME TypeOK, LocalsInv, [Next]_vars
    PROVE  /\ Len(issued) <= Len(issued')
           /\ \A n \in 1 .. Len(issued) : issued'[n] = issued[n]
           /\ proven \subseteq proven'
<1> DEFINE Goal ==
        /\ Len(issued) <= Len(issued')
        /\ \A n \in 1 .. Len(issued) : issued'[n] = issued[n]
        /\ proven \subseteq proven'
<1>a. Len(issued) \in Nat
    BY DEF TypeOK
<1>1. ASSUME NEW c \in Calls, Begins(c) PROVE Goal
  <2>1. PICK r \in Call : BegunWith(c, r)
    BY <1>1, BeginsLemma
  <2>2. QED
    BY <2>1, <1>a DEF BegunWith, mail
<1>2. ASSUME NEW c \in Calls, StoreCode(c) PROVE Goal
  <2>1. call[c].addr \in Emails /\ issued' = Append(issued, call[c].addr)
        /\ proven' = proven
    BY <1>2, StoreLemma DEF StoreCode
  <2>2. QED
    BY <2>1, <1>a, AppendLemma
<1>3. ASSUME NEW c \in Calls, createGoogleUser(c) PROVE Goal
    BY <1>3, <1>a DEF createGoogleUser, mail
<1>4. ASSUME NEW c \in Calls, Continues(c), ~ StoreCode(c),
             ~ createGoogleUser(c)
      PROVE  UNCHANGED <<issued, proven>>
    BY <1>4 DEF Continues, createUser, updateEmail, markEmailVerified,
        updatePassword, FindProfileEmail, setGoogleId, SetPending,
        ForgetPending, CheckCooldown, sendOtpEmail, ReadCode, CountAttempt,
        DeleteCode, ClearAttempts, CallEnds, mail, history
<1>5. CASE Clock \/ UNCHANGED vars
    BY <1>5, <1>a DEF Clock, vars, mail, history
<1>6. QED
    BY <1>a, <1>1, <1>2, <1>3, <1>4, <1>5 DEF Next

LEMMA GrowsStep ==
    ASSUME TypeOK, LocalsInv, ProofInv, [Next]_vars PROVE Grows
<1> DEFINE Goal ==
        /\ \A u \in Users : verified[u] => verified'[u]
        /\ \A u \in Users :
            email[u] # NULL /\ ~ verified[u] => email'[u] = email[u]
<1>1. SUFFICES Goal
    BY MailSteps DEF Grows
<1> USE DEF TypeOK
<1>2. ASSUME NEW c \in Calls, createUser(c) PROVE Goal
    BY <1>2 DEF createUser
<1>3. ASSUME NEW c \in Calls, updateEmail(c) PROVE Goal
  <2>1. call[c].at = "apply" /\ call[c].confirm
    BY <1>3 DEF updateEmail, Goto
  <2>2. verified[call[c].user]
    BY <2>1 DEF ProofInv, CallFact, Checking
  <2>3. QED
    BY <2>2, <1>3 DEF updateEmail
<1>4. ASSUME NEW c \in Calls, markEmailVerified(c) \/ updatePassword(c)
      PROVE  Goal
    BY <1>4 DEF markEmailVerified, updatePassword
<1>5. ASSUME NEW c \in Calls, createGoogleUser(c) PROVE Goal
    BY <1>5 DEF createGoogleUser
<1>6. ASSUME NEW c \in Calls, setGoogleId(c) PROVE Goal
    BY <1>6 DEF setGoogleId
<1>7. CASE UNCHANGED rows
    BY <1>7 DEF rows
<1>8. QED
    BY <1>2, <1>3, <1>4, <1>5, <1>6, <1>7, RowSteps

\* What holds of a call lasts while it waits.
LEMMA FactLasts ==
    ASSUME TypeOK, TypeOK', Grows, NEW r \in Call, CallFact(r),
           r.at \in Checking => r.user \in Users /\ r.addr \in Emails
    PROVE  CallFact(r)'
<1>1. Len(issued) \in Nat /\ Len(issued') \in Nat
    BY DEF TypeOK
<1>2. r.at \in Checking /\ r.given # 0 =>
        r.given \in 1 .. Len(issued')
        /\ <<r.user, issued'[r.given]>> \in proven'
    BY <1>1 DEF CallFact, Grows
<1>3. r.at \in Checking \ {"get"} =>
        r.stored \in 1 .. Len(issued') /\ issued'[r.stored] = r.addr
    BY <1>1 DEF CallFact, Grows
<1>4. r.at \in Checking =>
        IF r.confirm THEN verified'[r.user]
        ELSE email'[r.user] = r.addr \/ verified'[r.user]
    BY AccountsAssumption DEF CallFact, Grows
<1>5. QED
    BY <1>2, <1>3, <1>4 DEF CallFact

\* A call outside verify has nothing to show.
LEMMA NoFact ==
    ASSUME NEW c \in Calls, call'[c].at \notin Checking
    PROVE  CallFact(call[c])'
    BY DEF CallFact, Checking

LEMMA StepFacts ==
    ASSUME TypeOK, LocalsInv, ProofInv, [Next]_vars,
           NEW x \in Calls
    PROVE  CallFact(call[x])'
<1>a. TypeOK' /\ Grows
    BY StepTypes, GrowsStep
<1>b. PICK r \in Call : r = call[x]
    BY DEF TypeOK
<1>c. r.at \in Checking => r.user \in Users /\ r.addr \in Emails
    BY <1>b DEF LocalsInv, Checking
<1>d. CallFact(r) /\ CallFact(r)'
    BY <1>a, <1>b, <1>c, FactLasts DEF ProofInv
<1>1. CASE call'[x] = call[x]
    BY <1>1, <1>b, <1>d DEF CallFact
<1>2. CASE Begins(x)
  <2>1. PICK q \in Call : BegunWith(x, q)
    BY <1>2, BeginsLemma
  <2>2. call'[x] = q /\ UNCHANGED <<rows, mail>>
    BY <2>1 DEF BegunWith, TypeOK
  <2>3. CASE q.at # "get"
    BY <2>1, <2>2, <2>3, NoFact DEF BegunWith, Checking
  <2>4. CASE q.at = "get"
    <3>1. q.given # 0 => q.given \in 1 .. Len(issued)
                         /\ <<q.user, issued[q.given]>> \in proven'
        BY <2>1, <2>4 DEF BegunWith, TypeOK
    <3>2. IF q.confirm THEN verified[q.user] ELSE email[q.user] = q.addr
        BY <2>1, <2>4 DEF BegunWith
    <3>3. QED
        BY <3>1, <3>2, <2>2, <2>4 DEF CallFact, Checking, rows, mail
  <2>5. QED
    BY <2>3, <2>4
<1>3. CASE ReadCode(x)
  <2>1. /\ call[x].at = "get" /\ call[x].addr \in Emails
        /\ call'[x].at = "count" /\ call'[x].addr = call[x].addr
        /\ call'[x].user = call[x].user /\ call'[x].given = call[x].given
        /\ call'[x].confirm = call[x].confirm
        /\ call'[x].stored = otp[call[x].addr]
        /\ otp[call[x].addr] \in 1 .. Len(issued)
    BY <1>3, ReadLemma
  <2>2. issued[otp[call[x].addr]] = call[x].addr
    BY <2>1 DEF ProofInv
  <2>3. issued' = issued
    BY <1>3 DEF ReadCode, mail
  <2>4. QED
    BY <2>1, <2>2, <2>3, <1>b, <1>d DEF CallFact, Checking
<1>4. CASE CountAttempt(x)
  <2>1. /\ call[x].at = "count"
        /\ \/ Moved(x, "discard") \/ Ended(x)
           \/ Moved(x, "consume") /\ call[x].stored = call[x].given
    BY <1>4, JudgeLemma DEF CountAttempt
  <2>2. CASE Ended(x)
    BY <2>2, NoFact DEF Ended, Checking
  <2>3. CASE Moved(x, "discard")
    BY <2>1, <2>3, <1>b, <1>d DEF Moved, CallFact, Checking
  <2>4. CASE Moved(x, "consume") /\ call[x].stored = call[x].given
    BY <2>1, <2>4, <1>b, <1>d DEF Moved, CallFact, Checking
  <2>5. QED
    BY <2>1, <2>2, <2>3, <2>4
<1>5. CASE DeleteCode(x)
  <2>1. \/ Ended(x)
        \/ Moved(x, "clear") /\ call[x].at = "consume"
    BY <1>5, FinishLemma, GotoLemma DEF DeleteCode, Steps
  <2>2. CASE Ended(x)
    BY <2>2, NoFact DEF Ended, Checking
  <2>3. CASE Moved(x, "clear") /\ call[x].at = "consume"
    BY <2>3, <1>b, <1>d DEF Moved, CallFact, Checking
  <2>4. QED
    BY <2>1, <2>2, <2>3
<1>6. CASE ClearAttempts(x)
  <2>1. Moved(x, "apply") /\ call[x].at = "clear"
    BY <1>6, GotoLemma DEF ClearAttempts, Steps
  <2>2. QED
    BY <2>1, <1>b, <1>d DEF Moved, CallFact, Checking
<1>7. CASE StoreCode(x)
    BY <1>7, StoreLemma, NoFact DEF Checking
<1>8. CASE \/ createUser(x) \/ updateEmail(x) \/ FindProfileEmail(x)
           \/ SetPending(x) \/ CheckCooldown(x)
  <2>1. \E q \in {"cooldown", "forget", "createGoogle", "store"} : Moved(x, q)
    BY <1>8, GotoLemma DEF createUser, updateEmail, FindProfileEmail,
        SetPending, CheckCooldown, Steps
  <2>2. QED
    BY <2>1, NoFact DEF Moved, Checking
<1>9. CASE \/ markEmailVerified(x) \/ updatePassword(x) \/ createGoogleUser(x)
           \/ setGoogleId(x) \/ ForgetPending(x) \/ sendOtpEmail(x)
           \/ CallEnds(x)
  <2>1. Ended(x)
    BY <1>9, FinishLemma DEF markEmailVerified, updatePassword,
        createGoogleUser, setGoogleId, ForgetPending, sendOtpEmail, CallEnds
  <2>2. QED
    BY <2>1, NoFact DEF Ended, Checking
<1>10. ASSUME NEW c \in Calls, c # x, Begins(c) \/ Continues(c)
       PROVE  call'[x] = call[x]
  <2>1. CASE Begins(c)
    <3>1. PICK q \in Call : BegunWith(c, q)
        BY <2>1, BeginsLemma
    <3>2. QED
        BY <3>1, <1>10 DEF BegunWith, TypeOK
  <2>2. CASE Continues(c)
    <3>1. CASE StoreCode(c) \/ ReadCode(c)
        BY <3>1, <1>10, StoreLemma, ReadLemma
    <3>2. CASE CountAttempt(c)
        BY <3>2, <1>10, JudgeLemma DEF CountAttempt, Moved, Ended
    <3>3. CASE \/ createUser(c) \/ updateEmail(c) \/ FindProfileEmail(c)
               \/ SetPending(c) \/ CheckCooldown(c) \/ ClearAttempts(c)
               \/ DeleteCode(c)
        BY <3>3, <1>10 DEF createUser, updateEmail, FindProfileEmail,
            SetPending, CheckCooldown, ClearAttempts, DeleteCode, Goto, Finish,
            TypeOK
    <3>4. CASE \/ markEmailVerified(c) \/ updatePassword(c)
               \/ createGoogleUser(c) \/ setGoogleId(c) \/ ForgetPending(c)
               \/ sendOtpEmail(c) \/ CallEnds(c)
        BY <3>4, <1>10 DEF markEmailVerified, updatePassword, createGoogleUser,
            setGoogleId, ForgetPending, sendOtpEmail, CallEnds, Finish, TypeOK
    <3>5. QED
        BY <2>2, <3>1, <3>2, <3>3, <3>4 DEF Continues
  <2>3. QED
    BY <2>1, <2>2, <1>10
<1>11. CASE Clock \/ UNCHANGED vars
    BY <1>11, <1>1 DEF Clock, vars
<1>12. QED
    BY <1>1, <1>2, <1>3, <1>4, <1>5, <1>6, <1>7, <1>8, <1>9, <1>10, <1>11
    DEF Next, Continues

\* A code is stored under the address it was issued for.
LEMMA StepCodes ==
    ASSUME TypeOK, LocalsInv, ProofInv, [Next]_vars,
           NEW e \in Emails, otp'[e] # 0
    PROVE  issued'[otp'[e]] = e
<1>a. Len(issued) \in Nat /\ otp[e] \in 0 .. Len(issued)
    BY DEF TypeOK
<1>b. otp[e] # 0 => issued'[otp[e]] = e
    BY <1>a, MailSteps DEF ProofInv
<1>1. ASSUME NEW c \in Calls, StoreCode(c) PROVE issued'[otp'[e]] = e
  <2>1. call[c].addr \in Emails /\ issued' = Append(issued, call[c].addr)
        /\ otp' = [otp EXCEPT ![call[c].addr] = Len(issued) + 1]
    BY <1>1, StoreLemma DEF StoreCode
  <2>2. CASE call[c].addr = e
    BY <2>1, <2>2, AppendLemma DEF TypeOK
  <2>3. CASE call[c].addr # e
    BY <2>1, <2>3, <1>b DEF TypeOK
  <2>4. QED
    BY <2>2, <2>3
<1>2. ASSUME NEW c \in Calls, DeleteCode(c) PROVE issued'[otp'[e]] = e
    BY <1>2, <1>b DEF DeleteCode, TypeOK
<1>3. ASSUME NEW c \in Calls, Begins(c) PROVE otp' = otp
    BY <1>3, BeginsLemma DEF BegunWith, redis, codeKeys
<1>4. ASSUME NEW c \in Calls, Continues(c), ~ StoreCode(c), ~ DeleteCode(c)
      PROVE  otp' = otp
    BY <1>4 DEF Continues, createUser, updateEmail, markEmailVerified,
        updatePassword, FindProfileEmail, createGoogleUser, setGoogleId,
        SetPending, ForgetPending, CheckCooldown, sendOtpEmail, ReadCode,
        CountAttempt, ClearAttempts, CallEnds, redis, codeKeys
<1>5. CASE Clock
    BY <1>5, <1>b DEF Clock, Kept, TypeOK
<1>6. CASE UNCHANGED vars
    BY <1>6, <1>b DEF vars, redis, codeKeys
<1>7. QED
    BY <1>b, <1>1, <1>2, <1>3, <1>4, <1>5, <1>6 DEF Next

\* At the end of verify, whoever called has read a code sent to the address.
LEMMA ApplyLemma ==
    ASSUME TypeOK, LocalsInv, ProofInv, NEW c \in Calls, call[c].at = "apply"
    PROVE  /\ call[c].user \in Users /\ call[c].addr \in Emails
           /\ <<call[c].user, call[c].addr>> \in proven
<1>1. call[c].user \in Users /\ call[c].addr \in Emails
    BY DEF LocalsInv, Checking
<1>2. CallFact(call[c])
    BY DEF ProofInv
<1>3. call[c].stored \in 1 .. Len(issued) /\ call[c].given = call[c].stored
      /\ issued[call[c].stored] = call[c].addr
    BY <1>2 DEF CallFact, Checking
<1>4. call[c].given # 0
    BY <1>3 DEF TypeOK
<1>5. <<call[c].user, issued[call[c].given]>> \in proven
    BY <1>2, <1>4 DEF CallFact, Checking
<1>6. QED
    BY <1>1, <1>3, <1>5

LEMMA StepRows ==
    ASSUME TypeOK, LocalsInv, ProofInv, [Next]_vars
    PROVE  /\ \A u \in Users : verified'[u] => email'[u] # NULL
           /\ AddressProven'
<1> DEFINE Goal == \A u \in Users : verified'[u] =>
                        email'[u] # NULL /\ <<u, email'[u]>> \in proven'
<1>a. \A u \in Users : verified[u] => email[u] # NULL
                                      /\ <<u, email[u]>> \in proven
    BY DEF ProofInv, AddressProven, SignedIn
<1>b. proven \subseteq proven'
    BY MailSteps
<1> USE AccountsAssumption
<1>1. ASSUME NEW c \in Calls, createUser(c) PROVE Goal
    BY <1>1, <1>a, <1>b DEF createUser, TypeOK
<1>2. ASSUME NEW c \in Calls, updateEmail(c) PROVE Goal
  <2>1. call[c].user \in Users /\ call[c].addr \in Emails
        /\ <<call[c].user, call[c].addr>> \in proven
    BY <1>2, ApplyLemma DEF updateEmail, Goto
  <2>2. QED
    BY <2>1, <1>2, <1>a, <1>b DEF updateEmail, TypeOK
<1>3. ASSUME NEW c \in Calls, markEmailVerified(c) PROVE Goal
  <2>1. call[c].at = "apply" /\ ~ call[c].confirm
    BY <1>3 DEF markEmailVerified, Finish
  <2>2. call[c].user \in Users /\ call[c].addr \in Emails
        /\ <<call[c].user, call[c].addr>> \in proven
    BY <2>1, ApplyLemma
  <2>3. email[call[c].user] = call[c].addr \/ verified[call[c].user]
    BY <2>1 DEF ProofInv, CallFact, Checking
  <2>4. QED
    BY <2>2, <2>3, <1>3, <1>a, <1>b DEF markEmailVerified, TypeOK
<1>4. ASSUME NEW c \in Calls, updatePassword(c) PROVE Goal
    BY <1>4, <1>a, <1>b DEF updatePassword
<1>5. ASSUME NEW c \in Calls, createGoogleUser(c) PROVE Goal
  <2>1. call[c].addr \in Emails
    BY <1>5, AddrLemma DEF createGoogleUser, Finish
  <2>2. QED
    BY <2>1, <1>5, <1>a, <1>b DEF createGoogleUser, TypeOK
<1>6. ASSUME NEW c \in Calls, setGoogleId(c) PROVE Goal
    BY <1>6, <1>a, <1>b DEF setGoogleId
<1>7. ASSUME UNCHANGED rows PROVE Goal
    BY <1>7, <1>a, <1>b DEF rows
<1>8. Goal
    BY <1>1, <1>2, <1>3, <1>4, <1>5, <1>6, <1>7, RowSteps
<1>9. QED
    BY <1>8 DEF AddressProven, SignedIn

(***************************************************************************)
(* OtpService.verify and its callers keep what ties a code, the address it *)
(* was sent to and the caller together.                                    *)
(***************************************************************************)
THEOREM ProofInvCorrect == Spec => []ProofInv
<1>1. TypeOK /\ LocalsInv /\ ProofInv /\ [Next]_vars => ProofInv'
    BY StepFacts, StepCodes, StepRows DEF ProofInv
<1>2. QED
    BY <1>1, InitProof, AccountsTypeCorrect, PTL DEF Spec

(***************************************************************************)
(* The address of a verified account is one its owner has read mail at, or *)
(* one Google vouches for, for any number of calls that replace codes,     *)
(* pending requests and addresses under each other.                        *)
(***************************************************************************)
THEOREM AddressesAreProven == Spec => []AddressProven
<1>1. ProofInv => AddressProven
    BY DEF ProofInv
<1>2. QED
    BY <1>1, ProofInvCorrect, PTL

-----------------------------------------------------------------------------
(* Guesses at a code                                                       *)

\* Attempts that were compared, of those the counter has seen.
Compared(e) == IF tries[e] <= MaxAttempts THEN tries[e] ELSE MaxAttempts

(***************************************************************************)
(* The comparisons since the counter was last deleted are on the counter,  *)
(* and the counter is kept as long as the code.                            *)
(***************************************************************************)
GuessInv ==
    /\ \A e \in Emails :
        /\ guesses[e] <= Compared(e) + MaxAttempts * resets[e]
        /\ guesses[e] > MaxAttempts * resets[e] => triesUntil[e] >= otpUntil[e]
        /\ otpUntil[e] <= now + TTL
        /\ otp[e] = 0 => guesses[e] = 0
    /\ \A c \in Calls : call[c].at = "count" => call[c].stored # 0

\* Steps that leave the codes, the counters and the history alone.
LEMMA CodeSteps ==
    ASSUME TypeOK, [Next]_vars
    PROVE  \/ UNCHANGED <<now, codeKeys, guesses, resets>>
           \/ Clock
           \/ \E c \in Calls :
                StoreCode(c) \/ CountAttempt(c) \/ DeleteCode(c)
                \/ ClearAttempts(c)
<1>1. ASSUME NEW c \in Calls, Begins(c)
      PROVE  UNCHANGED <<now, codeKeys, guesses, resets>>
    BY <1>1, BeginsLemma DEF BegunWith, redis
<1>2. ASSUME NEW c \in Calls, Continues(c), ~ StoreCode(c), ~ CountAttempt(c),
             ~ DeleteCode(c), ~ ClearAttempts(c)
      PROVE  UNCHANGED <<now, codeKeys, guesses, resets>>
    BY <1>2 DEF Continues, createUser, updateEmail, markEmailVerified,
        updatePassword, FindProfileEmail, createGoogleUser, setGoogleId,
        SetPending, ForgetPending, CheckCooldown, sendOtpEmail, ReadCode,
        CallEnds, redis, history
<1>3. CASE UNCHANGED vars
    BY <1>3 DEF vars, redis, history
<1>4. QED
    BY <1>1, <1>2, <1>3 DEF Next

LEMMA StepGuesses ==
    TypeOK /\ LocalsInv /\ ProofInv /\ GuessInv /\ [Next]_vars => GuessInv'
<1>0. SUFFICES ASSUME TypeOK, LocalsInv, ProofInv, GuessInv, [Next]_vars
               PROVE  GuessInv'
    OBVIOUS
<1>a. TypeOK'
    BY <1>0, StepTypes
<1>b. \A c \in Calls : call'[c].at = "count" => call'[c].stored # 0
  <2>1. Len(issued') \in Nat
    BY <1>a DEF TypeOK
  <2>2. ASSUME NEW c \in Calls, call'[c].at = "count"
        PROVE  call'[c].stored \in 1 .. Len(issued')
    <3>1. CallFact(call[c])'
        BY <1>0, StepFacts
    <3>2. QED
        BY <3>1, <2>2 DEF CallFact, Checking
  <2>3. QED
    BY <2>1, <2>2
<1>c. /\ \A e \in Emails : /\ tries[e] \in Nat /\ guesses[e] \in Nat
                           /\ resets[e] \in Nat /\ now \in Nat
                           /\ otpUntil[e] \in Nat /\ triesUntil[e] \in Nat
      /\ MaxAttempts \in Nat \ {0} /\ TTL \in Nat
    BY <1>0, AccountsAssumption DEF TypeOK, Times
<1>d. \A n \in Nat : MaxAttempts * n \in Nat
                     /\ MaxAttempts * (n + 1) = MaxAttempts * n + MaxAttempts
    BY <1>c
<1>e. MaxAttempts * 0 = 0
    BY <1>c
<1> DEFINE Good(e) ==
        /\ guesses[e] <= Compared(e) + MaxAttempts * resets[e]
        /\ guesses[e] > MaxAttempts * resets[e] => triesUntil[e] >= otpUntil[e]
        /\ otpUntil[e] <= now + TTL
        /\ otp[e] = 0 => guesses[e] = 0
<1>f. ASSUME NEW e \in Emails PROVE Good(e)
    BY <1>0 DEF GuessInv
<1>g. SUFFICES ASSUME NEW e \in Emails PROVE Good(e)'
    BY <1>b DEF GuessInv
<1> USE DEF Compared
<1>1. CASE UNCHANGED <<now, codeKeys, guesses, resets>>
    BY <1>1, <1>f DEF codeKeys
<1>2. ASSUME NEW c \in Calls, StoreCode(c) PROVE Good(e)'
  <2>1. CASE call[c].addr = e
    BY <2>1, <1>2, <1>0, <1>c, <1>e DEF StoreCode, Recount, TypeOK
  <2>2. CASE call[c].addr # e
    BY <2>2, <1>2, <1>0, <1>f DEF StoreCode, Recount, TypeOK
  <2>3. QED
    BY <2>1, <2>2
<1>3. ASSUME NEW c \in Calls, CountAttempt(c) PROVE Good(e)'
  <2>1. CASE call[c].addr # e
    BY <2>1, <1>3, <1>0, <1>f DEF CountAttempt, Guesses, TypeOK
  <2>2. CASE call[c].addr = e
    <3>1. /\ tries'[e] = Attempt(e) /\ triesUntil'[e] = now + TTL
          /\ now' = now /\ otp' = otp /\ otpUntil' = otpUntil
          /\ resets' = resets /\ call[c].stored # 0
        BY <2>2, <1>3, <1>0
        DEF CountAttempt, AttemptsTTL, GuessInv, TypeOK
    <3>2. guesses'[e] = IF Attempt(e) <= MaxAttempts /\ otp[e] = call[c].stored
                        THEN guesses[e] + 1 ELSE guesses[e]
        BY <2>2, <1>3, <1>0 DEF CountAttempt, Guesses, TypeOK
    <3>3. QED
        BY <3>1, <3>2, <1>c, <1>d, <1>f DEF Attempt
  <2>3. QED
    BY <2>1, <2>2
<1>4. ASSUME NEW c \in Calls, DeleteCode(c) PROVE Good(e)'
  <2>1. CASE call[c].addr = e
    BY <2>1, <1>4, <1>0, <1>c, <1>e DEF DeleteCode, Recount, TypeOK
  <2>2. CASE call[c].addr # e
    BY <2>2, <1>4, <1>0, <1>f DEF DeleteCode, Recount, TypeOK
  <2>3. QED
    BY <2>1, <2>2
<1>5. ASSUME NEW c \in Calls, ClearAttempts(c) PROVE Good(e)'
  <2>1. CASE call[c].addr # e
    BY <2>1, <1>5, <1>0, <1>f DEF ClearAttempts, TypeOK
  <2>2. CASE call[c].addr = e
    <3>1. /\ tries'[e] = 0 /\ triesUntil'[e] = 0 /\ now' = now
          /\ otp' = otp /\ otpUntil' = otpUntil /\ guesses' = guesses
          /\ resets'[e] = IF otp[e] = 0 THEN resets[e] ELSE resets[e] + 1
        BY <2>2, <1>5, <1>0 DEF ClearAttempts, TypeOK
    <3>2. QED
        BY <3>1, <1>c, <1>d, <1>f
  <2>3. QED
    BY <2>1, <2>2
<1>6. CASE Clock
  <2>1. /\ now' = now + 1
        /\ otp'[e] = IF otpUntil[e] > now' THEN otp[e] ELSE 0
        /\ otpUntil'[e] = IF otpUntil[e] > now' THEN otpUntil[e] ELSE 0
        /\ tries'[e] = IF triesUntil[e] > now' THEN tries[e] ELSE 0
        /\ triesUntil'[e] = IF triesUntil[e] > now' THEN triesUntil[e] ELSE 0
        /\ guesses'[e] = IF otpUntil[e] > now' THEN guesses[e] ELSE 0
        /\ resets'[e] = IF otpUntil[e] > now' THEN resets[e] ELSE 0
    BY <1>6, <1>0 DEF Clock, Kept, TypeOK
  <2>2. QED
    BY <2>1, <1>c, <1>d, <1>e, <1>f
<1>7. QED
    BY <1>0, <1>1, <1>2, <1>3, <1>4, <1>5, <1>6, CodeSteps

LEMMA InitGuesses == Init => GuessInv
    BY AccountsAssumption DEF Init, GuessInv, Compared, Idle

LEMMA GuessInvSuffices == TypeOK /\ GuessInv => GuessesBounded
<1>1. SUFFICES ASSUME TypeOK, GuessInv, NEW e \in Emails
               PROVE  guesses[e] <= MaxAttempts * (1 + resets[e])
    BY DEF GuessesBounded
<1>2. /\ guesses[e] \in Nat /\ resets[e] \in Nat /\ tries[e] \in Nat
      /\ MaxAttempts \in Nat
    BY <1>1, AccountsAssumption DEF TypeOK
<1>3. MaxAttempts * (1 + resets[e]) = MaxAttempts + MaxAttempts * resets[e]
      /\ MaxAttempts * resets[e] \in Nat
    BY <1>2
<1>4. guesses[e] <= Compared(e) + MaxAttempts * resets[e]
    BY <1>1 DEF GuessInv
<1>5. Compared(e) \in Nat /\ Compared(e) <= MaxAttempts
    BY <1>2 DEF Compared
<1>6. QED
    BY <1>2, <1>3, <1>4, <1>5

(***************************************************************************)
(* A code withstands any number of concurrent calls of verify: no more     *)
(* than MaxAttempts guesses are compared with it, once more for every late *)
(* deletion of its counter, for any lifetimes and any limit.               *)
(***************************************************************************)
THEOREM GuessesAreBounded == Spec => []GuessesBounded
<1>1. Spec => []GuessInv
    BY ProofInvCorrect, InitGuesses, StepGuesses, AccountsTypeCorrect, PTL
    DEF Spec
<1>2. QED
    BY <1>1, AccountsTypeCorrect, GuessInvSuffices, PTL

=============================================================================
