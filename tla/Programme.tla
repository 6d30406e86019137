----------------------------- MODULE Programme ------------------------------
(***************************************************************************)
(* What the administration promises about the programme: a screening is    *)
(* always of an existing movie in an existing hall; it is scheduled once,  *)
(* may be moved, and neither a cancelled screening nor anything that was   *)
(* deleted ever comes back.  Scheduling and Catalogue both implement this. *)
(***************************************************************************)
CONSTANTS Halls, Movies, Screens, NULL

VARIABLES
    rows,       \* of each hall and movie: not yet there, there, deleted
    state,      \* of each screening
    venue       \* its hall and movie; NULL: no screening

vars == <<rows, state, venue>>

Init ==
    /\ rows = [x \in Halls \cup Movies |-> "NONE"]
    /\ state = [s \in Screens |-> "NONE"]
    /\ venue = [s \in Screens |-> NULL]

OnProgramme(s) == state[s] \in {"SCHEDULED", "CANCELLED"}

Add(x) ==
    /\ rows[x] = "NONE"
    /\ rows' = [rows EXCEPT ![x] = "ROW"]
    /\ UNCHANGED <<state, venue>>

\* Put the screening there, for the first time or again.
Place(s, h, m) ==
    /\ rows[h] = "ROW" /\ rows[m] = "ROW"
    /\ venue' = [venue EXCEPT ![s] = [hall |-> h, movie |-> m]]
    /\ \/ state[s] = "NONE" /\ state' = [state EXCEPT ![s] = "SCHEDULED"]
       \/ OnProgramme(s) /\ UNCHANGED state
    /\ UNCHANGED rows

Cancel(s) ==
    /\ OnProgramme(s)
    /\ state' = [state EXCEPT ![s] = "CANCELLED"]
    /\ UNCHANGED <<rows, venue>>

Withdraw(S) ==
    /\ state' = [s \in Screens |-> IF s \in S THEN "GONE" ELSE state[s]]
    /\ venue' = [s \in Screens |-> IF s \in S THEN NULL ELSE venue[s]]

DeleteScreening(s) ==
    /\ OnProgramme(s)
    /\ Withdraw({s})
    /\ UNCHANGED rows

\* A hall or a movie goes with all its screenings.
Delete(x) ==
    /\ rows[x] = "ROW"
    /\ rows' = [rows EXCEPT ![x] = "GONE"]
    /\ Withdraw({s \in Screens : OnProgramme(s)
                                 /\ x \in {venue[s].hall, venue[s].movie}})

Next ==
    \/ \E x \in Halls \cup Movies : Add(x) \/ Delete(x)
    \/ \E s \in Screens :
        \/ Cancel(s) \/ DeleteScreening(s)
        \/ \E h \in Halls, m \in Movies : Place(s, h, m)

Spec == Init /\ [][Next]_vars

=============================================================================
