----------------------------- MODULE Scheduling -----------------------------
(***************************************************************************)
(* Administration of halls, movies and screenings while customers reserve: *)
(* HallsService, ScreeningsService and MoviesService over the rows of      *)
(* PostgreSQL and its foreign keys.  Nothing is locked: an administrator's *)
(* call looks up, checks and writes in separate statements.  The Redis     *)
(* entries that these calls delete afterwards are never read by them.      *)
(***************************************************************************)
EXTENDS Naturals, Cinema

CONSTANTS
    Ids,        \* reservations
    ScreenOf,   \* the screening each reservation is for
    HallOf,     \* the hall whose seat it is for
    Cuts,       \* Cuts[m]: durations an administrator may give to movie m
    Admins      \* administrators' calls in flight

ASSUME SchedulingAssumption ==
    /\ (Halls \cup Movies) \cap Screens = {}
    /\ ScreenOf \in [Ids -> Screens]
    /\ HallOf \in [Ids -> Halls]
    /\ Cuts \in [Movies -> SUBSET (Nat \ {0})]

VARIABLES
    row,        \* is there a row for the hall or movie?
    duration,   \* duration of each movie
    status,     \* status of each screening
    place,      \* its hall, movie and start time
    booked,     \* reservations that have a row, whatever their status
    readHall,   \* the hall a reserve call has read, or NULL
    pc, job     \* the administrators' calls

catalogue == <<row, duration>>
screenVars == <<status, place>>
adminVars == <<pc, job>>
vars == <<catalogue, screenVars, booked, readHall, adminVars>>

-----------------------------------------------------------------------------
RowState == {"NONE", "ROW", "GONE"}
ScreenStatus == {"NONE", "SCHEDULED", "CANCELLED", "GONE"}
Fields == {"hall", "movie", "start"}

\* given: the fields the request sets; new: the placement that is checked;
\* length: the duration the call has read.
Edit == [op : {"create", "update"}, id : Screens, given : SUBSET Fields,
         new : Placement, length : Nat]
Removal == [op : {"cancel", "delete"}, id : Screens]
           \cup [op : {"deleteRow"}, id : Halls \cup Movies]

ASSUME NullIsNoRecord == NULL \notin Halls \cup Placement \cup Edit \cup Removal

TypeOK ==
    /\ row \in [Halls \cup Movies -> RowState]
    /\ duration \in [Movies -> Nat]
    /\ status \in [Screens -> ScreenStatus]
    /\ place \in [Screens -> Placement \cup {NULL}]
    /\ \A s \in Screens : status[s] # "NONE" => place[s] # NULL
    /\ booked \subseteq Ids
    /\ readHall \in [Ids -> Halls \cup {NULL}]
    /\ pc \in [Admins -> {"idle", "check", "write"}]
    /\ job \in [Admins -> Edit \cup Removal \cup {NULL}]
    /\ \A a \in Admins : pc[a] # "idle" => job[a] # NULL

HasRow(x) == row[x] = "ROW"
Exists(s) == status[s] \in {"SCHEDULED", "CANCELLED"}

Init ==
    /\ row = [x \in Halls \cup Movies |-> "NONE"]
    /\ duration = [m \in Movies |-> 0]
    /\ status = [s \in Screens |-> "NONE"]
    /\ place = [s \in Screens |-> NULL]
    /\ booked = {}
    /\ readHall = [r \in Ids |-> NULL]
    /\ pc = [a \in Admins |-> "idle"]
    /\ job = [a \in Admins |-> NULL]

-----------------------------------------------------------------------------
(* Halls and movies                                                        *)

\* The hall and all its seats in one transaction.
CreateHall(h) ==
    /\ row[h] = "NONE"
    /\ row' = [row EXCEPT ![h] = "ROW"]
    /\ UNCHANGED <<duration, screenVars, booked, readHall, adminVars>>

CreateMovie(m) ==
    /\ row[m] = "NONE"
    /\ row' = [row EXCEPT ![m] = "ROW"]
    /\ \E d \in Cuts[m] : duration' = [duration EXCEPT ![m] = d]
    /\ UNCHANGED <<screenVars, booked, readHall, adminVars>>

\* No screening of the movie is looked at.
UpdateMovie(m) ==
    /\ HasRow(m)
    /\ \E d \in Cuts[m] : duration' = [duration EXCEPT ![m] = d]
    /\ UNCHANGED <<row, screenVars, booked, readHall, adminVars>>

-----------------------------------------------------------------------------
(* reserve, as far as it depends on screenings and halls                   *)

ReadScreening(r) ==
    /\ r \notin booked
    /\ readHall[r] = NULL
    /\ status[ScreenOf[r]] = "SCHEDULED"
    /\ readHall' = [readHall EXCEPT ![r] = place[ScreenOf[r]].hall]
    /\ UNCHANGED <<catalogue, screenVars, booked, adminVars>>

\* The seat must be one of the hall that was read, and the foreign keys need
\* the seat and the screening.
InsertReservation(r) ==
    /\ readHall[r] = HallOf[r]
    /\ HasRow(HallOf[r])
    /\ Exists(ScreenOf[r])
    /\ booked' = booked \cup {r}
    /\ readHall' = [readHall EXCEPT ![r] = NULL]
    /\ UNCHANGED <<catalogue, screenVars, adminVars>>

ReserveFails(r) ==
    /\ readHall[r] # NULL
    /\ readHall' = [readHall EXCEPT ![r] = NULL]
    /\ UNCHANGED <<catalogue, screenVars, booked, adminVars>>

-----------------------------------------------------------------------------
(* The first lookup of an administrator's call                             *)

Begin(a, j) ==
    /\ pc[a] = "idle"
    /\ pc' = [pc EXCEPT ![a] = "check"]
    /\ job' = [job EXCEPT ![a] = j]
    /\ UNCHANGED <<catalogue, screenVars, booked, readHall>>

CreateScreening(a, s, p) ==
    /\ status[s] = "NONE"
    /\ \A b \in Admins : job[b] # NULL => job[b].id # s
    /\ HasRow(p.movie)
    /\ Begin(a, [op |-> "create", id |-> s, given |-> Fields, new |-> p,
                 length |-> duration[p.movie]])

\* Fields that the request leaves out are taken from the row it has read.
UpdateScreening(a, s, p, given) ==
    /\ Exists(s)
    /\ \A f \in Fields \ given : p[f] = place[s][f]
    /\ HasRow(p.movie)
    /\ Begin(a, [op |-> "update", id |-> s, given |-> given, new |-> p,
                 length |-> duration[p.movie]])

CancelScreening(a, s) ==
    /\ status[s] = "SCHEDULED"
    /\ Begin(a, [op |-> "cancel", id |-> s])

DeleteScreening(a, s) ==
    /\ Exists(s)
    /\ Begin(a, [op |-> "delete", id |-> s])

\* deleteHall and deleteMovie
DeleteRow(a, x) ==
    /\ HasRow(x)
    /\ Begin(a, [op |-> "deleteRow", id |-> x])

-----------------------------------------------------------------------------
(* The checks                                                              *)

\* Half-open intervals.
Overlap(t1, d1, t2, d2) == t1 < t2 + d2 /\ t2 < t1 + d1

findOverlapping(p, length, exclude) ==
    {s \in Screens \ exclude :
        /\ status[s] = "SCHEDULED"
        /\ place[s].hall = p.hall
        /\ Overlap(p.start, length, place[s].start, duration[place[s].movie])}

\* The lookup of the hall, if there is one, refuses no more than the foreign
\* key does at the write.
CheckEdit(a) ==
    /\ pc[a] = "check"
    /\ job[a].op \in {"create", "update"}
    /\ findOverlapping(job[a].new, job[a].length,
                       IF job[a].op = "update" THEN {job[a].id} ELSE {}) = {}
    /\ pc' = [pc EXCEPT ![a] = "write"]
    /\ UNCHANGED <<catalogue, screenVars, booked, readHall, job>>

\* Screenings now in the hall, or of the movie.
ScreensOf(x) == {s \in Screens : Exists(s) /\ x \in {place[s].hall, place[s].movie}}

hasReservations(j) ==
    \E r \in booked :
        IF j.op = "deleteRow" THEN ScreenOf[r] \in ScreensOf(j.id)
                              ELSE ScreenOf[r] = j.id

CheckRemoval(a) ==
    /\ pc[a] = "check"
    /\ job[a].op \in {"delete", "deleteRow"}
    /\ ~ hasReservations(job[a])
    /\ pc' = [pc EXCEPT ![a] = "write"]
    /\ UNCHANGED <<catalogue, screenVars, booked, readHall, job>>

-----------------------------------------------------------------------------
(* The writes                                                              *)

End(a) ==
    /\ pc' = [pc EXCEPT ![a] = "idle"]
    /\ job' = [job EXCEPT ![a] = NULL]

WriteNew(a) ==
    LET j == job[a] IN
    /\ pc[a] = "write"
    /\ j.op = "create"
    /\ HasRow(j.new.hall) /\ HasRow(j.new.movie)
    /\ status' = [status EXCEPT ![j.id] = "SCHEDULED"]
    /\ place' = [place EXCEPT ![j.id] = j.new]
    /\ End(a)
    /\ UNCHANGED <<catalogue, booked, readHall>>

\* Mutant: a field the request leaves out is written as null.
RevisedBlank(j) ==
    [f \in Fields |-> IF f \in j.given THEN j.new[f] ELSE NULL]

Revised(j) ==
    [f \in Fields |-> IF f \in j.given THEN j.new[f] ELSE place[j.id][f]]

\* Mutant: the update writes back everything it has read, status included.
WriteEditBack(a) ==
    LET j == job[a] IN
    /\ pc[a] = "write"
    /\ j.op = "update"
    /\ Exists(j.id)
    /\ HasRow(j.new.hall) /\ HasRow(j.new.movie)
    /\ place' = [place EXCEPT ![j.id] = j.new]
    /\ status' = [status EXCEPT ![j.id] = "SCHEDULED"]
    /\ End(a)
    /\ UNCHANGED <<catalogue, booked, readHall>>

\* Only the given fields; the status is not one of them.
WriteEdit(a) ==
    LET j == job[a] IN
    /\ pc[a] = "write"
    /\ j.op = "update"
    /\ Exists(j.id)
    /\ \A f \in j.given \ {"start"} : HasRow(j.new[f])
    /\ place' = [place EXCEPT ![j.id] = Revised(j)]
    /\ End(a)
    /\ UNCHANGED <<catalogue, status, booked, readHall>>

SetCancelled(a) ==
    LET j == job[a] IN
    /\ pc[a] = "check"
    /\ j.op = "cancel"
    /\ Exists(j.id)
    /\ status' = [status EXCEPT ![j.id] = "CANCELLED"]
    /\ End(a)
    /\ UNCHANGED <<catalogue, place, booked, readHall>>

\* Mutant: the screenings go, their reservations stay.
CascadeStops(screens, x) ==
    /\ status' = [s \in Screens |-> IF s \in screens THEN "GONE" ELSE status[s]]
    /\ booked' = {r \in booked : x = NULL \/ HallOf[r] # x}
    /\ UNCHANGED <<duration, place, readHall>>

\* Mutant: a delete whose filter is undefined.
CascadeAll(screens, x) ==
    /\ status' = [s \in Screens |-> IF Exists(s) THEN "GONE" ELSE status[s]]
    /\ booked' = {}
    /\ UNCHANGED <<duration, place, readHall>>

\* ON DELETE CASCADE: screenings, seats of the hall x, and the reservations
\* of either.
Cascade(screens, x) ==
    /\ status' = [s \in Screens |-> IF s \in screens THEN "GONE" ELSE status[s]]
    /\ booked' = {r \in booked : ScreenOf[r] \notin screens /\ HallOf[r] # x}
    /\ UNCHANGED <<duration, place, readHall>>

Remove(a) ==
    LET j == job[a] IN
    /\ pc[a] = "write"
    /\ End(a)
    /\ \/ /\ j.op = "delete"
          /\ Exists(j.id)
          /\ Cascade({j.id}, NULL)
          /\ UNCHANGED row
       \/ /\ j.op = "deleteRow"
          /\ HasRow(j.id)
          /\ Cascade(ScreensOf(j.id), j.id)
          /\ row' = [row EXCEPT ![j.id] = "GONE"]

\* A check that refuses, a row that is gone, a foreign key, a lost database.
CallFails(a) ==
    /\ pc[a] # "idle"
    /\ End(a)
    /\ UNCHANGED <<catalogue, screenVars, booked, readHall>>

-----------------------------------------------------------------------------
AdminBegins(a) ==
    \/ \E s \in Screens :
        \/ CancelScreening(a, s) \/ DeleteScreening(a, s)
        \/ \E p \in Placement :
            \/ CreateScreening(a, s, p)
            \/ \E given \in SUBSET Fields \ {{}} : UpdateScreening(a, s, p, given)
    \/ \E x \in Halls \cup Movies : DeleteRow(a, x)

AdminGoesOn(a) ==
    \/ CheckEdit(a) \/ CheckRemoval(a)
    \/ WriteNew(a) \/ WriteEdit(a) \/ SetCancelled(a) \/ Remove(a)
    \/ CallFails(a)

Next ==
    \/ \E h \in Halls : CreateHall(h)
    \/ \E m \in Movies : CreateMovie(m) \/ UpdateMovie(m)
    \/ \E r \in Ids : ReadScreening(r) \/ InsertReservation(r) \/ ReserveFails(r)
    \/ \E a \in Admins : AdminBegins(a) \/ AdminGoesOn(a)

Spec == Init /\ [][Next]_vars

-----------------------------------------------------------------------------
(* Properties                                                              *)

(***************************************************************************)
(* assertNoOverlap: no two scheduled screenings overlap in a hall, the     *)
(* "hall-overlap protection" of screenings.module.ts.  It holds while the  *)
(* edits of a hall do not run at the same time and the durations of movies *)
(* do not change (CinemaProofs), and fails otherwise.                      *)
(***************************************************************************)
NoOverlap ==
    \A s, u \in Screens :
        /\ s # u
        /\ status[s] = "SCHEDULED" /\ status[u] = "SCHEDULED"
        /\ place[s].hall = place[u].hall
        => ~ (/\ place[s].start < place[u].start + duration[place[u].movie]
              /\ place[u].start < place[s].start + duration[place[s].movie])

(***************************************************************************)
(* The foreign keys and their cascades: whatever is deleted under a        *)
(* reserve call or another administrator's call, no screening is left      *)
(* without its hall and movie, no reservation without screening and seat.  *)
(***************************************************************************)
NoOrphans ==
    /\ \A s \in Screens :
        Exists(s) => HasRow(place[s].hall) /\ HasRow(place[s].movie)
    /\ \A r \in booked : Exists(ScreenOf[r]) /\ HasRow(HallOf[r])

(***************************************************************************)
(* An update that has read a screening before another administrator        *)
(* cancelled or deleted it does not bring it back.                         *)
(***************************************************************************)
CancelIsFinal ==
    [][\A s \in Screens :
        /\ status[s] = "CANCELLED" => status'[s] \in {"CANCELLED", "GONE"}
        /\ status[s] = "GONE" => status'[s] = "GONE"]_vars

-----------------------------------------------------------------------------
(* Refinement of Programme                                                 *)

Venue == [s \in Screens |->
            IF Exists(s) THEN [hall |-> place[s].hall, movie |-> place[s].movie]
                         ELSE NULL]

Plan == INSTANCE Programme WITH rows <- row, state <- status, venue <- Venue

(***************************************************************************)
(* Every statement of the administrators' calls, however they interleave,  *)
(* is a step of the abstract programme: an update lands where hall and     *)
(* movie still exist, nothing cancelled or deleted comes back, and what a  *)
(* deletion takes along is exactly what was shown there.                   *)
(***************************************************************************)
ImplementsProgramme == Plan!Spec

=============================================================================
