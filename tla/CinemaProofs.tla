---------------------------- MODULE CinemaProofs ----------------------------
(***************************************************************************)
(* Proofs about Scheduling, then about Catalogue, for any halls, movies,   *)
(* screenings and calls.                                                   *)
(***************************************************************************)
EXTENDS Scheduling, Catalogue, TLAPS

-----------------------------------------------------------------------------
(* Scheduling: types                                                       *)

\* What a call is about, by its operation.
LEMMA JobKinds ==
    ASSUME TypeOK, NEW a \in Admins, pc[a] # "idle"
    PROVE  /\ job[a] \in Edit \cup Removal
           /\ job[a].op \in {"create", "update"} => job[a] \in Edit
           /\ job[a].op \in {"cancel", "delete"} => job[a].id \in Screens
           /\ job[a].op = "deleteRow" => job[a].id \in Halls \cup Movies
           /\ job[a].op \in {"create", "update"} => job[a].id \in Screens
BY DEF TypeOK, Edit, Removal

\* An update leaves a placement.
LEMMA RevisedType ==
    ASSUME NEW j \in Edit, place[j.id] \in Placement
    PROVE  Revised(j) \in Placement
BY DEF Revised, Edit, Placement, Fields

\* The empty database has the right types.
LEMMA SchedulingTypeInit == Init => TypeOK
BY DEF Init, TypeOK, RowState, ScreenStatus

\* Ending a call keeps the types of the calls.
LEMMA EndType ==
    ASSUME TypeOK, NEW a \in Admins, End(a)
    PROVE  /\ pc' \in [Admins -> {"idle", "check", "write"}]
           /\ job' \in [Admins -> Edit \cup Removal \cup {NULL}]
           /\ \A b \in Admins : pc'[b] # "idle" => job'[b] # NULL
BY DEF TypeOK, End

\* So does beginning one.
LEMMA BeginType ==
    ASSUME TypeOK, NEW a \in Admins, NEW j \in Edit \cup Removal, Begin(a, j)
    PROVE  TypeOK'
BY NullIsNoRecord DEF TypeOK, Begin, catalogue, screenVars

\* Every step keeps the types.
LEMMA SchedulingTypeStep ==
    ASSUME TypeOK, [Next]_vars
    PROVE  TypeOK'
<1> USE CinemaAssumption, SchedulingAssumption, NullIsNoRecord
<1>1. ASSUME NEW h \in Halls, CreateHall(h)
      PROVE  TypeOK'
    BY <1>1 DEF CreateHall, TypeOK, RowState, screenVars, adminVars
<1>2. ASSUME NEW m \in Movies, CreateMovie(m) \/ UpdateMovie(m)
      PROVE  TypeOK'
    <2>1. duration' \in [Movies -> Nat]
        BY <1>2 DEF CreateMovie, UpdateMovie, TypeOK
    <2>2. row' \in [Halls \cup Movies -> RowState]
        BY <1>2 DEF CreateMovie, UpdateMovie, TypeOK, RowState
    <2>3. QED
        BY <1>2, <2>1, <2>2
        DEF CreateMovie, UpdateMovie, TypeOK, screenVars, adminVars
<1>3. ASSUME NEW r \in Ids, ReadScreening(r) \/ InsertReservation(r) \/ ReserveFails(r)
      PROVE  TypeOK'
    <2>1. readHall' \in [Ids -> Halls \cup {NULL}]
        BY <1>3 DEF ReadScreening, InsertReservation, ReserveFails, TypeOK,
            Placement, ScreenStatus
    <2>2. QED
        BY <1>3, <2>1 DEF ReadScreening, InsertReservation, ReserveFails, TypeOK,
            catalogue, screenVars, adminVars
<1>4. ASSUME NEW a \in Admins, NEW s \in Screens, NEW p \in Placement,
             CreateScreening(a, s, p)
      PROVE  TypeOK'
    <2>1. duration[p.movie] \in Nat
        BY DEF TypeOK, Placement
    <2>2. [op |-> "create", id |-> s, given |-> Fields, new |-> p,
           length |-> duration[p.movie]] \in Edit
        BY <2>1 DEF Edit
    <2>3. QED
        BY <1>4, <2>2, BeginType DEF CreateScreening
<1>5. ASSUME NEW a \in Admins, NEW s \in Screens, NEW p \in Placement,
             NEW given \in SUBSET Fields, UpdateScreening(a, s, p, given)
      PROVE  TypeOK'
    <2>1. duration[p.movie] \in Nat
        BY DEF TypeOK, Placement
    <2>2. [op |-> "update", id |-> s, given |-> given, new |-> p,
           length |-> duration[p.movie]] \in Edit
        BY <2>1 DEF Edit
    <2>3. QED
        BY <1>5, <2>2, BeginType DEF UpdateScreening
<1>6. ASSUME NEW a \in Admins, NEW s \in Screens,
             CancelScreening(a, s) \/ DeleteScreening(a, s)
      PROVE  TypeOK'
    <2>1. /\ [op |-> "cancel", id |-> s] \in Removal
          /\ [op |-> "delete", id |-> s] \in Removal
        BY DEF Removal
    <2>2. QED
        BY <1>6, <2>1, BeginType DEF CancelScreening, DeleteScreening
<1>7. ASSUME NEW a \in Admins, NEW x \in Halls \cup Movies, DeleteRow(a, x)
      PROVE  TypeOK'
    <2>1. [op |-> "deleteRow", id |-> x] \in Removal
        BY DEF Removal
    <2>2. QED
        BY <1>7, <2>1, BeginType DEF DeleteRow
<1>8. ASSUME NEW a \in Admins, CheckEdit(a) \/ CheckRemoval(a)
      PROVE  TypeOK'
    BY <1>8 DEF CheckEdit, CheckRemoval, TypeOK, catalogue, screenVars
<1>9. ASSUME NEW a \in Admins, WriteNew(a)
      PROVE  TypeOK'
    <2>1. job[a].id \in Screens /\ job[a].new \in Placement /\ job[a].new # NULL
        BY <1>9, JobKinds DEF WriteNew, Edit, Placement, HasRow
    <2>2. QED
        BY <1>9, <2>1, EndType DEF WriteNew, TypeOK, ScreenStatus, catalogue
<1>10. ASSUME NEW a \in Admins, WriteEdit(a)
      PROVE  TypeOK'
    <2>1. job[a].id \in Screens
        BY <1>10, JobKinds DEF WriteEdit
    <2>2. place[job[a].id] \in Placement
        BY <1>10, <2>1 DEF WriteEdit, Exists, TypeOK
    <2>3. Revised(job[a]) \in Placement
        BY <1>10, <2>2, RevisedType, JobKinds DEF WriteEdit
    <2>4. QED
        BY <1>10, <2>1, <2>3, EndType DEF WriteEdit, TypeOK, catalogue
<1>11. ASSUME NEW a \in Admins, SetCancelled(a)
      PROVE  TypeOK'
    <2>1. job[a].id \in Screens
        BY <1>11, JobKinds DEF SetCancelled
    <2>2. QED
        BY <1>11, <2>1, EndType DEF SetCancelled, Exists, TypeOK, ScreenStatus, catalogue
<1>12. ASSUME NEW a \in Admins, Remove(a)
      PROVE  TypeOK'
    <2>1. row' \in [Halls \cup Movies -> RowState]
        BY <1>12, JobKinds DEF Remove, TypeOK, RowState
    <2>2. ASSUME NEW S, NEW x, Cascade(S, x), S \subseteq {s \in Screens : Exists(s)}
          PROVE  /\ status' \in [Screens -> ScreenStatus]
                 /\ \A s \in Screens : status'[s] # "NONE" => place'[s] # NULL
                 /\ booked' \subseteq Ids
                 /\ UNCHANGED <<duration, place, readHall>>
        BY <2>2 DEF Cascade, TypeOK, ScreenStatus, Exists
    <2>3. job[a].op = "deleteRow" => ScreensOf(job[a].id) \subseteq {s \in Screens : Exists(s)}
        BY DEF ScreensOf
    <2>4. job[a].op = "delete" /\ Exists(job[a].id) => {job[a].id} \subseteq {s \in Screens : Exists(s)}
        BY <1>12, JobKinds DEF Remove
    <2>5. /\ status' \in [Screens -> ScreenStatus]
          /\ \A s \in Screens : status'[s] # "NONE" => place'[s] # NULL
          /\ booked' \subseteq Ids
          /\ UNCHANGED <<duration, place, readHall>>
        BY <1>12, <2>2, <2>3, <2>4 DEF Remove
    <2>6. QED
        BY <1>12, <2>1, <2>5, EndType DEF Remove, TypeOK
<1>13. ASSUME NEW a \in Admins, CallFails(a)
      PROVE  TypeOK'
    BY <1>13, EndType DEF CallFails, TypeOK, catalogue, screenVars
<1>14. CASE UNCHANGED vars
    BY <1>14 DEF vars, TypeOK, catalogue, screenVars, adminVars
<1>15. QED
    BY <1>1, <1>2, <1>3, <1>4, <1>5, <1>6, <1>7, <1>8, <1>9, <1>10, <1>11,
       <1>12, <1>13, <1>14 DEF Next, AdminBegins, AdminGoesOn

(***************************************************************************)
(* The rows of halls, movies and screenings, and what the calls remember,  *)
(* keep their types.                                                       *)
(***************************************************************************)
THEOREM SchedulingTypeCorrect == Spec => []TypeOK
BY SchedulingTypeInit, SchedulingTypeStep, PTL DEF Spec

-----------------------------------------------------------------------------
(* Cancelled screenings                                                    *)

\* The id of a screening that is being created is fresh: autoincrement.
IdInv ==
    \A a \in Admins : pc[a] # "idle" /\ job[a].op = "create" =>
        /\ status[job[a].id] = "NONE"
        /\ \A b \in Admins : b # a /\ job[b] # NULL => job[b].id # job[a].id

\* Every step keeps fresh ids fresh, and screenings out of CANCELLED only by
\* deletion.
LEMMA CancelStep ==
    ASSUME TypeOK, IdInv, [Next]_vars
    PROVE  /\ IdInv'
           /\ \A s \in Screens :
                /\ status[s] = "CANCELLED" => status'[s] \in {"CANCELLED", "GONE"}
                /\ status[s] = "GONE" => status'[s] = "GONE"
<1> DEFINE Final == \A s \in Screens :
                /\ status[s] = "CANCELLED" => status'[s] \in {"CANCELLED", "GONE"}
                /\ status[s] = "GONE" => status'[s] = "GONE"
<1>q. SUFFICES IdInv' /\ Final
    OBVIOUS
<1>k. \A a \in Admins : pc[a] # "idle" =>
        /\ job[a].op \in {"create", "update", "cancel", "delete"} => job[a].id \in Screens
        /\ job[a] # NULL
    BY JobKinds, NullIsNoRecord
<1>1. ASSUME UNCHANGED <<status, adminVars>>
      PROVE  IdInv' /\ Final
    BY <1>1 DEF IdInv, adminVars
<1>2. ASSUME NEW a \in Admins, NEW s \in Screens, NEW p \in Placement,
             CreateScreening(a, s, p)
      PROVE  IdInv' /\ Final
    <2>1. job'[a].id = s /\ status[s] = "NONE" /\ \A b \in Admins : job[b] # NULL => job[b].id # s
        BY <1>2 DEF CreateScreening, Begin, TypeOK
    <2>2. \A b \in Admins \ {a} : job'[b] = job[b] /\ pc'[b] = pc[b]
        BY <1>2 DEF CreateScreening, Begin, TypeOK
    <2>3. UNCHANGED status
        BY <1>2 DEF CreateScreening, Begin, screenVars
    <2>4. QED
        BY <2>1, <2>2, <2>3, <1>k DEF IdInv
<1>3. ASSUME NEW a \in Admins, NEW j, Begin(a, j), j.op # "create",
             j.id \in Screens => status[j.id] # "NONE"
      PROVE  IdInv' /\ Final
    <2>1. job'[a] = j
        BY <1>3 DEF Begin, TypeOK
    <2>2. \A b \in Admins \ {a} : job'[b] = job[b] /\ pc'[b] = pc[b]
        BY <1>3 DEF Begin, TypeOK
    <2>3. UNCHANGED status
        BY <1>3 DEF Begin, screenVars
    <2>4. QED
        BY <1>3, <2>1, <2>2, <2>3, <1>k DEF IdInv
<1>4. ASSUME NEW a \in Admins, NEW s \in Screens, NEW p \in Placement,
             NEW given \in SUBSET Fields, UpdateScreening(a, s, p, given)
      PROVE  IdInv' /\ Final
    BY <1>4, <1>3 DEF UpdateScreening, Exists
<1>5. ASSUME NEW a \in Admins, NEW s \in Screens,
             CancelScreening(a, s) \/ DeleteScreening(a, s)
      PROVE  IdInv' /\ Final
    BY <1>5, <1>3 DEF CancelScreening, DeleteScreening, Exists
<1>6. ASSUME NEW a \in Admins, NEW x \in Halls \cup Movies, DeleteRow(a, x)
      PROVE  IdInv' /\ Final
    <2>1. x \notin Screens
        BY CinemaAssumption, SchedulingAssumption
    <2>2. QED
        BY <1>6, <1>3, <2>1 DEF DeleteRow
<1>7. ASSUME NEW a \in Admins, CheckEdit(a) \/ CheckRemoval(a)
      PROVE  IdInv' /\ Final
    BY <1>7 DEF CheckEdit, CheckRemoval, IdInv, TypeOK, screenVars
\* A call ends: its own id is no concern any more.
<1>8. ASSUME NEW a \in Admins, End(a),
             \A b \in Admins : b # a /\ pc[b] # "idle" /\ job[b].op = "create" =>
                status'[job[b].id] = "NONE",
             Final
      PROVE  IdInv' /\ Final
    BY <1>8 DEF IdInv, End, TypeOK
<1>9. ASSUME NEW a \in Admins, WriteNew(a)
      PROVE  IdInv' /\ Final
    <2>1. job[a].id \in Screens /\ status[job[a].id] = "NONE" /\ job[a] # NULL
        BY <1>9, <1>k DEF WriteNew, IdInv
    <2>2. status' = [status EXCEPT ![job[a].id] = "SCHEDULED"]
        BY <1>9 DEF WriteNew
    <2>3. Final
        BY <2>1, <2>2 DEF TypeOK
    <2>4. \A b \in Admins : b # a /\ pc[b] # "idle" /\ job[b].op = "create" =>
            status'[job[b].id] = "NONE"
        BY <2>1, <2>2, <1>k DEF IdInv, TypeOK
    <2>5. QED
        BY <1>8, <1>9, <2>3, <2>4 DEF WriteNew
<1>10. ASSUME NEW a \in Admins, WriteEdit(a) \/ CallFails(a)
      PROVE  IdInv' /\ Final
    <2>1. UNCHANGED status /\ End(a)
        BY <1>10 DEF WriteEdit, CallFails, screenVars
    <2>2. QED
        BY <1>8, <2>1 DEF IdInv
<1>11. ASSUME NEW a \in Admins, SetCancelled(a)
      PROVE  IdInv' /\ Final
    <2>1. job[a].id \in Screens /\ Exists(job[a].id)
        BY <1>11, <1>k DEF SetCancelled
    <2>2. status' = [status EXCEPT ![job[a].id] = "CANCELLED"]
        BY <1>11 DEF SetCancelled
    <2>3. \A b \in Admins : b # a /\ pc[b] # "idle" /\ job[b].op = "create" =>
            status'[job[b].id] = "NONE"
        BY <2>1, <2>2, <1>k DEF IdInv, TypeOK, Exists
    <2>4. QED
        BY <1>8, <1>11, <2>1, <2>2, <2>3 DEF SetCancelled, TypeOK, Exists
<1>12. ASSUME NEW a \in Admins, Remove(a)
      PROVE  IdInv' /\ Final
    <2>1. PICK S \in SUBSET {s \in Screens : Exists(s)} :
            status' = [s \in Screens |-> IF s \in S THEN "GONE" ELSE status[s]]
        <3>1. job[a].op = "delete" => job[a].id \in Screens
            BY <1>12, <1>k DEF Remove
        <3>2. ScreensOf(job[a].id) \in SUBSET {s \in Screens : Exists(s)}
            BY DEF ScreensOf
        <3>3. QED
            BY <1>12, <3>1, <3>2 DEF Remove, Cascade
    <2>2. \A b \in Admins : b # a /\ pc[b] # "idle" /\ job[b].op = "create" =>
            status'[job[b].id] = "NONE"
        BY <2>1, <1>k DEF IdInv, Exists
    <2>3. Final
        BY <2>1
    <2>4. QED
        BY <1>8, <1>12, <2>2, <2>3 DEF Remove
<1>13. QED
    BY <1>1, <1>2, <1>4, <1>5, <1>6, <1>7, <1>9, <1>10, <1>11, <1>12
    DEF Next, AdminBegins, AdminGoesOn, CreateHall, CreateMovie, UpdateMovie,
        ReadScreening, InsertReservation, ReserveFails, screenVars, vars

(***************************************************************************)
(* However updates, cancellations and deletions interleave, a cancelled    *)
(* screening is never scheduled again.                                     *)
(***************************************************************************)
THEOREM CancelledForEver == Spec => CancelIsFinal
<1>1. Init => IdInv
    BY DEF Init, IdInv
<1>2. TypeOK /\ IdInv /\ [Next]_vars =>
        /\ IdInv'
        /\ [\A s \in Screens :
            /\ status[s] = "CANCELLED" => status'[s] \in {"CANCELLED", "GONE"}
            /\ status[s] = "GONE" => status'[s] = "GONE"]_vars
    BY CancelStep
<1>3. QED
    BY <1>1, <1>2, SchedulingTypeCorrect, PTL DEF Spec, CancelIsFinal

-----------------------------------------------------------------------------
(* Foreign keys                                                            *)

\* Every step leaves rows with what they refer to.
LEMMA OrphansStep ==
    ASSUME TypeOK, IdInv, NoOrphans, [Next]_vars
    PROVE  NoOrphans'
<1> USE CinemaAssumption, SchedulingAssumption
<1>1. ASSUME UNCHANGED <<row, screenVars, booked>>
      PROVE  NoOrphans'
    BY <1>1 DEF NoOrphans, Exists, HasRow, screenVars
<1>2. ASSUME NEW x \in Halls \cup Movies, row' = [row EXCEPT ![x] = "ROW"],
             UNCHANGED <<screenVars, booked>>
      PROVE  NoOrphans'
    BY <1>2 DEF NoOrphans, Exists, HasRow, screenVars, TypeOK, Placement
<1>3. ASSUME NEW r \in Ids, InsertReservation(r)
      PROVE  NoOrphans'
    BY <1>3 DEF InsertReservation, NoOrphans, Exists, HasRow, catalogue, screenVars
<1>4. ASSUME NEW a \in Admins, WriteNew(a)
      PROVE  NoOrphans'
    <2>1. job[a].id \in Screens
        BY <1>4, JobKinds DEF WriteNew
    <2>2. QED
        BY <1>4, <2>1 DEF WriteNew, NoOrphans, Exists, HasRow, catalogue, TypeOK
<1>5. ASSUME NEW a \in Admins, WriteEdit(a)
      PROVE  NoOrphans'
    <2>1. job[a].id \in Screens /\ Exists(job[a].id)
        BY <1>5, JobKinds DEF WriteEdit
    <2>2. HasRow(Revised(job[a]).hall) /\ HasRow(Revised(job[a]).movie)
        BY <1>5, <2>1 DEF WriteEdit, Revised, Fields, NoOrphans
    <2>3. QED
        BY <1>5, <2>1, <2>2 DEF WriteEdit, NoOrphans, Exists, HasRow, catalogue, TypeOK
<1>6. ASSUME NEW a \in Admins, SetCancelled(a)
      PROVE  NoOrphans'
    <2>1. job[a].id \in Screens
        BY <1>6, JobKinds DEF SetCancelled
    <2>2. QED
        BY <1>6, <2>1 DEF SetCancelled, NoOrphans, Exists, HasRow, catalogue, TypeOK
<1>7. ASSUME NEW a \in Admins, Remove(a)
      PROVE  NoOrphans'
    <2>1. CASE job[a].op = "delete"
        BY <1>7, <2>1 DEF Remove, Cascade, NoOrphans, Exists, HasRow, TypeOK
    <2>2. CASE job[a].op = "deleteRow"
        <3>1. job[a].id \in Halls \cup Movies
            BY <1>7, <2>2, JobKinds DEF Remove
        <3>2. QED
            BY <1>7, <2>2, <3>1
            DEF Remove, Cascade, ScreensOf, NoOrphans, Exists, HasRow, TypeOK, Placement
    <2>3. QED
        BY <1>7, <2>1, <2>2 DEF Remove
<1>8. QED
    BY <1>1, <1>2, <1>3, <1>4, <1>5, <1>6, <1>7
    DEF Next, AdminBegins, AdminGoesOn, CreateHall, CreateMovie, UpdateMovie,
        ReadScreening, ReserveFails, CreateScreening, UpdateScreening,
        CancelScreening, DeleteScreening, DeleteRow, Begin, CheckEdit,
        CheckRemoval, CallFails, screenVars, catalogue, vars

(***************************************************************************)
(* Deleting halls, movies and screenings under customers and other         *)
(* administrators leaves no row that refers to a missing one.              *)
(***************************************************************************)
THEOREM NothingOrphaned == Spec => []NoOrphans
<1>1. Init => IdInv /\ NoOrphans
    BY DEF Init, IdInv, NoOrphans, Exists
<1>2. TypeOK /\ IdInv /\ NoOrphans /\ [Next]_vars => IdInv' /\ NoOrphans'
    BY CancelStep, OrphansStep
<1>3. QED
    BY <1>1, <1>2, SchedulingTypeCorrect, PTL DEF Spec

-----------------------------------------------------------------------------
(* Scheduling implements the abstract programme                            *)

\* What a step that writes no row leaves alone.
LEMMA PlanStays ==
    ASSUME UNCHANGED <<row, status, place>>
    PROVE  UNCHANGED <<row, status, Venue>>
BY DEF Venue, Exists

\* The placement of a screening that is there.
LEMMA PlaceType ==
    ASSUME TypeOK, NEW s \in Screens, Exists(s)
    PROVE  place[s] \in Placement /\ place[s].hall \in Halls /\ place[s].movie \in Movies
BY DEF TypeOK, Exists, Placement

\* One screening is put somewhere.
LEMMA VenueWritten ==
    ASSUME NEW s \in Screens, NEW p, place \in [Screens -> Placement \cup {NULL}],
           place' = [place EXCEPT ![s] = p],
           status'[s] \in {"SCHEDULED", "CANCELLED"},
           \A u \in Screens \ {s} : status'[u] = status[u]
    PROVE  Venue' = [Venue EXCEPT ![s] = [hall |-> p.hall, movie |-> p.movie]]
BY DEF Venue, Exists

\* A set of screenings goes, with whatever reservations.
LEMMA CascadeWithdraws ==
    ASSUME NEW S \in SUBSET Screens, NEW x, Cascade(S, x)
    PROVE  Plan!Withdraw(S)
BY DEF Cascade, Plan!Withdraw, Venue, Exists

\* Every step is one of the abstract programme, or none.
LEMMA PlanStep ==
    ASSUME TypeOK, IdInv, NoOrphans, [Next]_vars
    PROVE  [Plan!Next]_<<row, status, Venue>>
<1> USE CinemaAssumption, SchedulingAssumption
<1>p. \A s : Plan!OnProgramme(s) <=> Exists(s)
    BY DEF Plan!OnProgramme, Exists
<1>1. ASSUME UNCHANGED <<row, status, place>>
      PROVE  UNCHANGED <<row, status, Venue>>
    BY <1>1, PlanStays
<1>2. ASSUME NEW x \in Halls \cup Movies, row[x] = "NONE", row' = [row EXCEPT ![x] = "ROW"],
             UNCHANGED screenVars
      PROVE  Plan!Add(x)
    BY <1>2 DEF Plan!Add, Venue, Exists, screenVars
<1>3. ASSUME NEW a \in Admins, WriteNew(a)
      PROVE  \E s \in Screens : \E h \in Halls, m \in Movies : Plan!Place(s, h, m)
    <2> DEFINE s == job[a].id
               p == job[a].new
    <2>1. s \in Screens /\ p \in Placement /\ status[s] = "NONE"
        BY <1>3, JobKinds DEF WriteNew, Edit, IdInv
    <2>2. status' = [status EXCEPT ![s] = "SCHEDULED"] /\ UNCHANGED row
            /\ HasRow(p.hall) /\ HasRow(p.movie)
        BY <1>3 DEF WriteNew, catalogue
    <2>3. Venue' = [Venue EXCEPT ![s] = [hall |-> p.hall, movie |-> p.movie]]
        BY <1>3, <2>1, <2>2, VenueWritten DEF WriteNew, TypeOK
    <2>4. p.hall \in Halls /\ p.movie \in Movies
        BY <2>1 DEF Placement
    <2>5. QED
        BY <2>1, <2>2, <2>3, <2>4 DEF Plan!Place, HasRow
<1>4. ASSUME NEW a \in Admins, WriteEdit(a)
      PROVE  \E s \in Screens : \E h \in Halls, m \in Movies : Plan!Place(s, h, m)
    <2> DEFINE s == job[a].id
               p == Revised(job[a])
    <2>1. s \in Screens /\ Exists(s) /\ UNCHANGED <<row, status>>
        BY <1>4, JobKinds DEF WriteEdit, catalogue
    <2>2. p \in Placement
        BY <1>4, <2>1, PlaceType, RevisedType, JobKinds DEF WriteEdit
    <2>3. HasRow(p.hall) /\ HasRow(p.movie)
        BY <1>4, <2>1 DEF WriteEdit, Revised, Fields, NoOrphans
    <2>4. Venue' = [Venue EXCEPT ![s] = [hall |-> p.hall, movie |-> p.movie]]
        BY <1>4, <2>1, VenueWritten DEF WriteEdit, TypeOK, Exists
    <2>5. p.hall \in Halls /\ p.movie \in Movies
        BY <2>2 DEF Placement
    <2>6. QED
        BY <1>p, <2>1, <2>3, <2>4, <2>5 DEF Plan!Place, HasRow
<1>5. ASSUME NEW a \in Admins, SetCancelled(a)
      PROVE  \E s \in Screens : Plan!Cancel(s)
    <2> DEFINE s == job[a].id
    <2>1. s \in Screens /\ Exists(s) /\ UNCHANGED <<row, place>>
            /\ status' = [status EXCEPT ![s] = "CANCELLED"]
        BY <1>5, JobKinds DEF SetCancelled, catalogue
    <2>2. UNCHANGED Venue
        BY <2>1 DEF Venue, Exists, TypeOK
    <2>3. QED
        BY <1>p, <2>1, <2>2 DEF Plan!Cancel
<1>6. ASSUME NEW a \in Admins, Remove(a), job[a].op = "delete"
      PROVE  \E s \in Screens : Plan!DeleteScreening(s)
    <2>1. job[a].id \in Screens
        BY <1>6, JobKinds DEF Remove
    <2>2. Exists(job[a].id) /\ Cascade({job[a].id}, NULL) /\ UNCHANGED row
        BY <1>6 DEF Remove
    <2>3. QED
        BY <1>p, <2>1, <2>2, CascadeWithdraws DEF Plan!DeleteScreening
<1>7. ASSUME NEW a \in Admins, Remove(a), job[a].op # "delete"
      PROVE  \E x \in Halls \cup Movies : Plan!Delete(x)
    <2> DEFINE x == job[a].id
    <2>1. /\ x \in Halls \cup Movies /\ row[x] = "ROW"
          /\ Cascade(ScreensOf(x), x) /\ row' = [row EXCEPT ![x] = "GONE"]
        BY <1>7, JobKinds DEF Remove, HasRow
    <2>2. ScreensOf(x) = {s \in Screens : Plan!OnProgramme(s)
                                           /\ x \in {Venue[s].hall, Venue[s].movie}}
        BY <1>p DEF ScreensOf, Venue
    <2>3. Plan!Withdraw(ScreensOf(x))
        BY <2>1, CascadeWithdraws DEF ScreensOf
    <2>4. QED
        BY <2>1, <2>2, <2>3 DEF Plan!Delete
<1>8. QED
    BY <1>1, <1>2, <1>3, <1>4, <1>5, <1>6, <1>7
    DEF Next, AdminBegins, AdminGoesOn, CreateHall, CreateMovie, UpdateMovie,
        ReadScreening, InsertReservation, ReserveFails, CreateScreening, UpdateScreening,
        CancelScreening, DeleteScreening, DeleteRow, Begin, CheckEdit,
        CheckRemoval, CallFails, screenVars, catalogue, vars, Plan!Next

(***************************************************************************)
(* However the lookups, checks and writes of administrators and customers  *)
(* interleave, each statement is a step of the abstract programme.  An     *)
(* update that leaves out hall or movie keeps the ones of the row, which   *)
(* the foreign keys have kept in place (NoOrphans).                        *)
(***************************************************************************)
THEOREM SchedulingRefinesProgramme == Spec => ImplementsProgramme
<1>1. Init => IdInv /\ NoOrphans /\ Plan!Init
    BY DEF Init, IdInv, NoOrphans, Exists, Plan!Init, Venue
<1>2. TypeOK /\ IdInv /\ NoOrphans /\ [Next]_vars => IdInv' /\ NoOrphans'
    BY CancelStep, OrphansStep
<1>3. TypeOK /\ IdInv /\ NoOrphans /\ [Next]_vars => [Plan!Next]_<<row, status, Venue>>
    BY PlanStep
<1>4. QED
    BY <1>1, <1>2, <1>3, SchedulingTypeCorrect, PTL
    DEF Spec, ImplementsProgramme, Plan!Spec, Plan!vars

-----------------------------------------------------------------------------
(* Overlap                                                                 *)

\* No movie is recut.
FixedLengths == \A m \in Movies : \A d, e \in Cuts[m] : d = e

Editing(a) == pc[a] # "idle" /\ job[a].op \in {"create", "update"}

(***************************************************************************)
(* Of the calls that create or update screenings and run at the same time, *)
(* no two are about one screening or put screenings into one hall: what a  *)
(* lock on both would give.  Cancellations and deletions run freely.       *)
(***************************************************************************)
OneEditPerHall ==
    \A a, b \in Admins : a # b /\ Editing(a) /\ Editing(b) =>
        job[a].id # job[b].id /\ job[a].new.hall # job[b].new.hall

(***************************************************************************)
(* What a call has read is still true when it writes, so the check it      *)
(* passed is too.                                                          *)
(***************************************************************************)
CheckHolds(a) ==
    LET j == job[a] IN
    Editing(a) =>
        /\ row[j.new.movie] # "NONE"
        /\ j.length = duration[j.new.movie]
        /\ j.op = "update" =>
            \A f \in Fields \ j.given : j.new[f] = place[j.id][f]
        /\ pc[a] = "write" =>
            \A s \in Screens :
                /\ s # j.id
                /\ status[s] = "SCHEDULED"
                /\ place[s].hall = j.new.hall
                => ~ Overlap(j.new.start, j.length,
                             place[s].start, duration[place[s].movie])

OverlapInv ==
    /\ NoOverlap
    /\ \A m \in Movies : row[m] # "NONE" => duration[m] \in Cuts[m]
    /\ \A a \in Admins : CheckHolds(a)

\* Durations of movies that exist do not change.
LEMMA DurationsFixed ==
    ASSUME FixedLengths, TypeOK, OverlapInv, NEW m \in Movies,
           CreateMovie(m) \/ UpdateMovie(m)
    PROVE  /\ \A n \in Movies : row[n] # "NONE" => duration'[n] = duration[n]
           /\ \A n \in Movies : row[n] # "NONE" => row'[n] # "NONE"
           /\ \A n \in Movies : row'[n] # "NONE" => duration'[n] \in Cuts[n]
<1>1. CASE CreateMovie(m)
    BY <1>1 DEF CreateMovie, TypeOK, OverlapInv
<1>2. CASE UpdateMovie(m)
    BY <1>2 DEF UpdateMovie, TypeOK, OverlapInv, FixedLengths, HasRow
<1>3. QED
    BY <1>1, <1>2

\* Every step keeps the halls free of overlaps as long as edits keep apart.
LEMMA OverlapStep ==
    ASSUME FixedLengths, OneEditPerHall, TypeOK, IdInv, NoOrphans, OverlapInv, [Next]_vars
    PROVE  OverlapInv'
<1> USE CinemaAssumption, SchedulingAssumption
<1>p. \A s \in Screens : status[s] = "SCHEDULED" =>
        /\ place[s] \in Placement
        /\ row[place[s].movie] # "NONE"
        /\ place[s].movie \in Movies
    BY DEF NoOrphans, Exists, HasRow, TypeOK, Placement
<1>e. \A a \in Admins : Editing(a) =>
        /\ job[a].id \in Screens
        /\ job[a].new \in Placement
        /\ job[a].new.movie \in Movies
    BY JobKinds DEF Editing, Edit, Placement
\* Customers change nothing that OverlapInv speaks of.
<1>1. ASSUME UNCHANGED <<row, duration, screenVars, adminVars>>
      PROVE  OverlapInv'
    BY <1>1 DEF OverlapInv, NoOverlap, CheckHolds, Editing, Overlap, screenVars, adminVars
<1>2. ASSUME NEW h \in Halls, CreateHall(h)
      PROVE  OverlapInv'
    <2>1. \A m \in Movies : row'[m] = row[m]
        BY <1>2 DEF CreateHall, TypeOK
    <2>2. QED
        BY <1>2, <1>e, <2>1
        DEF CreateHall, OverlapInv, NoOverlap, CheckHolds, Editing, Overlap, screenVars, adminVars
<1>3. ASSUME NEW m \in Movies, CreateMovie(m) \/ UpdateMovie(m)
      PROVE  OverlapInv'
    <2>1. /\ \A n \in Movies : row[n] # "NONE" => duration'[n] = duration[n]
          /\ \A n \in Movies : row[n] # "NONE" => row'[n] # "NONE"
          /\ \A n \in Movies : row'[n] # "NONE" => duration'[n] \in Cuts[n]
        BY <1>3, DurationsFixed
    <2>2. UNCHANGED <<status, place, pc, job>>
        BY <1>3 DEF CreateMovie, UpdateMovie, screenVars, adminVars
    <2>3. NoOverlap'
        BY <1>p, <2>1, <2>2 DEF OverlapInv, NoOverlap
    <2>4. \A a \in Admins : CheckHolds(a)'
        BY <1>p, <1>e, <2>1, <2>2 DEF OverlapInv, CheckHolds, Editing, Overlap
    <2>5. QED
        BY <2>1, <2>3, <2>4 DEF OverlapInv
\* A call that is at the same place, while no screening came to its hall.
<1>4. ASSUME NEW b \in Admins, pc'[b] = pc[b], job'[b] = job[b], UNCHANGED duration,
             \A m \in Movies : row[m] # "NONE" => row'[m] # "NONE",
             Editing(b) => place'[job[b].id] = place[job[b].id],
             Editing(b) => \A s \in Screens :
                status'[s] = "SCHEDULED" /\ place'[s].hall = job[b].new.hall =>
                    status[s] = "SCHEDULED" /\ place'[s] = place[s]
      PROVE  CheckHolds(b)'
    <2>1. CheckHolds(b)
        BY DEF OverlapInv
    <2>2. SUFFICES ASSUME Editing(b)
                   PROVE  CheckHolds(b)'
        BY <1>4 DEF CheckHolds, Editing
    <2>3. QED
        BY <1>4, <1>e, <2>1, <2>2 DEF CheckHolds, Editing, Overlap
\* A call begins or passes its check, and the others are where they were.
<1>5. ASSUME NEW a \in Admins, UNCHANGED <<row, duration, status, place>>, CheckHolds(a)',
             \A b \in Admins \ {a} : pc'[b] = pc[b] /\ job'[b] = job[b]
      PROVE  OverlapInv'
    <2>1. \A b \in Admins \ {a} : CheckHolds(b)'
        BY <1>4, <1>5
    <2>2. QED
        BY <1>5, <2>1 DEF OverlapInv, NoOverlap
\* A call ends, and puts no screening into a hall where another one edits.
<1>6. ASSUME NEW a \in Admins, End(a), NoOverlap', UNCHANGED duration,
             \A m \in Movies : row'[m] # "NONE" <=> row[m] # "NONE",
             \A b \in Admins \ {a} : Editing(b) =>
                /\ place'[job[b].id] = place[job[b].id]
                /\ \A s \in Screens :
                    status'[s] = "SCHEDULED" /\ place'[s].hall = job[b].new.hall =>
                        status[s] = "SCHEDULED" /\ place'[s] = place[s]
      PROVE  OverlapInv'
    <2>1. \A b \in Admins \ {a} : pc'[b] = pc[b] /\ job'[b] = job[b]
        BY <1>6 DEF End, TypeOK
    <2>2. \A b \in Admins \ {a} : CheckHolds(b)'
        BY <1>4, <1>6, <2>1
    <2>3. CheckHolds(a)'
        BY <1>6 DEF End, CheckHolds, Editing, TypeOK
    <2>4. QED
        BY <1>6, <2>2, <2>3 DEF OverlapInv
<1>7. ASSUME NEW a \in Admins, NEW j, Begin(a, j),
             j.op \in {"create", "update"} =>
                /\ row[j.new.movie] # "NONE"
                /\ j.length = duration[j.new.movie]
                /\ j.op = "update" =>
                    \A f \in Fields \ j.given : j.new[f] = place[j.id][f]
      PROVE  OverlapInv'
    <2>1. /\ job'[a] = j /\ pc'[a] = "check"
          /\ \A b \in Admins \ {a} : pc'[b] = pc[b] /\ job'[b] = job[b]
        BY <1>7 DEF Begin, TypeOK
    <2>2. UNCHANGED <<row, duration, status, place>>
        BY <1>7 DEF Begin, catalogue, screenVars
    <2>3. CheckHolds(a)'
        BY <1>7, <2>1, <2>2 DEF CheckHolds, Editing
    <2>4. QED
        BY <1>5, <2>1, <2>2, <2>3
<1>8. ASSUME NEW a \in Admins, AdminBegins(a)
      PROVE  OverlapInv'
    BY <1>7, <1>8 DEF AdminBegins, CreateScreening, UpdateScreening,
        CancelScreening, DeleteScreening, DeleteRow, HasRow
<1>9. ASSUME NEW a \in Admins, CheckEdit(a)
      PROVE  OverlapInv'
    <2>1. /\ UNCHANGED <<row, duration, status, place, job>> /\ pc[a] = "check" /\ Editing(a)
          /\ \A b \in Admins \ {a} : pc'[b] = pc[b] /\ job'[b] = job[b]
        BY <1>9 DEF CheckEdit, catalogue, screenVars, Editing, TypeOK
    <2>2. \A s \in Screens :
                /\ s # job[a].id
                /\ status[s] = "SCHEDULED"
                /\ place[s].hall = job[a].new.hall
                => ~ Overlap(job[a].new.start, job[a].length,
                             place[s].start, duration[place[s].movie])
        BY <1>9 DEF CheckEdit, findOverlapping
    <2>3. CheckHolds(a)
        BY DEF OverlapInv
    <2>4. CheckHolds(a)'
        BY <2>1, <2>2, <2>3 DEF CheckHolds, Editing, Overlap
    <2>5. QED
        BY <1>5, <2>1, <2>4
<1>10. ASSUME NEW a \in Admins, CheckRemoval(a)
      PROVE  OverlapInv'
    <2>1. /\ UNCHANGED <<row, duration, status, place, job>>
          /\ \A b \in Admins \ {a} : pc'[b] = pc[b] /\ job'[b] = job[b]
        BY <1>10 DEF CheckRemoval, catalogue, screenVars, TypeOK
    <2>2. CheckHolds(a)'
        BY <1>10, <2>1 DEF CheckRemoval, CheckHolds, Editing
    <2>3. QED
        BY <1>5, <2>1, <2>2
\* A screening put where the check found nothing overlaps nothing.
<1>11. ASSUME NEW a \in Admins, pc[a] = "write", job[a].op \in {"create", "update"}, End(a),
             place' = [place EXCEPT ![job[a].id] = job[a].new], UNCHANGED <<row, duration>>,
             \A s \in Screens : s # job[a].id => status'[s] = status[s]
      PROVE  OverlapInv'
    <2> DEFINE i == job[a].id
    <2>1. i \in Screens /\ job[a].new \in Placement /\ Editing(a)
        BY <1>11, <1>e DEF Editing
    <2>2. place'[i] = job[a].new /\ \A s \in Screens \ {i} : place'[s] = place[s]
        BY <1>11, <2>1 DEF TypeOK
    <2>3. job[a].length = duration[job[a].new.movie]
        BY <2>1 DEF OverlapInv, CheckHolds
    <2>4. \A s \in Screens \ {i} :
                /\ status[s] = "SCHEDULED"
                /\ place[s].hall = job[a].new.hall
                => ~ (/\ job[a].new.start < place[s].start + duration[place[s].movie]
                      /\ place[s].start < job[a].new.start + duration[job[a].new.movie])
        BY <1>11, <2>1, <2>3 DEF OverlapInv, CheckHolds, Overlap
    <2>5. ASSUME NEW s \in Screens, NEW u \in Screens, s # u,
                 status'[s] = "SCHEDULED", status'[u] = "SCHEDULED",
                 place'[s].hall = place'[u].hall
          PROVE  ~ (/\ place'[s].start < place'[u].start + duration[place'[u].movie]
                    /\ place'[u].start < place'[s].start + duration[place'[s].movie])
        <3>1. CASE s = i
            BY <1>11, <2>2, <2>4, <2>5, <3>1
        <3>2. CASE u = i
            BY <1>11, <2>2, <2>4, <2>5, <3>2
        <3>3. CASE s # i /\ u # i
            BY <1>11, <2>2, <2>5, <3>3 DEF OverlapInv, NoOverlap
        <3>4. QED
            BY <3>1, <3>2, <3>3
    <2>6. NoOverlap'
        BY <1>11, <2>5 DEF NoOverlap
    <2>7. \A b \in Admins \ {a} : Editing(b) =>
            job[b].id # i /\ job[b].new.hall # job[a].new.hall
        BY <2>1 DEF OneEditPerHall
    <2>8. QED
        BY <1>6, <1>11, <1>e, <2>2, <2>6, <2>7
<1>12. ASSUME NEW a \in Admins, WriteNew(a)
      PROVE  OverlapInv'
    BY <1>11, <1>12 DEF WriteNew, TypeOK, catalogue
<1>13. ASSUME NEW a \in Admins, WriteEdit(a)
      PROVE  OverlapInv'
    <2>1. \A f \in Fields \ job[a].given : job[a].new[f] = place[job[a].id][f]
        BY <1>13 DEF WriteEdit, OverlapInv, CheckHolds, Editing
    <2>2. Revised(job[a]) = [f \in Fields |-> job[a].new[f]]
        BY <2>1 DEF Revised
    <2>3. job[a].new = [f \in Fields |-> job[a].new[f]]
        BY <1>13, <1>e DEF WriteEdit, Editing, Placement, Fields
    <2>4. QED
        BY <1>11, <1>13, <2>2, <2>3 DEF WriteEdit, catalogue
\* Cancellations and deletions only make room.
<1>14. ASSUME NEW a \in Admins, SetCancelled(a) \/ CallFails(a) \/ Remove(a)
      PROVE  OverlapInv'
    <2>1. \A s \in Screens : status'[s] = "SCHEDULED" => status[s] = "SCHEDULED"
        <3>1. CASE Remove(a)
            BY <3>1 DEF Remove, Cascade
        <3>2. CASE SetCancelled(a) \/ CallFails(a)
            BY <3>2, JobKinds DEF SetCancelled, CallFails, TypeOK, screenVars
        <3>3. QED
            BY <1>14, <3>1, <3>2
    <2>2. UNCHANGED <<duration, place>> /\ End(a)
        BY <1>14 DEF SetCancelled, CallFails, Remove, Cascade, screenVars, catalogue
    <2>3. \A m \in Movies : row'[m] # "NONE" <=> row[m] # "NONE"
        BY <1>14, JobKinds DEF SetCancelled, CallFails, Remove, HasRow, catalogue, TypeOK
    <2>4. NoOverlap'
        BY <2>1, <2>2 DEF OverlapInv, NoOverlap
    <2>5. QED
        BY <1>6, <2>1, <2>2, <2>3, <2>4
<1>15. QED
    BY <1>1, <1>2, <1>3, <1>8, <1>9, <1>10, <1>12, <1>13, <1>14
    DEF Next, AdminGoesOn, ReadScreening, InsertReservation, ReserveFails,
        catalogue, screenVars, adminVars, vars

(***************************************************************************)
(* assertNoOverlap works as long as movies keep their lengths and no two   *)
(* edits of one hall or one screening run at the same time: no screenings  *)
(* overlap in a hall, for any number of halls, movies, screenings and      *)
(* administrators, whatever is moved, cancelled or deleted meanwhile.  It  *)
(* is the lock that createScreening and updateScreening would need.        *)
(***************************************************************************)
THEOREM NoOverlapIfEditsApart ==
    ASSUME FixedLengths
    PROVE  Spec /\ []OneEditPerHall => []NoOverlap
<1>1. Init => IdInv /\ NoOrphans /\ OverlapInv
    BY DEF Init, IdInv, NoOrphans, Exists, OverlapInv, NoOverlap, CheckHolds, Editing
<1>2. OneEditPerHall /\ TypeOK /\ IdInv /\ NoOrphans /\ OverlapInv /\ [Next]_vars =>
        IdInv' /\ NoOrphans' /\ OverlapInv'
    BY FixedLengths, CancelStep, OrphansStep, OverlapStep
<1>3. OverlapInv => NoOverlap
    BY DEF OverlapInv
<1>4. QED
    BY <1>1, <1>2, <1>3, SchedulingTypeCorrect, PTL DEF Spec

(***************************************************************************)
(* In particular, one administrator at a time needs no lock.               *)
(***************************************************************************)
THEOREM NoOverlapAlone ==
    ASSUME FixedLengths, \A a, b \in Admins : a = b
    PROVE  Spec => []NoOverlap
<1>1. OneEditPerHall
    BY DEF OneEditPerHall
<1>2. QED
    BY <1>1, FixedLengths, NoOverlapIfEditsApart, PTL

-----------------------------------------------------------------------------
(* Seats and halls                                                         *)

\* A step that leaves screenings in their halls.
StaysInHall ==
    \A s \in Screens : Exists(s) /\ Exists(s)' => place'[s].hall = place[s].hall

\* Reservations are for seats of the hall the screening is in, from the
\* moment the screening is read.
SeatsInHall ==
    /\ \A r \in booked : place[ScreenOf[r]].hall = HallOf[r]
    /\ \A r \in Ids : readHall[r] # NULL /\ Exists(ScreenOf[r]) =>
            readHall[r] = place[ScreenOf[r]].hall
    /\ \A r \in Ids : readHall[r] # NULL => status[ScreenOf[r]] # "NONE"

(***************************************************************************)
(* hasReservations of a hall looks at the screenings that are in the hall, *)
(* the cascade of its deletion at the seats of the hall.  The check sees   *)
(* every reservation that the deletion would take along.                   *)
(***************************************************************************)
CheckSeesCascade ==
    \A h \in Halls :
        ~ hasReservations([op |-> "deleteRow", id |-> h]) => \A r \in booked : HallOf[r] # h

\* As long as no screening changes halls, every step keeps the seats there.
LEMMA SeatsStep ==
    ASSUME TypeOK, IdInv, NoOrphans, SeatsInHall, [Next]_vars, [StaysInHall]_vars
    PROVE  SeatsInHall'
<1> USE CinemaAssumption, SchedulingAssumption
<1>1. ASSUME UNCHANGED <<status, place, booked, readHall>>
      PROVE  SeatsInHall'
    BY <1>1 DEF SeatsInHall, Exists
<1>2. ASSUME NEW r \in Ids, ReadScreening(r)
      PROVE  SeatsInHall'
    BY <1>2 DEF ReadScreening, SeatsInHall, Exists, TypeOK, screenVars
<1>3. ASSUME NEW r \in Ids, InsertReservation(r)
      PROVE  SeatsInHall'
    <2>1. readHall[r] # NULL /\ place[ScreenOf[r]].hall = HallOf[r]
        BY <1>3 DEF InsertReservation, SeatsInHall
    <2>2. QED
        BY <1>3, <2>1 DEF InsertReservation, SeatsInHall, Exists, TypeOK, screenVars
<1>4. ASSUME NEW r \in Ids, ReserveFails(r)
      PROVE  SeatsInHall'
    BY <1>4 DEF ReserveFails, SeatsInHall, Exists, TypeOK, screenVars
\* Nobody has read a screening that is not there yet.
<1>5. ASSUME NEW a \in Admins, WriteNew(a)
      PROVE  SeatsInHall'
    <2> DEFINE i == job[a].id
    <2>1. i \in Screens /\ status[i] = "NONE"
        BY <1>5, JobKinds DEF WriteNew, IdInv
    <2>2. /\ \A r \in booked : ScreenOf[r] # i
          /\ \A r \in Ids : readHall[r] # NULL => ScreenOf[r] # i
        BY <2>1 DEF SeatsInHall, NoOrphans, Exists
    <2>3. /\ \A s \in Screens \ {i} : status'[s] = status[s] /\ place'[s] = place[s]
          /\ UNCHANGED <<booked, readHall>>
        BY <1>5 DEF WriteNew, TypeOK
    <2>4. QED
        BY <2>2, <2>3 DEF SeatsInHall, Exists, TypeOK
\* An update, a cancellation or a deletion.
<1>6. ASSUME UNCHANGED readHall, booked' \subseteq booked, StaysInHall,
             \A s \in Screens : /\ Exists(s)' => Exists(s)
                                /\ status[s] # "NONE" => status'[s] # "NONE",
             \A r \in booked' : Exists(ScreenOf[r])'
      PROVE  SeatsInHall'
    BY <1>6 DEF SeatsInHall, StaysInHall, TypeOK
<1>7. ASSUME NEW a \in Admins, WriteEdit(a) \/ SetCancelled(a)
      PROVE  SeatsInHall'
    <2>1. StaysInHall
        <3>1. CASE SetCancelled(a)
            BY <3>1 DEF SetCancelled, StaysInHall
        <3>2. CASE WriteEdit(a)
            <4>1. pc'[a] # pc[a]
                BY <3>2 DEF WriteEdit, End, TypeOK
            <4>2. QED
                BY <4>1 DEF vars, adminVars
        <3>3. QED
            BY <1>7, <3>1, <3>2
    <2>2. \A s \in Screens : Exists(s)' <=> Exists(s)
        BY <1>7, JobKinds DEF WriteEdit, SetCancelled, Exists, TypeOK
    <2>3. \A s \in Screens : status[s] # "NONE" => status'[s] # "NONE"
        BY <1>7, JobKinds DEF WriteEdit, SetCancelled, TypeOK
    <2>4. UNCHANGED <<readHall, booked>>
        BY <1>7 DEF WriteEdit, SetCancelled
    <2>5. \A r \in booked' : Exists(ScreenOf[r])'
        BY <2>2, <2>4 DEF NoOrphans, TypeOK
    <2>6. QED
        BY <1>6, <2>1, <2>2, <2>3, <2>4, <2>5
<1>8. ASSUME NEW a \in Admins, Remove(a)
      PROVE  SeatsInHall'
    <2>1. UNCHANGED <<place, readHall>> /\ booked' \subseteq booked
        BY <1>8 DEF Remove, Cascade
    <2>2. \A s \in Screens : Exists(s)' => Exists(s)
        BY <1>8 DEF Remove, Cascade, Exists
    <2>3. \A s \in Screens : status[s] # "NONE" => status'[s] # "NONE"
        BY <1>8 DEF Remove, Cascade
    <2>4. \A r \in booked' : Exists(ScreenOf[r])'
        BY OrphansStep DEF NoOrphans
    <2>5. QED
        BY <1>6, <2>1, <2>2, <2>3, <2>4 DEF StaysInHall
<1>9. QED
    BY <1>1, <1>2, <1>3, <1>4, <1>5, <1>7, <1>8
    DEF Next, AdminBegins, AdminGoesOn, CreateHall, CreateMovie, UpdateMovie,
        CreateScreening, UpdateScreening, CancelScreening, DeleteScreening,
        DeleteRow, Begin, CheckEdit, CheckRemoval, CallFails, screenVars,
        catalogue, vars

(***************************************************************************)
(* As long as no update moves a screening to another hall, deleteHall's    *)
(* check covers what its cascade deletes.  updateScreening moves them      *)
(* without looking at reservations, and then it does not.                  *)
(***************************************************************************)
THEOREM HallCheckSeesCascade == Spec /\ [][StaysInHall]_vars => []CheckSeesCascade
<1>1. Init => IdInv /\ NoOrphans /\ SeatsInHall
    BY DEF Init, IdInv, NoOrphans, SeatsInHall, Exists
<1>2. TypeOK /\ IdInv /\ NoOrphans /\ SeatsInHall /\ [Next]_vars /\ [StaysInHall]_vars =>
        IdInv' /\ NoOrphans' /\ SeatsInHall'
    BY CancelStep, OrphansStep, SeatsStep
<1>3. TypeOK /\ NoOrphans /\ SeatsInHall => CheckSeesCascade
    <2>1. SUFFICES ASSUME TypeOK, NoOrphans, SeatsInHall, NEW h \in Halls,
                          NEW r \in booked, HallOf[r] = h
                   PROVE  hasReservations([op |-> "deleteRow", id |-> h])
        BY DEF CheckSeesCascade
    <2>2. ScreenOf[r] \in Screens /\ Exists(ScreenOf[r]) /\ place[ScreenOf[r]].hall = h
        BY <2>1, SchedulingAssumption DEF TypeOK, NoOrphans, SeatsInHall
    <2>3. ScreenOf[r] \in ScreensOf(h)
        BY <2>2 DEF ScreensOf
    <2>4. QED
        BY <2>1, <2>3 DEF hasReservations
<1>4. QED
    BY <1>1, <1>2, <1>3, SchedulingTypeCorrect, PTL DEF Spec

-----------------------------------------------------------------------------
(* Catalogue: types                                                        *)

\* What the locals of a call may be.
CallType(r) ==
    \/ r.at \in {"idle", "rows", "del"}
    \/ r.at = "fill" /\ r.asOf \in 0 .. now
    \/ r \in Jobs

\* What a call that is about to write may be.
LEMMA JobFields ==
    ASSUME CatalogueTypeOK, NEW c \in Calls, call[c].at = "write"
    PROVE  /\ call[c] \in Jobs
           /\ call[c].op \in {"updateMovie", "publish", "unpublish", "deleteMovie"} =>
                call[c].id \in Movies
           /\ call[c].op = "updateMovie" => call[c].new \in Editions
           /\ call[c].op \in {"createScreening", "updateScreening",
                              "cancelScreening", "deleteScreening"} =>
                call[c].id \in Screens
           /\ call[c].op = "createScreening" => call[c].new \in Placement
           /\ call[c].op = "updateScreening" => call[c].new \in Patches
           /\ call[c].op = "deleteHall" => call[c].id \in Halls
<1>1. call[c] \in Jobs
    BY DEF CatalogueTypeOK
<1>2. QED
    BY <1>1 DEF Jobs

\* One call moves on.
LEMMA CallMoves ==
    ASSUME CatalogueTypeOK, NEW c \in Calls, NEW r,
           call' = [call EXCEPT ![c] = r], UNCHANGED now, CallType(r)
    PROVE  /\ DOMAIN call' = Calls
           /\ \A d \in Calls : CallType(call[d])'
           /\ call'[c] = r
           /\ \A d \in Calls \ {c} : call'[d] = call[d]
BY DEF CatalogueTypeOK, CallType

\* Nothing but a call moves on.
LEMMA OnlyCallMoves ==
    ASSUME CatalogueTypeOK, NEW c \in Calls, NEW r, CallType(r),
           call' = [call EXCEPT ![c] = r],
           UNCHANGED <<now, key, tables>>,
           entry' = entry \/ entry' = NULL, excused' \in BOOLEAN
    PROVE  CatalogueTypeOK'
<1>1. /\ DOMAIN call' = Calls
      /\ \A d \in Calls : CallType(call[d])'
    BY CallMoves
<1>2. QED
    BY <1>1 DEF CatalogueTypeOK, CallType, tables

\* What the lookups leave in a call.
LEMMA JobsTyped ==
    /\ \A m \in Movies : \A x \in Editions : Job("updateMovie", m, m, x) \in Jobs
    /\ \A m \in Movies : /\ Job("publish", m, m, NULL) \in Jobs
                         /\ Job("unpublish", m, m, NULL) \in Jobs
                         /\ Job("deleteMovie", m, m, NULL) \in Jobs
    /\ \A s \in Screens : \A p \in Placement :
            Job("createScreening", s, p.movie, p) \in Jobs
    /\ \A s \in Screens : \A m \in Movies : \A p \in Patches :
            Job("updateScreening", s, m, p) \in Jobs
    /\ \A s \in Screens : \A m \in Movies :
            /\ Job("cancelScreening", s, m, NULL) \in Jobs
            /\ Job("deleteScreening", s, m, NULL) \in Jobs
    /\ \A h \in Halls : Job("deleteHall", h, NULL, NULL) \in Jobs
BY DEF Job, Jobs, Placement

\* The row of a screening.
LEMMA ShowFields ==
    ASSUME CatalogueTypeOK, NEW s \in Screens, HasShow(s)
    PROVE  show[s] \in Show /\ show[s].movie \in Movies /\ show[s].hall \in Halls
BY DEF CatalogueTypeOK, HasShow, Show, None, Gone

\* A row that an update leaves.
LEMMA PatchedType ==
    ASSUME NEW r \in Show, NEW p \in Patches
    PROVE  Patched(r, p) \in Show
<1>1. /\ p.movie \in Movies \cup {NULL} /\ p.hall \in Halls \cup {NULL}
      /\ p.start \in Starts \cup {NULL}
    BY CatalogueAssumption
<1>2. QED
    BY <1>1 DEF Patched, Or, Show

\* The empty tables and the empty cache have the right types.
LEMMA CatalogueTypeInit == CatalogueInit => CatalogueTypeOK
<1> SUFFICES ASSUME CatalogueInit PROVE CatalogueTypeOK
    OBVIOUS
<1>1. now \in 0 .. MaxTime
    BY CatalogueAssumption DEF CatalogueInit
<1>2. DOMAIN call = Calls /\ \A c \in Calls : call[c].at = "idle"
    BY DEF CatalogueInit, Idle
<1>3. QED
    BY <1>1, <1>2 DEF CatalogueInit, CatalogueTypeOK

\* Every step keeps the types.
LEMMA CatalogueTypeStep ==
    ASSUME CatalogueTypeOK, [CatalogueNext]_catalogueVars
    PROVE  CatalogueTypeOK'
<1> USE CinemaAssumption, CatalogueAssumption
<1>i. CallType(Idle) /\ CallType([at |-> "rows"]) /\ CallType([at |-> "del"]) /\ CallType(Loaded)
    BY DEF CallType, Idle, Loaded, CatalogueTypeOK
<1>b. excused \in BOOLEAN
    BY DEF CatalogueTypeOK
<1>t. key[1] \in Kinds /\ TTL[key[1]] \in Nat \ {0}
    <2>1. key[1] \in Kinds
        BY DEF CatalogueTypeOK, Keys, Kinds
    <2>2. QED
        BY <2>1
<1>1. ASSUME NEW c \in Calls, NEW kind, NEW r, CallType(r), Reads(c, kind, r)
      PROVE  CatalogueTypeOK'
    BY <1>1, <1>b, OnlyCallMoves DEF Reads
<1>2. ASSUME NEW c \in Calls, QueryScreenings(c)
      PROVE  CatalogueTypeOK'
    BY <1>2, <1>i, <1>b, OnlyCallMoves DEF QueryScreenings
<1>3. ASSUME NEW c \in Calls, NEW kind, Fill(c, kind)
      PROVE  CatalogueTypeOK'
    <2>1. call[c].asOf \in 0 .. MaxTime
        BY <1>3 DEF Fill, CatalogueTypeOK, Jobs
    <2>2. /\ DOMAIN call' = Calls
          /\ \A d \in Calls : CallType(call[d])'
        BY <1>3, <1>i, CallMoves DEF Fill
    <2>3. now + Life(kind) \in 1 .. MaxTime + TTL[key[1]]
        BY <1>3, <1>t DEF Fill, Life, CatalogueTypeOK
    <2>4. entry'.asOf \in 0 .. MaxTime /\ entry'.until \in 1 .. MaxTime + TTL[key[1]]
        BY <1>3, <2>1, <2>3 DEF Fill
    <2>5. QED
        BY <1>3, <2>2, <2>4 DEF Fill, CatalogueTypeOK, CallType, tables
<1>4. ASSUME NEW c \in Calls, NEW j \in Jobs, Lookup(c, j)
      PROVE  CatalogueTypeOK'
    BY <1>4, <1>b, OnlyCallMoves DEF Lookup, CallType
<1>5. ASSUME NEW c \in Calls, NEW m \in Movies,
             publish(c, m) \/ unpublish(c, m) \/ deleteMovie(c, m)
      PROVE  CatalogueTypeOK'
    BY <1>5, <1>4, JobsTyped DEF publish, unpublish, deleteMovie
<1>6. ASSUME NEW c \in Calls, NEW m \in Movies, NEW x \in Editions, updateMovie(c, m, x)
      PROVE  CatalogueTypeOK'
    BY <1>6, <1>4, JobsTyped DEF updateMovie
<1>7. ASSUME NEW c \in Calls, NEW s \in Screens, NEW p \in Placement, createScreening(c, s, p)
      PROVE  CatalogueTypeOK'
    BY <1>7, <1>4, JobsTyped DEF createScreening
<1>8. ASSUME NEW c \in Calls, NEW s \in Screens, NEW p \in Patches, updateScreening(c, s, p)
      PROVE  CatalogueTypeOK'
    BY <1>8, <1>4, JobsTyped, ShowFields DEF updateScreening
<1>9. ASSUME NEW c \in Calls, NEW s \in Screens, cancelScreening(c, s) \/ deleteScreening(c, s)
      PROVE  CatalogueTypeOK'
    BY <1>9, <1>4, JobsTyped, ShowFields DEF cancelScreening, deleteScreening, HasShow
<1>10. ASSUME NEW c \in Calls, NEW h \in Halls, deleteHall(c, h)
      PROVE  CatalogueTypeOK'
    BY <1>10, <1>4, JobsTyped DEF deleteHall
\* The writes: the rows keep their types, and so does the rest.
<1>11. ASSUME NEW c \in Calls, NEW j, Written(c, j),
              release' \in [Movies -> {"NONE", "DRAFT", "PUBLISHED", "GONE"}],
              edition' \in [Movies -> Editions \cup {NULL}],
              hall' \in [Halls -> {"NONE", "ROW", "GONE"}],
              show' \in [Screens -> Show \cup {None, Gone}]
      PROVE  CatalogueTypeOK'
    <2>1. /\ DOMAIN call' = Calls
          /\ \A d \in Calls : CallType(call[d])'
        BY <1>11, <1>i, CallMoves DEF Written
    <2>2. excused' \in BOOLEAN
        BY <1>11 DEF Written
    <2>3. QED
        BY <1>11, <2>1, <2>2 DEF Written, CatalogueTypeOK, CallType
<1>12. ASSUME NEW c \in Calls, WriteMovie(c)
      PROVE  CatalogueTypeOK'
    <2>1. call[c].id \in Movies /\ (call[c].op = "updateMovie" => call[c].new \in Editions)
        BY <1>12, JobFields DEF WriteMovie, Writing
    <2>2. release' \in [Movies -> {"NONE", "DRAFT", "PUBLISHED", "GONE"}]
        BY <1>12, <2>1 DEF WriteMovie, CatalogueTypeOK
    <2>3. edition' \in [Movies -> Editions \cup {NULL}]
        BY <1>12, <2>1 DEF WriteMovie, CatalogueTypeOK
    <2>4. QED
        BY <1>12, <1>11, <2>2, <2>3 DEF WriteMovie, CatalogueTypeOK
<1>w. ASSUME NEW S PROVE Without(S) \in [Screens -> Show \cup {None, Gone}]
    BY DEF Without, CatalogueTypeOK
<1>13. ASSUME NEW c \in Calls, DropMovie(c)
      PROVE  CatalogueTypeOK'
    BY <1>13, <1>11, <1>w DEF DropMovie, CatalogueTypeOK
<1>14. ASSUME NEW c \in Calls, DropHall(c)
      PROVE  CatalogueTypeOK'
    BY <1>14, <1>11, <1>w DEF DropHall, CatalogueTypeOK
<1>15. ASSUME NEW c \in Calls, NEW h \in Halls, createHall(c, h)
      PROVE  CatalogueTypeOK'
    BY <1>15, <1>11 DEF createHall, CatalogueTypeOK
<1>16. ASSUME NEW c \in Calls, WriteScreening(c)
      PROVE  CatalogueTypeOK'
    <2>1. call[c].at = "write"
        BY <1>16 DEF WriteScreening, Writing
    <2>2. show' \in [Screens -> Show \cup {None, Gone}]
        <3>1. CASE Writing(c, {"createScreening"})
            <4>1. call[c].new \in Placement
                BY <2>1, <3>1, JobFields DEF Writing
            <4>2. [status |-> "SCHEDULED", movie |-> call[c].new.movie,
                   hall |-> call[c].new.hall, start |-> call[c].new.start] \in Show
                BY <4>1 DEF Placement, Show
            <4>3. QED
                BY <1>16, <3>1, <4>2 DEF WriteScreening, Writing, CatalogueTypeOK
        <3>2. CASE Writing(c, {"updateScreening"})
            <4>1. call[c].new \in Patches /\ call[c].id \in Screens
                BY <2>1, <3>2, JobFields DEF Writing
            <4>2. HasShow(call[c].id) /\ show[call[c].id] \in Show
                BY <1>16, <3>2, <4>1, ShowFields DEF WriteScreening, Writing
            <4>3. Patched(show[call[c].id], call[c].new) \in Show
                BY <4>1, <4>2, PatchedType
            <4>4. QED
                BY <1>16, <3>2, <4>3 DEF WriteScreening, Writing, CatalogueTypeOK
        <3>3. QED
            BY <1>16, <3>1, <3>2 DEF WriteScreening
    <2>3. QED
        BY <1>16, <1>11, <2>2 DEF WriteScreening, CatalogueTypeOK
<1>17. ASSUME NEW c \in Calls, EndScreening(c)
      PROVE  CatalogueTypeOK'
    <2>1. call[c].id \in Screens /\ show[call[c].id] \in Show
        BY <1>17, JobFields, ShowFields DEF EndScreening, Writing
    <2>2. [show[call[c].id] EXCEPT !.status = "CANCELLED"] \in Show
        BY <2>1 DEF Show
    <2>3. show' \in [Screens -> Show \cup {None, Gone}]
        BY <1>17, <2>1, <2>2 DEF EndScreening, CatalogueTypeOK
    <2>4. QED
        BY <1>17, <1>11, <2>3 DEF EndScreening, CatalogueTypeOK
<1>18. ASSUME NEW c \in Calls, Forget(c) \/ CallEnds(c)
      PROVE  CatalogueTypeOK'
    <2>1. excused' \in BOOLEAN
        BY <1>18 DEF Forget, CallEnds
    <2>2. QED
        BY <1>18, <1>i, <2>1, OnlyCallMoves DEF Forget, CallEnds
<1>19. ASSUME NEW m \in Movies, NEW x \in Editions, createMovie(m, x)
      PROVE  CatalogueTypeOK'
    BY <1>19 DEF createMovie, CatalogueTypeOK
<1>20. CASE Clock
    <2>1. now' \in 0 .. MaxTime /\ now < now'
        BY <1>20 DEF Clock, CatalogueTypeOK
    <2>2. \A d \in Calls : CallType(call[d])'
        BY <1>20, <2>1 DEF Clock, CatalogueTypeOK, CallType
    <2>3. excused' \in BOOLEAN
        BY <1>20 DEF Clock
    <2>4. entry' = NULL \/ entry' = entry
        BY <1>20 DEF Clock
    <2>5. QED
        BY <1>20, <2>1, <2>2, <2>3, <2>4 DEF Clock, CatalogueTypeOK, CallType, tables
<1>21. CASE UNCHANGED catalogueVars
    BY <1>21 DEF catalogueVars, tables, CatalogueTypeOK
<1>22. ASSUME NEW c \in Calls, Begins(c)
      PROVE  CatalogueTypeOK'
    BY <1>22, <1>1, <1>i, <1>5, <1>6, <1>7, <1>8, <1>9, <1>10, <1>15
    DEF Begins, getPublishedMovie, browseMovies, getScreeningDetail,
        getMovieScreenings, getHalls
<1>23. ASSUME NEW c \in Calls, Continues(c)
      PROVE  CatalogueTypeOK'
    BY <1>23, <1>2, <1>3, <1>12, <1>13, <1>14, <1>16, <1>17, <1>18
    DEF Continues, setMovie, setLists, setScreeningDetail, setMovieScreenings, setHalls
<1>24. QED
    BY <1>19, <1>20, <1>21, <1>22, <1>23 DEF CatalogueNext

(***************************************************************************)
(* The rows that the public reads, the cache entry and what the calls      *)
(* carry keep their types: no write leaves half a row, and an update only  *)
(* puts halls, movies and times into a screening.                          *)
(***************************************************************************)
THEOREM CatalogueTypeCorrect == CatalogueSpec => []CatalogueTypeOK
BY CatalogueTypeInit, CatalogueTypeStep, PTL DEF CatalogueSpec

-----------------------------------------------------------------------------
(* How old an entry may be                                                 *)

\* The key has a life of its TTL from the fill, and the fill comes within a
\* call of the read of the tables.
AgeInv ==
    /\ entry # NULL =>
        /\ now < entry.until
        /\ entry.until <= entry.asOf + CallTime + TTL[key[1]]
    /\ \A c \in Calls : call[c].at = "fill" => now <= call[c].asOf + CallTime

\* Every step keeps the ages.
LEMMA AgeStep ==
    ASSUME CatalogueTypeOK, AgeInv, [CatalogueNext]_catalogueVars
    PROVE  AgeInv'
<1> USE CatalogueAssumption
<1>t. TTL[key[1]] \in Nat \ {0} /\ now \in Nat
    <2>1. key[1] \in Kinds
        BY DEF CatalogueTypeOK, Keys, Kinds
    <2>2. QED
        BY <2>1 DEF CatalogueTypeOK
<1>f. \A c \in Calls : call[c].at = "fill" => call[c].asOf \in 0 .. now
    BY DEF CatalogueTypeOK, Jobs
<1>1. ASSUME UNCHANGED <<now, key>>, entry' = entry \/ entry' = NULL, NEW c \in Calls, NEW r,
             call' = [call EXCEPT ![c] = r], r.at = "fill" => r.asOf = now
      PROVE  AgeInv'
    BY <1>1, <1>t DEF AgeInv, CatalogueTypeOK
<1>2. ASSUME NEW c \in Calls, NEW kind, Fill(c, kind)
      PROVE  AgeInv'
    <2>1. /\ entry'.asOf = call[c].asOf /\ entry'.until = now + TTL[key[1]]
          /\ UNCHANGED <<now, key>>
        BY <1>2 DEF Fill, Life
    <2>2. call[c].asOf \in Nat /\ now <= call[c].asOf + CallTime
        BY <1>2, <1>f, <1>t DEF Fill, AgeInv
    <2>3. now < entry'.until /\ entry'.until <= entry'.asOf + CallTime + TTL[key[1]]
        BY <1>t, <2>1, <2>2
    <2>4. \A d \in Calls : call'[d].at = "fill" => call'[d] = call[d]
        BY <1>2 DEF Fill, Idle, CatalogueTypeOK
    <2>5. QED
        BY <2>1, <2>3, <2>4 DEF AgeInv
<1>3. CASE Clock
    <2>1. entry' # NULL => entry' = entry /\ now' < entry.until
        BY <1>3, <1>t DEF Clock, CatalogueTypeOK
    <2>2. \A c \in Calls : call[c].at = "fill" => now' <= call[c].asOf + CallTime
        BY <1>3, <1>t, <1>f DEF Clock
    <2>3. QED
        BY <1>3, <2>1, <2>2 DEF Clock, AgeInv
<1>4. CASE UNCHANGED <<now, key, entry, call>>
    BY <1>4 DEF AgeInv
<1>5. ASSUME NEW c \in Calls, Begins(c)
      PROVE  AgeInv'
    <2>1. ASSUME NEW kind, NEW r, Reads(c, kind, r), r \in {Loaded, [at |-> "rows"]}
          PROVE  AgeInv'
        BY <1>1, <2>1 DEF Reads, Loaded
    <2>2. ASSUME NEW op, NEW id, NEW from, NEW new, Lookup(c, Job(op, id, from, new))
          PROVE  AgeInv'
        BY <1>1, <2>2 DEF Lookup, Job
    <2>3. ASSUME NEW h \in Halls, createHall(c, h)
          PROVE  AgeInv'
        BY <1>1, <2>3 DEF createHall, Written, Idle
    <2>4. QED
        BY <1>5, <2>1, <2>2, <2>3
        DEF Begins, getPublishedMovie, browseMovies, getScreeningDetail,
            getMovieScreenings, getHalls, publish, unpublish, deleteMovie,
            updateMovie, deleteHall, cancelScreening, deleteScreening,
            createScreening, updateScreening
<1>6. ASSUME NEW c \in Calls, Continues(c)
      PROVE  AgeInv'
    <2>1. CASE QueryScreenings(c)
        BY <1>1, <2>1 DEF QueryScreenings, Loaded
    <2>2. ASSUME NEW j, Written(c, j)
          PROVE  AgeInv'
        <3>1. CASE key \in Forgets(j)
            BY <1>1, <2>2, <3>1 DEF Written
        <3>2. CASE key \notin Forgets(j)
            BY <1>1, <2>2, <3>2 DEF Written, Idle
        <3>3. QED
            BY <3>1, <3>2
    <2>3. CASE Forget(c) \/ CallEnds(c)
        BY <1>1, <2>3 DEF Forget, CallEnds, Idle
    <2>4. QED
        BY <1>2, <1>6, <2>1, <2>2, <2>3
        DEF Continues, setMovie, setLists, setScreeningDetail, setMovieScreenings,
            setHalls, WriteMovie, DropMovie, DropHall, WriteScreening, EndScreening
<1>7. QED
    BY <1>3, <1>4, <1>5, <1>6 DEF CatalogueNext, createMovie, catalogueVars

(***************************************************************************)
(* Whatever reads, writes and failures interleave, what the cache answers  *)
(* is no older than a TTL and one call: the bound on staleness that every  *)
(* *_TTL_SECONDS stands for.                                               *)
(***************************************************************************)
THEOREM CacheNotTooOld == CatalogueSpec => []BoundedStaleness
<1>1. CatalogueInit => AgeInv
    BY DEF CatalogueInit, AgeInv, Idle
<1>2. CatalogueTypeOK /\ AgeInv /\ [CatalogueNext]_catalogueVars => AgeInv'
    BY AgeStep
<1>3. CatalogueTypeOK /\ AgeInv => BoundedStaleness
    <2>1. CatalogueTypeOK => key[1] \in Kinds
        BY DEF CatalogueTypeOK, Keys, Kinds
    <2>2. CatalogueTypeOK => TTL[key[1]] \in Nat
        BY <2>1, CatalogueAssumption
    <2>3. QED
        BY <2>2, CatalogueAssumption DEF CatalogueTypeOK, AgeInv, BoundedStaleness
<1>4. QED
    BY <1>1, <1>2, <1>3, CatalogueTypeCorrect, PTL DEF CatalogueSpec

-----------------------------------------------------------------------------
(* The tables                                                              *)

\* The foreign keys of screenings.
ForeignKeys ==
    \A s \in Screens :
        HasShow(s) => HasMovie(show[s].movie) /\ hall[show[s].hall] = "ROW"

\* A new screening's list is the one of the movie it was looked up with.
NewShows ==
    \A c \in Calls : call[c].at = "write" /\ call[c].op = "createScreening" =>
        call[c].from = call[c].new.movie

\* Every write keeps the foreign keys.
LEMMA ForeignKeysStep ==
    ASSUME CatalogueTypeOK, ForeignKeys, [CatalogueNext]_catalogueVars
    PROVE  ForeignKeys'
<1> USE CinemaAssumption
<1>1. CASE UNCHANGED tables
    BY <1>1 DEF ForeignKeys, HasShow, HasMovie, tables
<1>2. ASSUME NEW c \in Calls, WriteMovie(c)
      PROVE  ForeignKeys'
    <2>1. \A m \in Movies : HasMovie(m) => HasMovie(m)'
        BY <1>2 DEF WriteMovie, HasMovie, CatalogueTypeOK
    <2>2. QED
        BY <1>2, <2>1, ShowFields DEF WriteMovie, ForeignKeys, HasShow
<1>3. ASSUME NEW c \in Calls, DropMovie(c)
      PROVE  ForeignKeys'
    <2>1. ASSUME NEW s \in Screens, HasShow(s)'
          PROVE  show'[s] = show[s] /\ HasShow(s) /\ show[s].movie # call[c].id
        BY <1>3, <2>1 DEF DropMovie, Without, HasShow, Gone
    <2>2. \A m \in Movies \ {call[c].id} : release'[m] = release[m]
        BY <1>3 DEF DropMovie, CatalogueTypeOK
    <2>3. QED
        BY <1>3, <2>1, <2>2, ShowFields DEF DropMovie, ForeignKeys, HasMovie
<1>4. ASSUME NEW c \in Calls, DropHall(c)
      PROVE  ForeignKeys'
    <2>1. ASSUME NEW s \in Screens, HasShow(s)'
          PROVE  show'[s] = show[s] /\ HasShow(s) /\ show[s].hall # call[c].id
        BY <1>4, <2>1 DEF DropHall, Without, HasShow, Gone
    <2>2. \A h \in Halls \ {call[c].id} : hall'[h] = hall[h]
        BY <1>4 DEF DropHall, CatalogueTypeOK
    <2>3. QED
        BY <1>4, <2>1, <2>2, ShowFields DEF DropHall, ForeignKeys, HasMovie
<1>5. ASSUME NEW c \in Calls, NEW h \in Halls, createHall(c, h)
      PROVE  ForeignKeys'
    <2>1. \A g \in Halls : hall[g] = "ROW" => hall'[g] = "ROW"
        BY <1>5 DEF createHall, CatalogueTypeOK
    <2>2. QED
        BY <1>5, <2>1, ShowFields DEF createHall, ForeignKeys, HasShow, HasMovie
<1>6. ASSUME NEW c \in Calls, WriteScreening(c)
      PROVE  ForeignKeys'
    <2>1. \A s \in Screens \ {call[c].id} : show'[s] = show[s]
        BY <1>6 DEF WriteScreening, CatalogueTypeOK
    <2>2. QED
        BY <1>6, <2>1 DEF WriteScreening, ForeignKeys, HasShow, HasMovie
<1>7. ASSUME NEW c \in Calls, EndScreening(c)
      PROVE  ForeignKeys'
    <2>1. call[c].id \in Screens /\ show[call[c].id] \in Show
        BY <1>7, JobFields, ShowFields DEF EndScreening, Writing
    <2>2. \A s \in Screens : HasShow(s)' =>
            HasShow(s) /\ show'[s].movie = show[s].movie /\ show'[s].hall = show[s].hall
        BY <1>7, <2>1 DEF EndScreening, HasShow, Gone, CatalogueTypeOK, Show
    <2>3. QED
        BY <1>7, <2>2 DEF EndScreening, ForeignKeys, HasMovie
<1>8. ASSUME NEW m \in Movies, NEW x \in Editions, createMovie(m, x)
      PROVE  ForeignKeys'
    <2>1. \A n \in Movies : HasMovie(n) => HasMovie(n)'
        BY <1>8 DEF createMovie, HasMovie, CatalogueTypeOK
    <2>2. QED
        BY <1>8, <2>1, ShowFields DEF createMovie, ForeignKeys, HasShow
<1>9. QED
    BY <1>1, <1>2, <1>3, <1>4, <1>5, <1>6, <1>7, <1>8
    DEF CatalogueNext, Clock, Begins, Continues, getPublishedMovie, browseMovies,
        getScreeningDetail, getMovieScreenings, getHalls, publish, unpublish,
        deleteMovie, updateMovie, deleteHall, cancelScreening, deleteScreening,
        createScreening, updateScreening, Reads, Lookup, QueryScreenings, setMovie,
        setLists, setScreeningDetail, setMovieScreenings, setHalls, Fill, Forget,
        CallEnds, catalogueVars

(***************************************************************************)
(* The tables behind the caches keep their foreign keys: a screening that  *)
(* is there has its movie and its hall, whatever is deleted between the    *)
(* lookup of a call and its write.                                         *)
(***************************************************************************)
THEOREM TablesKeepForeignKeys == CatalogueSpec => []ForeignKeys
<1>1. CatalogueInit => ForeignKeys
    BY DEF CatalogueInit, ForeignKeys, HasShow, None
<1>2. CatalogueTypeOK /\ ForeignKeys /\ [CatalogueNext]_catalogueVars => ForeignKeys'
    BY ForeignKeysStep
<1>3. QED
    BY <1>1, <1>2, CatalogueTypeCorrect, PTL DEF CatalogueSpec

\* A call that creates a screening keeps what it has looked up.
LEMMA NewShowsStep ==
    ASSUME CatalogueTypeOK, NewShows, [CatalogueNext]_catalogueVars
    PROVE  NewShows'
<1>1. CASE UNCHANGED call
    BY <1>1 DEF NewShows
<1>2. ASSUME NEW c \in Calls, NEW r, call' = [call EXCEPT ![c] = r],
             r.at = "write" /\ r.op = "createScreening" => r.from = r.new.movie
      PROVE  NewShows'
    BY <1>2 DEF NewShows, CatalogueTypeOK
<1>3. ASSUME NEW c \in Calls, NEW j, Written(c, j)
      PROVE  NewShows'
    <2>1. CASE key \in Forgets(j)
        BY <1>2, <1>3, <2>1 DEF Written
    <2>2. CASE key \notin Forgets(j)
        BY <1>2, <1>3, <2>2 DEF Written, Idle
    <2>3. QED
        BY <2>1, <2>2
<1>4. ASSUME NEW c \in Calls, NEW kind, NEW r, Reads(c, kind, r), r \in {Loaded, [at |-> "rows"]}
      PROVE  NewShows'
    BY <1>2, <1>4 DEF Reads, Loaded
<1>5. ASSUME NEW c \in Calls, NEW op, NEW id, NEW from, NEW new, Lookup(c, Job(op, id, from, new)),
             op = "createScreening" => from = new.movie
      PROVE  NewShows'
    BY <1>2, <1>5 DEF Lookup, Job
<1>6. ASSUME NEW c \in Calls, QueryScreenings(c)
      PROVE  NewShows'
    BY <1>2, <1>6 DEF QueryScreenings, Loaded
<1>7. ASSUME NEW c \in Calls, NEW kind, Fill(c, kind) \/ Forget(c) \/ CallEnds(c)
      PROVE  NewShows'
    BY <1>2, <1>7 DEF Fill, Forget, CallEnds, Idle
<1>8. ASSUME NEW c \in Calls, Begins(c)
      PROVE  NewShows'
    BY <1>3, <1>4, <1>5, <1>8
    DEF Begins, getPublishedMovie, browseMovies, getScreeningDetail,
        getMovieScreenings, getHalls, publish, unpublish, deleteMovie, updateMovie,
        createHall, deleteHall, cancelScreening, deleteScreening, createScreening,
        updateScreening
<1>9. ASSUME NEW c \in Calls, Continues(c)
      PROVE  NewShows'
    BY <1>3, <1>6, <1>7, <1>9
    DEF Continues, setMovie, setLists, setScreeningDetail, setMovieScreenings,
        setHalls, WriteMovie, DropMovie, DropHall, WriteScreening, EndScreening
<1>10. QED
    BY <1>1, <1>8, <1>9 DEF CatalogueNext, Clock, createMovie, catalogueVars

-----------------------------------------------------------------------------
(* Answers that a step does not change                                     *)

\* The followed key, by kind.
LEMMA KeyKinds ==
    ASSUME CatalogueTypeOK
    PROVE  \/ key[1] = "movie" /\ key[2] \in Movies /\ key = <<"movie", key[2]>>
           \/ key[1] = "future" /\ key[2] \in Movies /\ key = <<"future", key[2]>>
           \/ key[1] = "detail" /\ key[2] \in Screens /\ key = <<"detail", key[2]>>
           \/ key[1] = "lists" /\ key = <<"lists", NULL>>
           \/ key[1] = "halls" /\ key = <<"halls", NULL>>
BY DEF CatalogueTypeOK, Keys

\* A published movie that keeps its columns.
LEMMA MovieKept ==
    ASSUME key[1] = "movie", UNCHANGED key, Found(key),
           release[key[2]] = "PUBLISHED" =>
                release'[key[2]] = "PUBLISHED" /\ edition'[key[2]] = edition[key[2]]
    PROVE  Found(key)' /\ Answer(key)' = Answer(key)
BY DEF Found, Answer, findPublishedById

\* The browse lists.
LEMMA ListsKept ==
    ASSUME key[1] = "lists", UNCHANGED key,
           \A m \in Movies : release'[m] = "PUBLISHED" <=> release[m] = "PUBLISHED",
           \A m \in Movies : release[m] = "PUBLISHED" => edition'[m] = edition[m],
           \A m \in Movies : Upcoming(m, now)' = Upcoming(m, now)
    PROVE  Found(key)' /\ Answer(key)' = Answer(key)
<1>1. Published' = Published
    BY DEF Published
<1>2. \A m \in Published :
        <<m, edition[m], Upcoming(m, now) # {}>>' = <<m, edition[m], Upcoming(m, now) # {}>>
    BY DEF Published
<1>3. findPublishedForBrowse' = findPublishedForBrowse
    BY <1>1, <1>2 DEF findPublishedForBrowse
<1>4. QED
    BY <1>3 DEF Found, Answer

\* A screening that keeps its row, of a movie that does.
LEMMA DetailKept ==
    ASSUME key[1] = "detail", UNCHANGED key, Found(key),
           show[key[2]].status = "SCHEDULED" =>
                /\ show'[key[2]] = show[key[2]]
                /\ release'[show[key[2]].movie] = release[show[key[2]].movie]
                /\ edition'[show[key[2]].movie] = edition[show[key[2]].movie]
    PROVE  Found(key)' /\ Answer(key)' = Answer(key)
BY DEF Found, Answer, findScreening

\* The screenings to come of a published movie.
LEMMA FutureKept ==
    ASSUME key[1] = "future", UNCHANGED key, Found(key),
           release[key[2]] = "PUBLISHED" => release'[key[2]] = "PUBLISHED",
           Upcoming(key[2], now)' = Upcoming(key[2], now),
           \A s \in Upcoming(key[2], now) : show'[s] = show[s]
    PROVE  Found(key)' /\ Answer(key)' = Answer(key)
<1>1. findFutureScheduledByMovie(key[2])' = findFutureScheduledByMovie(key[2])
    BY DEF findFutureScheduledByMovie
<1>2. QED
    BY <1>1 DEF Found, Answer

\* The halls.
LEMMA HallsKept ==
    ASSUME key[1] = "halls", UNCHANGED <<key, hall>>
    PROVE  Found(key)' /\ Answer(key)' = Answer(key)
BY DEF Found, Answer, listHalls

-----------------------------------------------------------------------------
(* Stale entries                                                           *)

\* A write that neither deletes the followed key nor is one of its gaps keeps
\* what the key answers.
LEMMA WriteKeeps ==
    ASSUME CatalogueTypeOK, ForeignKeys, NewShows, Found(key), NEW c \in Calls,
           WriteMovie(c) \/ DropMovie(c) \/ DropHall(c) \/ WriteScreening(c) \/ EndScreening(c),
           key \notin Forgets(call[c]), <<call[c].op, key[1]>> \notin Gaps
    PROVE  Found(key)' /\ Answer(key)' = Answer(key)
<1> DEFINE j == call[c]
<1>k. UNCHANGED <<now, key>> /\ j.at = "write"
    BY DEF WriteMovie, DropMovie, DropHall, WriteScreening, EndScreening, Written, Writing
<1>1. CASE WriteMovie(c)
    <2>1. UNCHANGED <<hall, show>> /\ j.id \in Movies
            /\ j.op \in {"updateMovie", "publish", "unpublish"}
        BY <1>1, JobFields DEF WriteMovie, Writing
    <2>2. \A m \in Movies \ {j.id} : release'[m] = release[m] /\ edition'[m] = edition[m]
        BY <1>1, <2>1 DEF WriteMovie, CatalogueTypeOK
    <2>3. j.op # "updateMovie" => UNCHANGED edition
        BY <1>1 DEF WriteMovie
    <2>4. j.op = "updateMovie" => release'[j.id] = release[j.id]
        BY <1>1, <2>1 DEF WriteMovie, CatalogueTypeOK
    <2>5. j.op = "publish" => release'[j.id] = "PUBLISHED"
        BY <1>1, <2>1 DEF WriteMovie, CatalogueTypeOK
    <2>6. key[1] \in {"movie", "future", "halls"}
        BY <2>1, KeyKinds DEF Gaps, Forgets, Hidden, delLists, delMovie
    <2>7. CASE key[1] = "movie"
        <3>1. j.op # "publish" => key[2] # j.id
            BY <2>1, <2>7, KeyKinds DEF Forgets, Hidden, delMovie
        <3>2. QED
            BY <1>k, <2>1, <2>2, <2>3, <2>5, <2>7, <3>1, KeyKinds, MovieKept
    <2>8. CASE key[1] = "future"
        <3>1. j.op # "unpublish"
            BY <2>8 DEF Gaps
        <3>2. key[2] \in Movies
            BY <2>8, KeyKinds
        <3>3. Upcoming(key[2], now)' = Upcoming(key[2], now)
            BY <1>k, <2>1 DEF Upcoming
        <3>4. QED
            BY <1>k, <2>1, <2>2, <2>4, <2>5, <2>8, <3>1, <3>2, <3>3, FutureKept
    <2>9. CASE key[1] = "halls"
        BY <1>k, <2>1, <2>9, HallsKept
    <2>10. QED
        BY <2>6, <2>7, <2>8, <2>9
<1>2. CASE DropMovie(c)
    <2>1. j.op = "deleteMovie" /\ j.id \in Movies /\ UNCHANGED hall
        BY <1>2, JobFields DEF DropMovie, Writing
    <2>2. \A m \in Movies \ {j.id} : release'[m] = release[m] /\ edition'[m] = edition[m]
        BY <1>2, <2>1 DEF DropMovie, CatalogueTypeOK
    <2>3. key[1] \in {"movie", "halls"} /\ (key[1] = "movie" => key[2] # j.id)
        BY <2>1, KeyKinds DEF Gaps, Forgets, Hidden, delLists, delMovie
    <2>4. QED
        BY <1>k, <2>1, <2>2, <2>3, KeyKinds, MovieKept, HallsKept
<1>3. CASE DropHall(c)
    <2>1. j.op = "deleteHall" /\ UNCHANGED <<release, edition>>
        BY <1>3 DEF DropHall, Writing
    <2>2. key[1] = "movie"
        BY <2>1, KeyKinds DEF Gaps, Forgets, delHalls
    <2>3. QED
        BY <1>k, <2>1, <2>2, MovieKept
<1>4. CASE WriteScreening(c) \/ EndScreening(c)
    <2>1. /\ j.id \in Screens /\ UNCHANGED <<release, edition, hall>>
          /\ j.op \in {"createScreening", "updateScreening", "cancelScreening", "deleteScreening"}
        BY <1>4, JobFields DEF WriteScreening, EndScreening, Writing
    <2>2. \A s \in Screens \ {j.id} : show'[s] = show[s]
        BY <1>4 DEF WriteScreening, EndScreening, CatalogueTypeOK
    <2>3. key # <<"lists", NULL>>
        BY <2>1 DEF Forgets, delLists
    <2>4. CASE key[1] = "movie"
        BY <1>k, <2>1, <2>4, MovieKept
    <2>5. CASE key[1] = "halls"
        BY <1>k, <2>1, <2>5, HallsKept
    <2>6. CASE key[1] = "detail"
        <3>1. key[2] # j.id
            <4>1. CASE j.op = "createScreening"
                <5>1. show[j.id] = None
                    BY <1>4, <4>1 DEF WriteScreening, EndScreening, Writing
                <5>2. QED
                    BY <2>6, <5>1 DEF Found, None
            <4>2. CASE j.op # "createScreening"
                BY <2>1, <2>6, <4>2, KeyKinds DEF Forgets, delScreeningDetail
            <4>3. QED
                BY <4>1, <4>2
        <3>2. QED
            BY <1>k, <2>1, <2>2, <2>6, <3>1, KeyKinds, DetailKept
    <2>7. CASE key[1] = "future"
        <3>1. j.op = "createScreening"
            BY <2>1, <2>7 DEF Gaps
        <3>2. key[2] # j.from /\ j.from = j.new.movie
            BY <1>k, <2>7, <3>1, KeyKinds DEF Forgets, delMovieScreenings, NewShows
        <3>3. /\ show[j.id] = None
              /\ show'[j.id] = [status |-> "SCHEDULED", movie |-> j.new.movie,
                                hall |-> j.new.hall, start |-> j.new.start]
            BY <1>4, <2>1, <3>1 DEF WriteScreening, EndScreening, Writing, CatalogueTypeOK
        <3>4. Upcoming(key[2], now)' = Upcoming(key[2], now)
            BY <1>k, <2>2, <3>2, <3>3 DEF Upcoming, None
        <3>5. \A s \in Upcoming(key[2], now) : show'[s] = show[s]
            BY <2>2, <3>3 DEF Upcoming, None
        <3>6. QED
            BY <1>k, <2>1, <2>7, <3>4, <3>5, FutureKept
    <2>8. QED
        BY <2>3, <2>4, <2>5, <2>6, <2>7, KeyKinds
<1>5. QED
    BY <1>1, <1>2, <1>3, <1>4

\* Every step keeps an entry fresh or has a reason not to.
LEMMA StaleStep ==
    ASSUME CatalogueTypeOK, ForeignKeys, NewShows, StaleForAReason,
           [CatalogueNext]_catalogueVars
    PROVE  StaleForAReason'
<1> DEFINE Fresh == Found(key) /\ entry.val = Answer(key)
           Doomed == \E c \in Calls : call[c].at = "del"
\* The entry stays, no reason is lost, and if there is none, the answer stays.
<1>1. ASSUME UNCHANGED entry, excused => excused', Doomed => Doomed',
             ~ excused' /\ ~ Doomed' /\ Found(key) => Found(key)' /\ Answer(key)' = Answer(key)
      PROVE  StaleForAReason'
    <2>1. SUFFICES ASSUME entry' # NULL, ~ excused', ~ Doomed'
                   PROVE  Found(key)' /\ entry'.val = Answer(key)'
        BY DEF StaleForAReason
    <2>2. Found(key) /\ entry.val = Answer(key)
        BY <1>1, <2>1 DEF StaleForAReason
    <2>3. QED
        BY <1>1, <2>1, <2>2
\* A call moves on from anywhere but the deletion of the key.
<1>d. ASSUME NEW c \in Calls, NEW r, call' = [call EXCEPT ![c] = r], call[c].at # "del"
      PROVE  Doomed => Doomed'
    <2>1. \A d \in Calls : call[d].at = "del" => call'[d].at = "del"
        BY <1>d DEF CatalogueTypeOK
    <2>2. QED
        BY <2>1
<1>s. ASSUME UNCHANGED <<now, key, tables>>
      PROVE  Found(key)' = Found(key) /\ Answer(key)' = Answer(key)
    BY <1>s DEF tables, Found, Answer, findPublishedById, findPublishedForBrowse,
        findScreening, findFutureScheduledByMovie, listHalls, Published, Upcoming
<1>2. ASSUME NEW c \in Calls, NEW r, call' = [call EXCEPT ![c] = r], call[c].at # "del",
             UNCHANGED <<now, key, tables, entry, excused>>
      PROVE  StaleForAReason'
    BY <1>1, <1>2, <1>d, <1>s
<1>3. ASSUME NEW c \in Calls, NEW kind, Fill(c, kind)
      PROVE  StaleForAReason'
    <2>1. entry'.val = call[c].val /\ UNCHANGED <<now, key, tables>>
        BY <1>3 DEF Fill
    <2>2. excused' = ~ (Found(key) /\ call[c].val = Answer(key))
        BY <1>3 DEF Fill
    <2>3. QED
        BY <2>1, <2>2, <1>s DEF StaleForAReason
<1>4. ASSUME NEW c \in Calls, NEW j, Written(c, j), call[c].at # "del",
             Found(key) /\ key \notin Forgets(j) /\ <<j.op, key[1]>> \notin Gaps =>
                Found(key)' /\ Answer(key)' = Answer(key)
      PROVE  StaleForAReason'
    <2>1. UNCHANGED entry /\ (excused => excused')
        BY <1>4 DEF Written
    <2>2. Doomed => Doomed'
        BY <1>4, <1>d DEF Written
    <2>3. ~ excused' => key \in Forgets(j) \/ <<j.op, key[1]>> \notin Gaps
        BY <1>4 DEF Written
    <2>4. key \in Forgets(j) => Doomed'
        BY <1>4 DEF Written, CatalogueTypeOK
    <2>5. QED
        BY <1>1, <1>4, <2>1, <2>2, <2>3, <2>4
<1>5. ASSUME NEW c \in Calls, WriteMovie(c) \/ DropMovie(c) \/ DropHall(c)
                              \/ WriteScreening(c) \/ EndScreening(c)
      PROVE  StaleForAReason'
    <2>1. Written(c, call[c]) /\ call[c].at # "del"
        BY <1>5 DEF WriteMovie, DropMovie, DropHall, WriteScreening, EndScreening, Writing
    <2>2. QED
        BY <1>4, <1>5, <2>1, WriteKeeps
<1>6. ASSUME NEW c \in Calls, NEW h \in Halls, createHall(c, h)
      PROVE  StaleForAReason'
    <2> DEFINE j == Job("createHall", h, NULL, NULL)
    <2>1. j.op = "createHall"
        BY DEF Job
    <2>2. /\ Written(c, j) /\ call[c].at # "del"
          /\ UNCHANGED <<release, edition, show, now, key>>
        BY <1>6 DEF createHall, Written
    <2>3. \A m : Upcoming(m, now)' = Upcoming(m, now)
        BY <2>2 DEF Upcoming
    <2>4. ASSUME Found(key), key \notin Forgets(j)
          PROVE  Found(key)' /\ Answer(key)' = Answer(key)
        <3>1. key # <<"halls", NULL>>
            BY <2>1, <2>4 DEF Forgets, delHalls
        <3>2. QED
            BY <2>2, <2>3, <2>4, <3>1, KeyKinds, MovieKept, ListsKept, DetailKept, FutureKept
    <2>5. QED
        BY <1>4, <2>2, <2>4
<1>7. ASSUME NEW c \in Calls, Forget(c)
      PROVE  StaleForAReason'
    BY <1>7 DEF Forget, StaleForAReason
<1>8. ASSUME NEW c \in Calls, CallEnds(c)
      PROVE  StaleForAReason'
    <2>1. CASE call[c].at = "del"
        BY <1>8, <2>1 DEF CallEnds, StaleForAReason
    <2>2. CASE call[c].at # "del"
        BY <1>1, <1>8, <1>d, <1>s, <2>2 DEF CallEnds
    <2>3. QED
        BY <2>1, <2>2
\* A draft that nobody can see yet.
<1>9. ASSUME NEW m \in Movies, NEW x \in Editions, createMovie(m, x)
      PROVE  StaleForAReason'
    <2>1. /\ release[m] = "NONE" /\ release'[m] = "DRAFT"
          /\ \A n \in Movies \ {m} : release'[n] = release[n] /\ edition'[n] = edition[n]
          /\ UNCHANGED <<now, key, hall, show, entry, call, excused>>
        BY <1>9 DEF createMovie, CatalogueTypeOK
    <2>2. \A n : Upcoming(n, now)' = Upcoming(n, now)
        BY <2>1 DEF Upcoming
    <2>3. ASSUME key[1] = "detail", show[key[2]].status = "SCHEDULED"
          PROVE  show[key[2]].movie \in Movies \ {m}
        BY <2>1, <2>3, KeyKinds, ShowFields DEF ForeignKeys, HasShow, HasMovie
    <2>4. ASSUME Found(key)
          PROVE  Found(key)' /\ Answer(key)' = Answer(key)
        <3>1. CASE key[1] = "movie"
            BY <2>1, <2>4, <3>1, KeyKinds, MovieKept
        <3>2. CASE key[1] = "lists"
            BY <2>1, <2>2, <3>2, ListsKept
        <3>3. CASE key[1] = "detail"
            BY <2>1, <2>3, <2>4, <3>3, DetailKept
        <3>4. CASE key[1] = "future"
            BY <2>1, <2>2, <2>4, <3>4, KeyKinds, FutureKept
        <3>5. QED
            BY <2>1, <3>1, <3>2, <3>3, <3>4, KeyKinds, HallsKept
    <2>5. QED
        BY <1>1, <2>1, <2>4
<1>10. CASE Clock
    <2>1. CASE entry # NULL /\ now' >= entry.until
        BY <1>10, <2>1 DEF Clock, StaleForAReason
    <2>2. CASE ~ (entry # NULL /\ now' >= entry.until)
        <3>1. /\ UNCHANGED <<key, release, edition, hall, show, call, entry>>
              /\ ~ excused' /\ key[1] \in {"lists", "future"} =>
                    \A m \in Movies : Upcoming(m, now) = Upcoming(m, now')
              /\ excused => excused'
            BY <1>10, <2>2 DEF Clock, tables
        <3>2. \A m : Upcoming(m, now)' = Upcoming(m, now')
            BY <3>1 DEF Upcoming
        <3>3. ASSUME Found(key), ~ excused'
              PROVE  Found(key)' /\ Answer(key)' = Answer(key)
            <4>1. key[1] \in {"lists", "future"} =>
                    \A m \in Movies : Upcoming(m, now)' = Upcoming(m, now)
                BY <3>1, <3>2, <3>3
            <4>2. QED
                BY <3>1, <3>3, <4>1, KeyKinds, MovieKept, ListsKept, DetailKept,
                   FutureKept, HallsKept
        <3>4. QED
            BY <1>1, <3>1, <3>3
    <2>3. QED
        BY <2>1, <2>2
<1>11. CASE UNCHANGED catalogueVars
    BY <1>11, <1>1, <1>s DEF catalogueVars
<1>12. ASSUME NEW c \in Calls, Begins(c)
      PROVE  StaleForAReason'
    BY <1>12, <1>2, <1>6
    DEF Begins, getPublishedMovie, browseMovies, getScreeningDetail,
        getMovieScreenings, getHalls, publish, unpublish, deleteMovie, updateMovie,
        deleteHall, cancelScreening, deleteScreening, createScreening,
        updateScreening, Reads, Lookup
<1>13. ASSUME NEW c \in Calls, Continues(c)
      PROVE  StaleForAReason'
    BY <1>13, <1>2, <1>3, <1>5, <1>7, <1>8
    DEF Continues, QueryScreenings, setMovie, setLists, setScreeningDetail,
        setMovieScreenings, setHalls
<1>14. QED
    BY <1>9, <1>10, <1>11, <1>12, <1>13 DEF CatalogueNext

(***************************************************************************)
(* Cache invalidation: for any number of concurrent reads and writes, an   *)
(* entry that no longer says what the tables say is about to be deleted or *)
(* has one of the reasons listed.                                          *)
(***************************************************************************)
THEOREM StaleOnlyForAReason == CatalogueSpec => []StaleForAReason
<1>1. CatalogueInit => ForeignKeys /\ NewShows /\ StaleForAReason
    BY DEF CatalogueInit, ForeignKeys, NewShows, StaleForAReason, HasShow, None, Idle
<1>2. CatalogueTypeOK /\ ForeignKeys /\ NewShows /\ StaleForAReason
        /\ [CatalogueNext]_catalogueVars => ForeignKeys' /\ NewShows' /\ StaleForAReason'
    BY ForeignKeysStep, NewShowsStep, StaleStep
<1>3. QED
    BY <1>1, <1>2, CatalogueTypeCorrect, PTL DEF CatalogueSpec

\* No deletion of a key is lost, and no fill was overtaken by a write.
Undisturbed ==
    \A c \in Calls :
        /\ CallEnds(c) => call[c].at # "del"
        /\ \A kind \in Kinds : Fill(c, kind) => Found(key) /\ call[c].val = Answer(key)

\* A movie's detail or the list of halls is what the tables say, unless a call
\* that has written is still to delete it.
PromptlyFresh ==
    /\ key[1] \in {"movie", "halls"}
    /\ entry # NULL
    /\ \A c \in Calls : call[c].at # "del"
    => Found(key) /\ entry.val = Answer(key)

NoExcuse == key[1] \in {"movie", "halls"} => ~ excused

\* Undisturbed steps give no excuse to these two kinds of keys.
LEMMA NoExcuseStep ==
    ASSUME CatalogueTypeOK, NoExcuse, [CatalogueNext]_catalogueVars,
           [Undisturbed]_catalogueVars
    PROVE  NoExcuse'
<1>1. CASE UNCHANGED <<key, excused>>
    BY <1>1 DEF NoExcuse
<1>2. CASE Clock
    <2>1. UNCHANGED key
        BY <1>2 DEF Clock
    <2>2. key[1] \in {"movie", "halls"} /\ ~ excused => ~ excused'
        BY <1>2 DEF Clock
    <2>3. QED
        BY <2>1, <2>2 DEF NoExcuse
<1>3. ASSUME NEW c \in Calls, NEW j, Written(c, j)
      PROVE  NoExcuse'
    <2>1. UNCHANGED key
        BY <1>3 DEF Written
    <2>2. key[1] \in {"movie", "halls"} => <<j.op, key[1]>> \notin Gaps
        BY DEF Gaps
    <2>3. key[1] \in {"movie", "halls"} /\ ~ excused => ~ excused'
        BY <1>3, <2>2 DEF Written
    <2>4. QED
        BY <2>1, <2>3 DEF NoExcuse
<1>4. ASSUME NEW c \in Calls, NEW kind \in Kinds, Fill(c, kind)
      PROVE  NoExcuse'
    <2>1. call' # call
        BY <1>4 DEF Fill, Idle, CatalogueTypeOK
    <2>2. Found(key) /\ call[c].val = Answer(key)
        BY <1>4, <2>1 DEF Undisturbed, catalogueVars
    <2>3. ~ excused'
        BY <1>4, <2>2 DEF Fill
    <2>4. QED
        BY <2>3 DEF NoExcuse
<1>5. ASSUME NEW c \in Calls, CallEnds(c)
      PROVE  NoExcuse'
    <2>1. call' # call
        BY <1>5 DEF CallEnds, Idle, CatalogueTypeOK
    <2>2. call[c].at # "del" /\ UNCHANGED key
        BY <1>5, <2>1 DEF Undisturbed, CallEnds, catalogueVars
    <2>3. ~ excused => ~ excused'
        BY <1>5, <2>2 DEF CallEnds
    <2>4. QED
        BY <2>2, <2>3 DEF NoExcuse
<1>6. ASSUME NEW c \in Calls, Forget(c)
      PROVE  NoExcuse'
    BY <1>6 DEF Forget, NoExcuse
<1>7. ASSUME NEW c \in Calls, Begins(c)
      PROVE  NoExcuse'
    BY <1>1, <1>3, <1>7
    DEF Begins, getPublishedMovie, browseMovies, getScreeningDetail,
        getMovieScreenings, getHalls, publish, unpublish, deleteMovie, updateMovie,
        createHall, deleteHall, cancelScreening, deleteScreening, createScreening,
        updateScreening, Reads, Lookup
<1>8. ASSUME NEW c \in Calls, Continues(c)
      PROVE  NoExcuse'
    BY <1>1, <1>3, <1>4, <1>5, <1>6, <1>8
    DEF Continues, QueryScreenings, setMovie, setLists, setScreeningDetail,
        setMovieScreenings, setHalls, WriteMovie, DropMovie, DropHall,
        WriteScreening, EndScreening, Kinds
<1>9. QED
    BY <1>1, <1>2, <1>7, <1>8 DEF CatalogueNext, createMovie, catalogueVars

(***************************************************************************)
(* unpublish, deleteMovie, updateMovie, createHall and deleteHall: as long *)
(* as Redis takes the deletions and no read overlaps a write, the movie    *)
(* detail and the hall list are never out of date once the call that wrote *)
(* has deleted the key.  No such statement holds of the other keys (Gaps). *)
(***************************************************************************)
THEOREM MoviesAndHallsPromptlyFresh ==
    CatalogueSpec /\ [][Undisturbed]_catalogueVars => []PromptlyFresh
<1>1. CatalogueInit => NoExcuse
    BY DEF CatalogueInit, NoExcuse
<1>2. CatalogueTypeOK /\ NoExcuse /\ [CatalogueNext]_catalogueVars
        /\ [Undisturbed]_catalogueVars => NoExcuse'
    BY NoExcuseStep
<1>3. NoExcuse /\ StaleForAReason => PromptlyFresh
    BY DEF NoExcuse, StaleForAReason, PromptlyFresh
<1>4. QED
    BY <1>1, <1>2, <1>3, CatalogueTypeCorrect, StaleOnlyForAReason, PTL DEF CatalogueSpec

-----------------------------------------------------------------------------
(* The tables implement the abstract programme                             *)

\* What a step that leaves the tables alone leaves alone.
LEMMA TablesStay ==
    ASSUME UNCHANGED tables
    PROVE  UNCHANGED <<Rows, State, Showing>>
BY DEF tables, Rows, RowOf, HasMovie, State, Showing, HasShow

\* Halls and movies as the abstract programme sees them.
LEMMA RowsAre ==
    ASSUME CatalogueTypeOK
    PROVE  /\ \A h \in Halls : Rows[h] = hall[h]
           /\ \A m \in Movies : Rows[m] = IF HasMovie(m) THEN "ROW" ELSE release[m]
           /\ \A s \in Screens : State[s] = show[s].status
           /\ \A s \in Screens : Shown!OnProgramme(s) <=> HasShow(s)
BY CinemaAssumption DEF Rows, RowOf, State, Shown!OnProgramme, HasShow

\* Every step is one of the abstract programme, or none.
LEMMA TablesStep ==
    ASSUME CatalogueTypeOK, CatalogueTypeOK', [CatalogueNext]_catalogueVars
    PROVE  [Shown!Next]_<<Rows, State, Showing>>
<1> USE CinemaAssumption
<1>1. ASSUME UNCHANGED tables
      PROVE  UNCHANGED <<Rows, State, Showing>>
    BY <1>1, TablesStay
<1>2. ASSUME NEW c \in Calls, WriteMovie(c)
      PROVE  UNCHANGED <<Rows, State, Showing>>
    <2>1. \A m \in Movies : HasMovie(m)' = HasMovie(m) /\ (~ HasMovie(m) => release'[m] = release[m])
        BY <1>2 DEF WriteMovie, HasMovie, CatalogueTypeOK
    <2>2. UNCHANGED <<hall, show>>
        BY <1>2 DEF WriteMovie
    <2>3. QED
        BY <2>1, <2>2 DEF Rows, RowOf, State, Showing, HasShow
<1>3. ASSUME NEW h \in Halls, hall[h] = "NONE", hall' = [hall EXCEPT ![h] = "ROW"],
             UNCHANGED <<release, edition, show>>
      PROVE  Shown!Add(h)
    <2>1. Rows[h] = "NONE"
        BY <1>3, RowsAre
    <2>2. Rows' = [Rows EXCEPT ![h] = "ROW"]
        BY <1>3 DEF Rows, RowOf, HasMovie, CatalogueTypeOK
    <2>3. UNCHANGED <<State, Showing>>
        BY <1>3 DEF State, Showing, HasShow
    <2>4. QED
        BY <2>1, <2>2, <2>3 DEF Shown!Add
<1>4. ASSUME NEW m \in Movies, NEW x \in Editions, createMovie(m, x)
      PROVE  Shown!Add(m)
    <2>1. Rows[m] = "NONE"
        BY <1>4, RowsAre DEF createMovie, HasMovie
    <2>2. Rows' = [Rows EXCEPT ![m] = "ROW"]
        BY <1>4 DEF createMovie, Rows, RowOf, HasMovie, CatalogueTypeOK
    <2>3. UNCHANGED <<State, Showing>>
        BY <1>4 DEF createMovie, State, Showing, HasShow
    <2>4. QED
        BY <2>1, <2>2, <2>3 DEF Shown!Add
\* A set of screenings goes.
<1>5. ASSUME NEW S \in SUBSET Screens, show' = Without(S)
      PROVE  Shown!Withdraw(S)
    <2>1. State' = [s \in Screens |-> IF s \in S THEN "GONE" ELSE State[s]]
        BY <1>5 DEF Without, State, Gone
    <2>2. Showing' = [s \in Screens |-> IF s \in S THEN NULL ELSE Showing[s]]
        BY <1>5 DEF Without, Showing, Gone, HasShow
    <2>3. QED
        BY <2>1, <2>2 DEF Shown!Withdraw
<1>6. ASSUME NEW c \in Calls, DropMovie(c)
      PROVE  \E m \in Movies : Shown!Delete(m)
    <2> DEFINE m == call[c].id
               S == {s \in Screens : HasShow(s) /\ show[s].movie = m}
    <2>1. m \in Movies /\ HasMovie(m) /\ Rows[m] = "ROW"
        BY <1>6, JobFields, RowsAre DEF DropMovie, Writing
    <2>2. Rows' = [Rows EXCEPT ![m] = "GONE"]
        BY <1>6, <2>1 DEF DropMovie, Rows, RowOf, HasMovie, CatalogueTypeOK
    <2>3. S = {s \in Screens : Shown!OnProgramme(s) /\ m \in {Showing[s].hall, Showing[s].movie}}
        BY <2>1, RowsAre, ShowFields DEF Showing
    <2>4. Shown!Withdraw(S)
        BY <1>5, <1>6 DEF DropMovie
    <2>5. QED
        BY <2>1, <2>2, <2>3, <2>4 DEF Shown!Delete
<1>7. ASSUME NEW c \in Calls, DropHall(c)
      PROVE  \E h \in Halls : Shown!Delete(h)
    <2> DEFINE h == call[c].id
               S == {s \in Screens : HasShow(s) /\ show[s].hall = h}
    <2>1. h \in Halls /\ Rows[h] = "ROW"
        BY <1>7, JobFields, RowsAre DEF DropHall, Writing
    <2>2. Rows' = [Rows EXCEPT ![h] = "GONE"]
        BY <1>7, <2>1 DEF DropHall, Rows, RowOf, HasMovie, CatalogueTypeOK
    <2>3. S = {s \in Screens : Shown!OnProgramme(s) /\ h \in {Showing[s].hall, Showing[s].movie}}
        BY <2>1, RowsAre, ShowFields DEF Showing
    <2>4. Shown!Withdraw(S)
        BY <1>5, <1>7 DEF DropHall
    <2>5. QED
        BY <2>1, <2>2, <2>3, <2>4 DEF Shown!Delete
<1>8. ASSUME NEW c \in Calls, WriteScreening(c)
      PROVE  \E s \in Screens : \E h \in Halls, m \in Movies : Shown!Place(s, h, m)
    <2> DEFINE s == call[c].id
               h == show'[s].hall
               m == show'[s].movie
    <2>1. s \in Screens /\ UNCHANGED <<release, edition, hall>>
        BY <1>8, JobFields DEF WriteScreening, Writing
    <2>2. \A u \in Screens \ {s} : show'[u] = show[u]
        BY <1>8 DEF WriteScreening, CatalogueTypeOK
    <2>3. /\ \/ State[s] = "NONE" /\ show'[s].status = "SCHEDULED"
             \/ HasShow(s) /\ show'[s].status = show[s].status
          /\ show'[s].status \in {"SCHEDULED", "CANCELLED"}
        <3>1. CASE Writing(c, {"createScreening"})
            BY <1>8, <2>1, <3>1, RowsAre
            DEF WriteScreening, Writing, CatalogueTypeOK, None, HasShow
        <3>2. CASE Writing(c, {"updateScreening"})
            <4>1. HasShow(s) /\ show[s] \in Show /\ show'[s] = Patched(show[s], call[c].new)
                BY <1>8, <2>1, <3>2, ShowFields DEF WriteScreening, Writing, CatalogueTypeOK
            <4>2. show'[s].status = show[s].status
                BY <4>1 DEF Patched, Show
            <4>3. QED
                BY <4>1, <4>2 DEF HasShow
        <3>3. QED
            BY <1>8, <3>1, <3>2 DEF WriteScreening
    <2>4. h \in Halls /\ m \in Movies
        BY <2>1, <2>3 DEF CatalogueTypeOK, HasShow, Show, None, Gone
    <2>5. Rows[h] = "ROW" /\ Rows[m] = "ROW"
        BY <1>8, <2>1, <2>4, RowsAre DEF WriteScreening, HasMovie
    <2>6. Showing' = [Showing EXCEPT ![s] = [hall |-> h, movie |-> m]]
        BY <2>1, <2>2, <2>3 DEF Showing, HasShow
    <2>7. \/ State[s] = "NONE" /\ State' = [State EXCEPT ![s] = "SCHEDULED"]
          \/ Shown!OnProgramme(s) /\ UNCHANGED State
        BY <2>1, <2>2, <2>3, RowsAre DEF State
    <2>8. UNCHANGED Rows
        BY <2>1 DEF Rows, RowOf, HasMovie
    <2>9. QED
        BY <2>1, <2>4, <2>5, <2>6, <2>7, <2>8 DEF Shown!Place
<1>9. ASSUME NEW c \in Calls, EndScreening(c)
      PROVE  \E s \in Screens : Shown!Cancel(s) \/ Shown!DeleteScreening(s)
    <2> DEFINE s == call[c].id
    <2>1. /\ s \in Screens /\ HasShow(s) /\ show[s] \in Show
          /\ UNCHANGED <<release, edition, hall>> /\ Shown!OnProgramme(s)
        BY <1>9, JobFields, ShowFields, RowsAre DEF EndScreening, Writing
    <2>2. UNCHANGED Rows
        BY <2>1 DEF Rows, RowOf, HasMovie
    <2>3. CASE show' = [show EXCEPT ![s].status = "CANCELLED"]
        <3>1. /\ show'[s].status = "CANCELLED" /\ show'[s].hall = show[s].hall
              /\ show'[s].movie = show[s].movie
              /\ \A u \in Screens \ {s} : show'[u] = show[u]
            BY <2>1, <2>3 DEF CatalogueTypeOK, Show
        <3>2. State' = [State EXCEPT ![s] = "CANCELLED"] /\ UNCHANGED Showing
            BY <2>1, <3>1 DEF State, Showing, HasShow
        <3>3. QED
            BY <2>1, <2>2, <3>2 DEF Shown!Cancel
    <2>4. CASE show' = [show EXCEPT ![s] = Gone]
        <3>1. show' = Without({s})
            BY <2>4 DEF Without, CatalogueTypeOK
        <3>2. QED
            BY <1>5, <2>1, <2>2, <3>1 DEF Shown!DeleteScreening
    <2>5. QED
        BY <1>9, <2>3, <2>4 DEF EndScreening
<1>10. ASSUME NEW c \in Calls, Begins(c)
      PROVE  UNCHANGED tables \/ \E h \in Halls : Shown!Add(h)
    BY <1>3, <1>10
    DEF Begins, getPublishedMovie, browseMovies, getScreeningDetail,
        getMovieScreenings, getHalls, publish, unpublish, deleteMovie, updateMovie,
        createHall, deleteHall, cancelScreening, deleteScreening, createScreening,
        updateScreening, Reads, Lookup
<1>11. ASSUME NEW c \in Calls, Continues(c)
      PROVE  UNCHANGED tables \/ [Shown!Next]_<<Rows, State, Showing>>
    BY <1>2, <1>6, <1>7, <1>8, <1>9, <1>11
    DEF Continues, QueryScreenings, setMovie, setLists, setScreeningDetail,
        setMovieScreenings, setHalls, Fill, Forget, CallEnds, Shown!Next
<1>12. QED
    BY <1>1, <1>4, <1>10, <1>11 DEF CatalogueNext, Clock, catalogueVars, Shown!Next

(***************************************************************************)
(* Whatever lookups, writes and failures interleave, the tables behind the *)
(* caches go through the steps of the abstract programme: a screening is   *)
(* shown where its movie and hall are, and what is cancelled or gone stays *)
(* so.                                                                     *)
(***************************************************************************)
THEOREM CatalogueRefinesProgramme == CatalogueSpec => TablesImplementProgramme
<1>1. CatalogueInit => Shown!Init
    BY DEF CatalogueInit, HasShow, HasMovie, None, Shown!Init, Rows, RowOf, State, Showing
<1>2. CatalogueTypeOK /\ CatalogueTypeOK' /\ [CatalogueNext]_catalogueVars =>
        [Shown!Next]_<<Rows, State, Showing>>
    BY TablesStep
<1>3. QED
    BY <1>1, <1>2, CatalogueTypeCorrect, PTL
    DEF CatalogueSpec, TablesImplementProgramme, Shown!Spec, Shown!vars

=============================================================================
