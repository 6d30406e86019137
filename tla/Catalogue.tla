----------------------------- MODULE Catalogue -----------------------------
(***************************************************************************)
(* Movies, screenings and halls as the public reads them through Redis,    *)
(* while administrators write: MoviesService, HallsService and the reads   *)
(* and cache deletions of ScreeningsService.                               *)
(*                                                                         *)
(* Cache entries do not depend on each other, so the model follows one key *)
(* (any of them, chosen at the start) next to the whole of the tables.  A  *)
(* read that misses reads the tables and fills the key; an administrator's *)
(* call looks up, writes and then deletes keys one by one, of which only   *)
(* the deletion of the followed key is a step.  Whether screenings overlap *)
(* or reservations forbid a deletion (Scheduling) only refuses a call.     *)
(* The two keys of the browse lists are set and deleted together.          *)
(***************************************************************************)
EXTENDS Integers, Cinema

CONSTANTS
    Calls,
    Editions,       \* what a movie's columns may say
    Patches,        \* bodies of an update; NULL: the field is not given
    TTL,            \* by kind of key: *_TTL_SECONDS
    CallTime,       \* bound: from the read of a table to the fill
    MaxTime         \* bound: the clock stops here

Kinds == {"movie", "lists", "detail", "future", "halls"}

ASSUME CatalogueAssumption ==
    /\ TTL \in [Kinds -> Nat \ {0}]
    /\ Patches \subseteq [movie : Movies \cup {NULL}, hall : Halls \cup {NULL},
                          start : Starts \cup {NULL}]
    /\ CallTime \in Nat /\ MaxTime \in Nat

VARIABLES
    now,
    key,            \* the key that is followed
    release, edition,           \* the movies
    hall,                       \* the halls
    show,                       \* the screenings
    entry,          \* what the key holds; NULL: no key
    call,           \* where each call is, with its locals
    excused         \* history: the entry has a reason to be out of date

tables == <<release, edition, hall, show>>
catalogueVars == <<now, key, tables, entry, call, excused>>

Keys == {<<"movie", m>> : m \in Movies} \cup {<<"future", m>> : m \in Movies}
            \cup {<<"detail", s>> : s \in Screens}
            \cup {<<"lists", NULL>>, <<"halls", NULL>>}

\* A screening's row.
Show == [status : {"SCHEDULED", "CANCELLED"}, movie : Movies, hall : Halls,
         start : Starts]
None == [status |-> "NONE"]
Gone == [status |-> "GONE"]

\* An administrator's call that has looked up its row: from is the movie it
\* was found with, new what the call writes.
Jobs ==
    [at : {"write"}, op : {"updateMovie"}, id : Movies, from : Movies,
     new : Editions]
    \cup [at : {"write"}, op : {"publish", "unpublish", "deleteMovie"},
          id : Movies, from : Movies, new : {NULL}]
    \cup [at : {"write"}, op : {"createScreening"}, id : Screens,
          from : Movies, new : Placement]
    \cup [at : {"write"}, op : {"updateScreening"}, id : Screens,
          from : Movies, new : Patches]
    \cup [at : {"write"}, op : {"cancelScreening", "deleteScreening"},
          id : Screens, from : Movies, new : {NULL}]
    \cup [at : {"write"}, op : {"deleteHall"}, id : Halls, from : {NULL},
          new : {NULL}]

Idle == [at |-> "idle"]

CatalogueTypeOK ==
    /\ now \in 0 .. MaxTime
    /\ key \in Keys
    /\ release \in [Movies -> {"NONE", "DRAFT", "PUBLISHED", "GONE"}]
    /\ edition \in [Movies -> Editions \cup {NULL}]
    /\ hall \in [Halls -> {"NONE", "ROW", "GONE"}]
    /\ show \in [Screens -> Show \cup {None, Gone}]
    /\ entry # NULL =>
        /\ entry.asOf \in 0 .. MaxTime
        /\ entry.until \in 1 .. MaxTime + TTL[key[1]]
    /\ DOMAIN call = Calls
    /\ \A c \in Calls :
        \/ call[c].at \in {"idle", "rows", "del"}
        \/ call[c].at = "fill" /\ call[c].asOf \in 0 .. now
        \/ call[c] \in Jobs
    /\ excused \in BOOLEAN

CatalogueInit ==
    /\ now = 0
    /\ key \in Keys
    /\ release = [m \in Movies |-> "NONE"]
    /\ edition = [m \in Movies |-> NULL]
    /\ hall = [h \in Halls |-> "NONE"]
    /\ show = [s \in Screens |-> None]
    /\ entry = NULL
    /\ call = [c \in Calls |-> Idle]
    /\ excused = FALSE

HasMovie(m) == release[m] \in {"DRAFT", "PUBLISHED"}
HasShow(s) == show[s].status \in {"SCHEDULED", "CANCELLED"}

-----------------------------------------------------------------------------
(* What the tables answer                                                  *)

Published == {m \in Movies : release[m] = "PUBLISHED"}

\* SCHEDULED screenings of a movie that start later than t.
Upcoming(m, t) ==
    {s \in Screens : show[s].status = "SCHEDULED" /\ show[s].movie = m
                                                  /\ show[s].start > t}

\* The row a 404 is about: drafts and cancelled screenings are invisible.
Found(k) ==
    CASE k[1] \in {"movie", "future"} -> release[k[2]] = "PUBLISHED"
      [] k[1] = "detail" -> show[k[2]].status = "SCHEDULED"
      [] OTHER -> TRUE

findPublishedById(m) == {edition[m]}

\* Movies now showing, movies coming soon.
findPublishedForBrowse ==
    {<<m, edition[m], Upcoming(m, now) # {}>> : m \in Published}

\* The screening with its movie and hall.
findScreening(s) ==
    LET m == show[s].movie
    IN  {<<m, release[m], edition[m], show[s].hall, show[s].start>>}

findFutureScheduledByMovie(m) ==
    {<<s, show[s].hall, show[s].start>> : s \in Upcoming(m, now)}

listHalls == {h \in Halls : hall[h] = "ROW"}

Answer(k) ==
    CASE k[1] = "movie" -> findPublishedById(k[2])
      [] k[1] = "lists" -> findPublishedForBrowse
      [] k[1] = "detail" -> findScreening(k[2])
      [] k[1] = "future" -> findFutureScheduledByMovie(k[2])
      [] OTHER -> listHalls

-----------------------------------------------------------------------------
(* A public read                                                           *)

\* A hit changes nothing.  After a miss, or an error of Redis, which another
\* call may have made up for by now, a read goes to the tables; 404 if it finds
\* no row.
Reads(c, kind, next) ==
    /\ call[c].at = "idle" /\ key[1] = kind /\ Found(key)
    /\ call' = [call EXCEPT ![c] = next]
    /\ UNCHANGED <<now, key, tables, entry, excused>>

Loaded == [at |-> "fill", val |-> Answer(key), asOf |-> now]

getPublishedMovie(c) == Reads(c, "movie", Loaded)
browseMovies(c) == Reads(c, "lists", Loaded)
getScreeningDetail(c) == Reads(c, "detail", Loaded)
getHalls(c) == Reads(c, "halls", Loaded)

\* The movie first, its screenings in a second query.
getMovieScreenings(c) == Reads(c, "future", [at |-> "rows"])

QueryScreenings(c) ==
    /\ call[c].at = "rows"
    /\ call' = [call EXCEPT ![c] = Loaded]
    /\ UNCHANGED <<now, key, tables, entry, excused>>

\* Mutant: SET without EX, within the time the model looks at.
NoLife(kind) == MaxTime + 1 - now

\* Mutant: milliseconds where EX takes seconds.
MillisLife(kind) == 1000 * TTL[kind]

Life(kind) == TTL[kind]

\* The fill is excused if the answer changed since the tables were read.
Fill(c, kind) ==
    /\ call[c].at = "fill" /\ key[1] = kind
    /\ entry' = [val |-> call[c].val, asOf |-> call[c].asOf, until |-> now + Life(kind)]
    /\ excused' = ~ (Found(key) /\ call[c].val = Answer(key))
    /\ call' = [call EXCEPT ![c] = Idle]
    /\ UNCHANGED <<now, key, tables>>

setMovie(c) == Fill(c, "movie")
setLists(c) == Fill(c, "lists")
setScreeningDetail(c) == Fill(c, "detail")
setMovieScreenings(c) == Fill(c, "future")
setHalls(c) == Fill(c, "halls")

-----------------------------------------------------------------------------
(* An administrator's call: the lookup                                     *)

Lookup(c, rec) ==
    /\ call[c].at = "idle"
    /\ call' = [call EXCEPT ![c] = rec]
    /\ UNCHANGED <<now, key, tables, entry, excused>>

Job(op, id, from, new) ==
    [at |-> "write", op |-> op, id |-> id, from |-> from, new |-> new]

updateMovie(c, m, x) == HasMovie(m) /\ Lookup(c, Job("updateMovie", m, m, x))
publish(c, m) == release[m] = "DRAFT" /\ Lookup(c, Job("publish", m, m, NULL))
unpublish(c, m) == release[m] = "PUBLISHED" /\ Lookup(c, Job("unpublish", m, m, NULL))
deleteMovie(c, m) == HasMovie(m) /\ Lookup(c, Job("deleteMovie", m, m, NULL))

createScreening(c, s, p) ==
    /\ show[s] = None
    /\ HasMovie(p.movie) /\ hall[p.hall] = "ROW"
    /\ Lookup(c, Job("createScreening", s, p.movie, p))

\* A movie or hall it is moved to exists when it is looked up.
updateScreening(c, s, p) ==
    /\ HasShow(s)
    /\ p.movie # NULL => HasMovie(p.movie)
    /\ p.hall # NULL => hall[p.hall] = "ROW"
    /\ Lookup(c, Job("updateScreening", s, show[s].movie, p))

cancelScreening(c, s) ==
    /\ show[s].status = "SCHEDULED"
    /\ Lookup(c, Job("cancelScreening", s, show[s].movie, NULL))

deleteScreening(c, s) ==
    /\ HasShow(s)
    /\ Lookup(c, Job("deleteScreening", s, show[s].movie, NULL))

deleteHall(c, h) == hall[h] = "ROW" /\ Lookup(c, Job("deleteHall", h, NULL, NULL))

-----------------------------------------------------------------------------
(* The keys it deletes in the end                                          *)

delMovie(m) == {<<"movie", m>>}
delLists == {<<"lists", NULL>>}
delScreeningDetail(s) == {<<"detail", s>>}
delMovieScreenings(m) == {<<"future", m>>}
delHalls == {<<"halls", NULL>>}

\* Mutant: the detail of a movie that is hidden again stays.
UnpublishedStays(j) == delLists

\* unpublish and deleteMovie.
Hidden(j) == delMovie(j.id) \cup delLists

Forgets(j) ==
    CASE j.op = "updateMovie" -> delMovie(j.id)
      [] j.op = "publish" -> delLists
      [] j.op \in {"unpublish", "deleteMovie"} -> Hidden(j)
      [] j.op = "createScreening" -> delLists \cup delMovieScreenings(j.from)
      [] j.op \in {"createHall", "deleteHall"} -> delHalls
      [] OTHER -> delLists \cup delScreeningDetail(j.id)
                           \cup delMovieScreenings(j.from)

\* The writes that change an answer and leave the key to its TTL: columns of a
\* movie inside a list or a screening, screenings that go with their movie or
\* hall, and the list of the movie a screening is moved to, by the call itself
\* or by another since the call looked up the row.
Gaps == {<<"updateMovie", "lists">>, <<"updateMovie", "detail">>,
         <<"publish", "detail">>, <<"unpublish", "detail">>,
         <<"deleteMovie", "detail">>, <<"unpublish", "future">>,
         <<"deleteMovie", "future">>, <<"updateScreening", "future">>,
         <<"cancelScreening", "future">>, <<"deleteScreening", "future">>,
         <<"deleteHall", "lists">>, <<"deleteHall", "detail">>,
         <<"deleteHall", "future">>}

\* The call has written, and deletes the followed key or is done.
Written(c, j) ==
    /\ call' = [call EXCEPT ![c] = IF key \in Forgets(j) THEN [at |-> "del"]
                                   ELSE Idle]
    /\ excused' = (excused \/ (key \notin Forgets(j) /\ <<j.op, key[1]>> \in Gaps))
    /\ UNCHANGED <<now, key, entry>>

-----------------------------------------------------------------------------
(* The write: a row that is gone by now, or a foreign key, fails the call  *)

Writing(c, ops) == call[c].at = "write" /\ call[c].op \in ops

WriteMovie(c) ==
    LET m == call[c].id
    IN  /\ Writing(c, {"updateMovie", "publish", "unpublish"})
        /\ HasMovie(m)
        /\ edition' = IF call[c].op = "updateMovie"
                      THEN [edition EXCEPT ![m] = call[c].new] ELSE edition
        /\ release' = [release EXCEPT ![m] =
                        CASE call[c].op = "publish" -> "PUBLISHED"
                          [] call[c].op = "unpublish" -> "DRAFT" [] OTHER -> @]
        /\ Written(c, call[c]) /\ UNCHANGED <<hall, show>>

\* ON DELETE CASCADE.
Without(S) == [s \in Screens |-> IF s \in S THEN Gone ELSE show[s]]

DropMovie(c) ==
    LET m == call[c].id
    IN  /\ Writing(c, {"deleteMovie"}) /\ HasMovie(m)
        /\ release' = [release EXCEPT ![m] = "GONE"]
        /\ edition' = [edition EXCEPT ![m] = NULL]
        /\ show' = Without({s \in Screens : HasShow(s) /\ show[s].movie = m})
        /\ Written(c, call[c]) /\ UNCHANGED hall

DropHall(c) ==
    LET h == call[c].id
    IN  /\ Writing(c, {"deleteHall"}) /\ hall[h] = "ROW"
        /\ hall' = [hall EXCEPT ![h] = "GONE"]
        /\ show' = Without({s \in Screens : HasShow(s) /\ show[s].hall = h})
        /\ Written(c, call[c]) /\ UNCHANGED <<release, edition>>

\* Nothing to look up first.
createHall(c, h) ==
    /\ call[c].at = "idle" /\ hall[h] = "NONE"
    /\ hall' = [hall EXCEPT ![h] = "ROW"]
    /\ Written(c, Job("createHall", h, NULL, NULL)) /\ UNCHANGED <<release, edition, show>>

Or(x, y) == IF x = NULL THEN y ELSE x

\* The fields of an update that are given, and never the status.
Patched(r, p) == [r EXCEPT !.movie = Or(p.movie, @), !.hall = Or(p.hall, @),
                           !.start = Or(p.start, @)]

WriteScreening(c) ==
    LET s == call[c].id
        p == call[c].new
    IN  /\ \/ Writing(c, {"createScreening"}) /\ show[s] = None
              /\ show' = [show EXCEPT ![s] =
                            [status |-> "SCHEDULED", movie |-> p.movie,
                             hall |-> p.hall, start |-> p.start]]
           \/ Writing(c, {"updateScreening"}) /\ HasShow(s)
              /\ show' = [show EXCEPT ![s] = Patched(@, p)]
        /\ HasMovie(show'[s].movie) /\ hall[show'[s].hall] = "ROW"
        /\ Written(c, call[c]) /\ UNCHANGED <<release, edition, hall>>

EndScreening(c) ==
    LET s == call[c].id
    IN  /\ Writing(c, {"cancelScreening", "deleteScreening"}) /\ HasShow(s)
        /\ \/ Writing(c, {"cancelScreening"})
              /\ show' = [show EXCEPT ![s].status = "CANCELLED"]
           \/ Writing(c, {"deleteScreening"})
              /\ show' = [show EXCEPT ![s] = Gone]
        /\ Written(c, call[c]) /\ UNCHANGED <<release, edition, hall>>

Forget(c) ==
    /\ call[c].at = "del"
    /\ call' = [call EXCEPT ![c] = Idle]
    /\ entry' = NULL /\ excused' = FALSE
    /\ UNCHANGED <<now, key, tables>>

-----------------------------------------------------------------------------

\* A draft is invisible: nothing to delete.
createMovie(m, x) ==
    /\ release[m] = "NONE"
    /\ release' = [release EXCEPT ![m] = "DRAFT"]
    /\ edition' = [edition EXCEPT ![m] = x]
    /\ UNCHANGED <<now, key, hall, show, entry, call, excused>>

\* A 404, an error, a set or del that Redis refuses, or the process stopping.
CallEnds(c) ==
    /\ call[c].at # "idle"
    /\ call' = [call EXCEPT ![c] = Idle]
    /\ excused' = (excused \/ call[c].at = "del")
    /\ UNCHANGED <<now, key, tables, entry>>

\* Screenings begin, which the lists allow for with their short TTL.
Clock ==
    /\ now < MaxTime /\ now' = now + 1
    /\ \A c \in Calls : call[c].at = "fill" => now < call[c].asOf + CallTime
    /\ IF entry # NULL /\ now' >= entry.until
       THEN entry' = NULL /\ excused' = FALSE
       ELSE /\ entry' = entry
            /\ excused' = (excused \/ (/\ key[1] \in {"lists", "future"}
                                      /\ \E m \in Movies : Upcoming(m, now) # Upcoming(m, now')))
    /\ UNCHANGED <<key, tables, call>>

Begins(c) ==
    \/ getPublishedMovie(c) \/ browseMovies(c) \/ getScreeningDetail(c)
    \/ getMovieScreenings(c) \/ getHalls(c)
    \/ \E m \in Movies : \/ publish(c, m) \/ unpublish(c, m) \/ deleteMovie(c, m)
                         \/ \E x \in Editions : updateMovie(c, m, x)
    \/ \E h \in Halls : createHall(c, h) \/ deleteHall(c, h)
    \/ \E s \in Screens :
        \/ cancelScreening(c, s) \/ deleteScreening(c, s)
        \/ \E p \in Placement : createScreening(c, s, p)
        \/ \E p \in Patches : updateScreening(c, s, p)

Continues(c) ==
    \/ QueryScreenings(c) \/ setMovie(c) \/ setLists(c) \/ setScreeningDetail(c)
    \/ setMovieScreenings(c) \/ setHalls(c)
    \/ WriteMovie(c) \/ DropMovie(c) \/ DropHall(c)
    \/ WriteScreening(c) \/ EndScreening(c) \/ Forget(c) \/ CallEnds(c)

CatalogueNext ==
    \/ Clock
    \/ \E m \in Movies, x \in Editions : createMovie(m, x)
    \/ \E c \in Calls : Begins(c) \/ Continues(c)

CatalogueSpec == CatalogueInit /\ [][CatalogueNext]_catalogueVars

-----------------------------------------------------------------------------
(* Properties                                                              *)

(***************************************************************************)
(* MoviesCache and ScreeningsCache: what a read returns from the cache is  *)
(* what the tables answered at most a TTL and the length of a call ago,    *)
(* whatever fails.                                                         *)
(***************************************************************************)
BoundedStaleness == entry # NULL => now < entry.asOf + CallTime + TTL[key[1]]

(***************************************************************************)
(* Invalidation: an entry that differs from the tables is about to be      *)
(* deleted, or there is a reason the code accepts: its deletion was lost,  *)
(* it was filled by a read that overlapped the write, time went by, or the *)
(* write is one of Gaps.  For the movie detail and the hall list there are *)
(* no gaps: an unpublished or deleted movie is not served once the call    *)
(* has returned.                                                           *)
(***************************************************************************)
StaleForAReason ==
    entry # NULL /\ ~ (Found(key) /\ entry.val = Answer(key)) =>
        excused \/ \E c \in Calls : call[c].at = "del"

-----------------------------------------------------------------------------
(* Refinement of Programme                                                 *)

RowOf(x) ==
    IF x \in Halls THEN hall[x]
    ELSE IF HasMovie(x) THEN "ROW" ELSE release[x]

Rows == [x \in Halls \cup Movies |-> RowOf(x)]

State == [s \in Screens |-> show[s].status]

Showing == [s \in Screens |->
              IF HasShow(s) THEN [hall |-> show[s].hall, movie |-> show[s].movie]
                            ELSE NULL]

Shown == INSTANCE Programme WITH rows <- Rows, state <- State, venue <- Showing

(***************************************************************************)
(* The tables behind the caches change as the abstract programme allows.   *)
(***************************************************************************)
TablesImplementProgramme == Shown!Spec

=============================================================================
