------------------------------ MODULE SeatMap ------------------------------
(***************************************************************************)
(* What people see of one screening: the seat map that ScreeningsService   *)
(* reads through a Redis cache, the two listeners of reservation.* events  *)
(* and the WebSocket room.  Slots are the seats of the screening's hall.   *)
(* Screenings share no cache key and no room.                              *)
(*                                                                         *)
(* A service commits its statement, and emits its event when the answer of *)
(* the database has come back; answers to different calls come back in any *)
(* order.                                                                  *)
(***************************************************************************)
EXTENDS ReservationTable

CONSTANTS
    Readers,    \* HTTP seat-map requests and summary broadcasts in flight
    Clients,    \* WebSocket clients
    HoldTime,   \* HOLD_MINUTES, in ticks
    TTL,        \* SEAT_MAP_TTL_SECONDS, in ticks
    CallTime,   \* bound: clock ticks a seat-map read may straddle
    MaxPending, \* bound: equal events, and DEL commands, under way at a time
    Faults      \* may Redis refuse, or a process stop before it emits?

ASSUME SeatMapAssumption ==
    /\ HoldTime \in 1 .. MaxHold
    /\ TTL \in Nat \ {0}
    /\ CallTime \in Nat
    /\ MaxPending \in Nat \ {0}
    /\ Faults \in BOOLEAN
    /\ Readers \cap Clients = {}

VARIABLES
    outbox,     \* outbox[e]: committed changes whose event e is not emitted yet
    dels,       \* DEL commands on their way to Redis
    cache,      \* the cached entry, or NULL
    step,       \* where each getSeatMap call is
    since,      \* when it began
    map, asOf,  \* the map it has in hand, and when that map was read
    cpc,        \* where each client is
    seats,      \* the map that handleJoin has for the acknowledgement
    view,       \* the picture a client in the room has of the seats
    due,        \* history: the event that announces a seat's status, not emitted
    excused     \* history: seats of which a client's picture has gone wrong

readVars == <<step, since, map, asOf>>
clientVars == <<cpc, seats, view>>
told == <<due, excused>>
vars == <<tableVars, outbox, dels, cache, readVars, clientVars, told>>

-----------------------------------------------------------------------------
SeatStatus == {"AVAILABLE", "HELD", "BOOKED"}
Maps == [Slots -> SeatStatus]
Event == {"created", "cancelled", "confirmed"} \X SUBSET Slots
Calls == Readers \cup Clients

Entry == [map : Maps, asOf : Times, expires : Nat]

ASSUME NullIsNoEvent == NULL \notin Event

TypeOK ==
    /\ TableTypeOK
    /\ outbox \in [Event -> 0 .. MaxPending]
    /\ dels \in 0 .. MaxPending
    /\ cache \in Entry \cup {NULL}
    /\ step \in [Calls -> {"idle", "get", "miss", "fill", "got"}]
    /\ since \in [Calls -> Times]
    /\ map \in [Calls -> Maps]
    /\ asOf \in [Calls -> Times]
    /\ cpc \in [Clients -> {"out", "seats", "summary", "in"}]
    /\ seats \in [Clients -> Maps]
    /\ view \in [Clients -> Maps]
    /\ due \in [Slots -> Event \cup {NULL}]
    /\ excused \in [Clients -> SUBSET Slots]

RowWith(s, st) == \E r \in Ids : SlotOf[r] = s /\ status[r] = st

\* Mutant: a booked seat is shown with its reservation's status.
toSeatStatusRaw(s) ==
    IF RowWith(s, "HELD") THEN "HELD"
    ELSE IF RowWith(s, "CONFIRMED") THEN "CONFIRMED" ELSE "AVAILABLE"

\* The status as the table has it now: at most one active row per seat.
toSeatStatus(s) ==
    IF RowWith(s, "HELD") THEN "HELD"
    ELSE IF RowWith(s, "CONFIRMED") THEN "BOOKED" ELSE "AVAILABLE"

TableMap == [s \in Slots |-> toSeatStatus(s)]

AllFree == [s \in Slots |-> "AVAILABLE"]

Init ==
    /\ TableInit
    /\ outbox = [e \in Event |-> 0]
    /\ dels = 0
    /\ cache = NULL
    /\ step = [p \in Calls |-> "idle"]
    /\ since = [p \in Calls |-> 0]
    /\ map = [p \in Calls |-> AllFree]
    /\ asOf = [p \in Calls |-> 0]
    /\ cpc = [c \in Clients |-> "out"]
    /\ seats = [c \in Clients |-> AllFree]
    /\ view = [c \in Clients |-> AllFree]
    /\ due = [s \in Slots |-> NULL]
    /\ excused = [c \in Clients |-> {}]

InRoom == {c \in Clients : cpc[c] = "in"}

Announced(type) ==
    [created |-> "HELD", confirmed |-> "BOOKED", cancelled |-> "AVAILABLE"][type]

-----------------------------------------------------------------------------
(* Commits, each followed by an event                                      *)

Committed(type, changed) ==
    /\ outbox[<<type, changed>>] < MaxPending
    /\ outbox' = [outbox EXCEPT ![<<type, changed>>] = @ + 1]
    /\ due' = [s \in Slots |->
                IF s \in changed /\ toSeatStatus(s)' = Announced(type)
                THEN <<type, changed>> ELSE due[s]]
    /\ UNCHANGED <<dels, cache, readVars, clientVars, excused>>

ReserveSeat(r) ==
    InsertHeld(r, now + HoldTime) /\ Committed("created", {SlotOf[r]})

\* confirmPayment, and reconciliation of a paid session.
ConfirmSeat(r) == Confirm(r) /\ Committed("confirmed", {SlotOf[r]})

\* finalizeCancel, and reconciliation of an unpaid session.
CancelSeat(r) == SetCancelled(r) /\ Committed("cancelled", {SlotOf[r]})

\* Mutant: the released seats are not announced.
SweepUnannounced ==
    /\ ReleaseExpiredHolds
    /\ UNCHANGED <<outbox, dels, cache, readVars, clientVars, told>>

\* One event for all the seats of the screening that the sweep released.
SweepSeats ==
    /\ ReleaseExpiredHolds
    /\ Committed("cancelled", {SlotOf[r] : r \in ExpiredHolds})

\* The process stops after the commit, or the breaker has already answered
\* the call: the event is never emitted.
LoseEvent(e) ==
    /\ Faults
    /\ outbox[e] > 0
    /\ outbox' = [outbox EXCEPT ![e] = @ - 1]
    /\ LET missed == {s \in e[2] : due[s] = e /\ outbox[e] = 1} IN
        /\ due' = [s \in Slots |-> IF s \in missed THEN NULL ELSE due[s]]
        /\ excused' = [c \in Clients |->
                        IF c \in InRoom THEN excused[c] \cup missed
                                        ELSE excused[c]]
    /\ UNCHANGED <<tableVars, dels, cache, readVars, clientVars>>

-----------------------------------------------------------------------------
(* getSeatMap                                                              *)

\* Mutant: every hit prolongs the life of the entry.
LookupProlongs(p) ==
    /\ step[p] = "get"
    /\ cache # NULL
    /\ now < cache.expires
    /\ cache' = [cache EXCEPT !.expires = now + TTL]
    /\ map' = [map EXCEPT ![p] = cache.map]
    /\ step' = [step EXCEPT ![p] = "got"]
    /\ UNCHANGED <<tableVars, outbox, dels, since, asOf, clientVars, told>>

LookupHit(p) ==
    /\ step[p] = "get"
    /\ cache # NULL
    /\ now < cache.expires
    /\ map' = [map EXCEPT ![p] = cache.map]
    /\ step' = [step EXCEPT ![p] = "got"]
    /\ UNCHANGED <<tableVars, outbox, dels, cache, since, asOf, clientVars, told>>

\* No entry, an entry past its TTL, or an error that counts as a miss.
LookupMiss(p) ==
    /\ step[p] = "get"
    /\ cache # NULL => cache.expires <= now \/ Faults
    /\ step' = [step EXCEPT ![p] = "miss"]
    /\ UNCHANGED <<tableVars, outbox, dels, cache, since, map, asOf, clientVars,
                   told>>

\* findActiveReservations is one statement: the map is a consistent snapshot.
ReadTable(p) ==
    /\ step[p] = "miss"
    /\ map' = [map EXCEPT ![p] = TableMap]
    /\ asOf' = [asOf EXCEPT ![p] = now]
    /\ step' = [step EXCEPT ![p] = "fill"]
    /\ UNCHANGED <<tableVars, outbox, dels, cache, since, clientVars, told>>

FillCache(p) ==
    /\ step[p] = "fill"
    /\ cache' = [map |-> map[p], asOf |-> asOf[p], expires |-> now + TTL]
    /\ step' = [step EXCEPT ![p] = "got"]
    /\ UNCHANGED <<tableVars, outbox, dels, since, map, asOf, clientVars, told>>

\* setSeatMap swallows the error.
FillFails(p) ==
    /\ Faults
    /\ step[p] = "fill"
    /\ step' = [step EXCEPT ![p] = "got"]
    /\ UNCHANGED <<tableVars, outbox, dels, cache, since, map, asOf, clientVars,
                   told>>

StartRead(p) ==
    /\ step' = [step EXCEPT ![p] = "get"]
    /\ since' = [since EXCEPT ![p] = now]
    /\ map' = [map EXCEPT ![p] = AllFree]
    /\ asOf' = [asOf EXCEPT ![p] = 0]

\* The call returns and its local variables are gone.
EndRead(p) ==
    /\ step' = [step EXCEPT ![p] = "idle"]
    /\ since' = [since EXCEPT ![p] = 0]
    /\ map' = [map EXCEPT ![p] = AllFree]
    /\ asOf' = [asOf EXCEPT ![p] = 0]

\* GET /screenings/:id/seats
RequestMap(p) ==
    /\ step[p] = "idle"
    /\ StartRead(p)
    /\ UNCHANGED <<tableVars, outbox, dels, cache, clientVars, told>>

\* The map goes to the caller or, as a summary, to the room.
FinishRead(p) ==
    /\ step[p] = "got"
    /\ EndRead(p)
    /\ UNCHANGED <<tableVars, outbox, dels, cache, clientVars, told>>

-----------------------------------------------------------------------------
(* The listeners of an event                                               *)

\* invalidateSeatMap listens to two of the three events.
Invalidates(type) == type \in {"created", "cancelled"}

\* Seats of which event e tells the truth, as it is emitted.
TrueOf(e) == {s \in e[2] : toSeatStatus(s) = Announced(e[1])}

\* Seats of which it does not, while nothing is to come that does.
FalseOf(e) == {s \in e[2] \ TrueOf(e) : due[s] = NULL}

\* emit runs both listeners up to their first await: the delta is in the
\* room, the DEL and the first GET of the summary are on their way.
Emit(e, p) ==
    /\ outbox[e] > 0
    /\ outbox' = [outbox EXCEPT ![e] = @ - 1]
    /\ view' = [c \in Clients |-> [s \in Slots |->
                    IF c \in InRoom /\ s \in e[2] THEN Announced(e[1])
                                                  ELSE view[c][s]]]
    /\ IF Invalidates(e[1]) THEN dels < MaxPending /\ dels' = dels + 1
                            ELSE UNCHANGED dels
    /\ step[p] = "idle"
    /\ StartRead(p)
    /\ due' = [s \in Slots |-> IF due[s] = e THEN NULL ELSE due[s]]
    /\ excused' = [c \in Clients |->
                    IF c \in InRoom THEN (excused[c] \ TrueOf(e)) \cup FalseOf(e)
                                    ELSE excused[c]]
    /\ UNCHANGED <<tableVars, cache, cpc, seats>>

DropMap ==
    /\ dels > 0
    /\ dels' = dels - 1
    /\ cache' = NULL
    /\ UNCHANGED <<tableVars, outbox, readVars, clientVars, told>>

\* delSeatMap swallows the error.
DropFails ==
    /\ Faults
    /\ dels > 0
    /\ dels' = dels - 1
    /\ UNCHANGED <<tableVars, outbox, cache, readVars, clientVars, told>>

-----------------------------------------------------------------------------
(* handleJoin                                                              *)

Join(c) ==
    /\ cpc[c] = "out"
    /\ step[c] = "idle"
    /\ cpc' = [cpc EXCEPT ![c] = "seats"]
    /\ StartRead(c)
    /\ UNCHANGED <<tableVars, outbox, dels, cache, seats, view, told>>

\* The first read gives the seats; getScreeningSummary reads again.
JoinHasSeats(c) ==
    /\ cpc[c] = "seats"
    /\ step[c] = "got"
    /\ seats' = [seats EXCEPT ![c] = map[c]]
    /\ cpc' = [cpc EXCEPT ![c] = "summary"]
    /\ StartRead(c)
    /\ UNCHANGED <<tableVars, outbox, dels, cache, view, told>>

\* Only now does the client enter the room; the acknowledgement follows.
JoinRoom(c) ==
    /\ cpc[c] = "summary"
    /\ step[c] = "got"
    /\ EndRead(c)
    /\ view' = [view EXCEPT ![c] = seats[c]]
    /\ seats' = [seats EXCEPT ![c] = AllFree]
    /\ cpc' = [cpc EXCEPT ![c] = "in"]
    /\ excused' = [excused EXCEPT ![c] =
                    {s \in Slots : due[s] = NULL /\ seats[c][s] # toSeatStatus(s)}]
    /\ UNCHANGED <<tableVars, outbox, dels, cache, due>>

Disconnect(c) ==
    /\ cpc[c] = "in"
    /\ cpc' = [cpc EXCEPT ![c] = "out"]
    /\ view' = [view EXCEPT ![c] = AllFree]
    /\ excused' = [excused EXCEPT ![c] = {}]
    /\ UNCHANGED <<tableVars, outbox, dels, cache, readVars, seats, due>>

\* HTTP, Prisma and Redis timeouts end a read that takes too long.
Clock ==
    /\ \A p \in Calls : step[p] # "idle" => now < since[p] + CallTime
    /\ Tick
    /\ UNCHANGED <<outbox, dels, cache, readVars, clientVars, told>>

-----------------------------------------------------------------------------
ReadStep(p) ==
    \/ LookupHit(p) \/ LookupMiss(p) \/ ReadTable(p) \/ FillCache(p)
    \/ FillFails(p)

Next ==
    \/ Clock \/ SweepSeats \/ DropMap \/ DropFails
    \/ \E r \in Ids : ReserveSeat(r) \/ ConfirmSeat(r) \/ CancelSeat(r)
    \/ \E e \in Event : LoseEvent(e) \/ \E p \in Readers : Emit(e, p)
    \/ \E p \in Readers : RequestMap(p) \/ FinishRead(p)
    \/ \E p \in Calls : ReadStep(p)
    \/ \E c \in Clients :
        Join(c) \/ JoinHasSeats(c) \/ JoinRoom(c) \/ Disconnect(c)

Spec == Init /\ [][Next]_vars

-----------------------------------------------------------------------------
(* Properties                                                              *)

(***************************************************************************)
(* getSeatMap: whatever goes wrong with events, DEL commands and racing    *)
(* fills, a map that a reader takes from the cache is at most TTL and one  *)
(* read older than the table.                                              *)
(***************************************************************************)
BoundedStaleness ==
    cache # NULL /\ now < cache.expires => now < cache.asOf + CallTime + TTL

(***************************************************************************)
(* The deltas keep a room up to date: whoever is in it has every seat as   *)
(* the table has it, or the event that will say so is still to come.  Only *)
(* this spoils a picture, until a true delta repairs it: the event is      *)
(* lost; the last delta to arrive was not true any more, because events    *)
(* overtook each other or a dead reservation was cancelled once more; or   *)
(* the acknowledgement was out of date when it was given, and the delta    *)
(* had gone to the room before the client was in it.                       *)
(***************************************************************************)
WrongForAReason ==
    \A c \in InRoom, s \in Slots :
        view[c][s] # toSeatStatus(s) => due[s] # NULL \/ s \in excused[c]

=============================================================================
