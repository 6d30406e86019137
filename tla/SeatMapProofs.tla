--------------------------- MODULE SeatMapProofs ---------------------------
(* Proofs about SeatMap, for any number of seats, readers and clients.     *)
EXTENDS SeatMap, ReservationTableProofs

-----------------------------------------------------------------------------
(* Types                                                                   *)

\* A seat of the map has one of the three statuses clients know.
LEMMA StatusTyped ==
    ASSUME NEW s \in Slots
    PROVE  toSeatStatus(s) \in SeatStatus
BY DEF toSeatStatus, SeatStatus

\* A map read from the table, and an empty one, are maps.
LEMMA MapsTyped == TableMap \in Maps /\ AllFree \in Maps
BY StatusTyped DEF TableMap, AllFree, Maps, SeatStatus

\* A delta carries one of the three statuses.
LEMMA AnnouncedTyped ==
    ASSUME NEW e \in Event
    PROVE  Announced(e[1]) \in SeatStatus
BY DEF Event, Announced, SeatStatus

\* The system starts with the right types.
LEMMA SeatMapTypeInit == Init => TypeOK
<1> SUFFICES ASSUME Init PROVE TypeOK
    OBVIOUS
<1>1. TableTypeOK
    BY TableTypeInit DEF Init
<1>2. 0 \in Times
    BY TimeAssumption DEF Times
<1>3. QED
    BY <1>1, <1>2, MapsTyped, SeatMapAssumption
    DEF Init, TypeOK, SeatStatus

\* Every step of the system is a step of the reservation table, or none.
LEMMA SeatMapTableStep ==
    ASSUME TypeOK, [Next]_vars
    PROVE  [TableNext]_tableVars
<1>1. ASSUME NEW r \in Ids, ReserveSeat(r)
      PROVE  TableNext
    <2>1. now + HoldTime \in Deadlines
        BY SeatMapAssumption, TimeAssumption
        DEF TypeOK, TableTypeOK, Times, Deadlines
    <2>2. QED
        BY <1>1, <2>1 DEF ReserveSeat, TableNext
<1>2. ASSUME NEW r \in Ids, ConfirmSeat(r) \/ CancelSeat(r)
      PROVE  TableNext
    BY <1>2 DEF ConfirmSeat, CancelSeat, TableNext
<1>3. CASE Clock \/ SweepSeats
    BY <1>3 DEF Clock, SweepSeats, TableNext
<1>4. CASE DropMap \/ DropFails
    BY <1>4 DEF DropMap, DropFails
<1>5. ASSUME NEW e \in Event, NEW p \in Readers, LoseEvent(e) \/ Emit(e, p)
      PROVE  UNCHANGED tableVars
    BY <1>5 DEF LoseEvent, Emit
<1>6. ASSUME NEW e \in Event, LoseEvent(e)
      PROVE  UNCHANGED tableVars
    BY <1>6 DEF LoseEvent
<1>7. ASSUME NEW p \in Readers, RequestMap(p) \/ FinishRead(p)
      PROVE  UNCHANGED tableVars
    BY <1>7 DEF RequestMap, FinishRead
<1>8. ASSUME NEW p \in Calls, ReadStep(p)
      PROVE  UNCHANGED tableVars
    BY <1>8 DEF ReadStep, LookupHit, LookupMiss, ReadTable, FillCache, FillFails
<1>9. ASSUME NEW c \in Clients,
             Join(c) \/ JoinHasSeats(c) \/ JoinRoom(c) \/ Disconnect(c)
      PROVE  UNCHANGED tableVars
    BY <1>9 DEF Join, JoinHasSeats, JoinRoom, Disconnect
<1>10. CASE UNCHANGED vars
    BY <1>10 DEF vars
<1>11. QED
    BY <1>1, <1>2, <1>3, <1>4, <1>5, <1>6, <1>7, <1>8, <1>9, <1>10 DEF Next

\* A commit keeps the types of what is not in the table.
LEMMA CommittedType ==
    ASSUME TypeOK, TableTypeOK', NEW type \in {"created", "cancelled", "confirmed"},
           NEW changed \in SUBSET Slots, Committed(type, changed)
    PROVE  TypeOK'
<1>1. <<type, changed>> \in Event
    BY DEF Event
<1>2. outbox' \in [Event -> 0 .. MaxPending]
    BY <1>1, SeatMapAssumption DEF TypeOK, Committed
<1>3. due' \in [Slots -> Event \cup {NULL}]
    BY <1>1 DEF TypeOK, Committed
<1>4. QED
    BY <1>2, <1>3 DEF TypeOK, Committed, readVars, clientVars

\* Every step keeps the types.
LEMMA SeatMapTypeStep ==
    ASSUME TypeOK, [Next]_vars
    PROVE  TypeOK'
<1>0. TableTypeOK'
    BY SeatMapTableStep, TableTypeStep DEF TypeOK
<1>t. now \in Times /\ 0 \in Times /\ Times \subseteq Nat
    BY TimeAssumption DEF TypeOK, TableTypeOK, Times
<1> Readers \subseteq Calls /\ Clients \subseteq Calls
    BY DEF Calls
<1>1. ASSUME NEW r \in Ids, ReserveSeat(r) \/ ConfirmSeat(r) \/ CancelSeat(r)
      PROVE  TypeOK'
    BY <1>0, <1>1, CommittedType, SlotAssumption
    DEF ReserveSeat, ConfirmSeat, CancelSeat
<1>2. CASE SweepSeats
    <2>1. {SlotOf[r] : r \in ExpiredHolds} \in SUBSET Slots
        BY SlotAssumption DEF ExpiredHolds
    <2>2. QED
        BY <1>0, <1>2, <2>1, CommittedType DEF SweepSeats
<1>3. CASE Clock
    BY <1>0, <1>3 DEF Clock, TypeOK, readVars, clientVars, told
<1>4. CASE DropMap \/ DropFails
    BY <1>0, <1>4, SeatMapAssumption
    DEF DropMap, DropFails, TypeOK, readVars, clientVars, told
<1>5. ASSUME NEW e \in Event, LoseEvent(e)
      PROVE  TypeOK'
    <2>1. \A s \in e[2] : s \in Slots
        BY DEF Event
    <2>2. outbox' \in [Event -> 0 .. MaxPending]
        BY <1>5, SeatMapAssumption DEF LoseEvent, TypeOK
    <2>3. due' \in [Slots -> Event \cup {NULL}]
        BY <1>5 DEF LoseEvent, TypeOK
    <2>4. excused' \in [Clients -> SUBSET Slots]
        BY <1>5, <2>1 DEF LoseEvent, TypeOK
    <2>5. QED
        BY <1>0, <1>5, <2>2, <2>3, <2>4 DEF LoseEvent, TypeOK, readVars, clientVars
<1>6. ASSUME NEW e \in Event, NEW p \in Readers, Emit(e, p)
      PROVE  TypeOK'
    <2>1. view' \in [Clients -> Maps]
        BY <1>6, AnnouncedTyped DEF Emit, TypeOK, Maps
    <2>2. outbox' \in [Event -> 0 .. MaxPending] /\ dels' \in 0 .. MaxPending
        BY <1>6, SeatMapAssumption DEF Emit, TypeOK
    <2>3. due' \in [Slots -> Event \cup {NULL}]
        BY <1>6 DEF Emit, TypeOK
    <2>4. excused' \in [Clients -> SUBSET Slots]
        <3>1. FalseOf(e) \subseteq Slots
            BY DEF FalseOf, Event
        <3>2. QED
            BY <1>6, <3>1 DEF Emit, TypeOK
    <2>5. QED
        BY <1>0, <1>6, <1>t, <2>1, <2>2, <2>3, <2>4, MapsTyped
        DEF Emit, StartRead, TypeOK
<1>7. ASSUME NEW p \in Readers, RequestMap(p) \/ FinishRead(p)
      PROVE  TypeOK'
    BY <1>0, <1>7, <1>t, MapsTyped
    DEF RequestMap, FinishRead, StartRead, EndRead, TypeOK, clientVars, told
<1>8. ASSUME NEW p \in Calls, ReadStep(p)
      PROVE  TypeOK'
    <2>1. CASE LookupHit(p)
        BY <1>0, <2>1 DEF LookupHit, TypeOK, clientVars, Entry, told
    <2>2. CASE LookupMiss(p) \/ FillFails(p)
        BY <1>0, <2>2 DEF LookupMiss, FillFails, TypeOK, clientVars, told
    <2>3. CASE ReadTable(p)
        BY <1>0, <2>3, <1>t, MapsTyped DEF ReadTable, TypeOK, clientVars, told
    <2>4. CASE FillCache(p)
        <3>1. cache' \in Entry
            BY <2>4, <1>t, SeatMapAssumption DEF FillCache, TypeOK, Entry
        <3>2. QED
            BY <1>0, <2>4, <3>1 DEF FillCache, TypeOK, clientVars, told
    <2>5. QED
        BY <1>8, <2>1, <2>2, <2>3, <2>4 DEF ReadStep
<1>9. ASSUME NEW c \in Clients,
             Join(c) \/ JoinHasSeats(c) \/ JoinRoom(c) \/ Disconnect(c)
      PROVE  TypeOK'
    BY <1>0, <1>9, <1>t, MapsTyped
    DEF Join, JoinHasSeats, JoinRoom, Disconnect, StartRead, EndRead, TypeOK,
        readVars, told
<1>10. CASE UNCHANGED vars
    BY <1>0, <1>10 DEF vars, TypeOK, readVars, clientVars, told
<1>11. QED
    BY <1>1, <1>2, <1>3, <1>4, <1>5, <1>6, <1>7, <1>8, <1>9, <1>10 DEF Next

(***************************************************************************)
(* The cache entry, the calls in flight, the pending events and the        *)
(* clients' pictures keep their types.                                     *)
(***************************************************************************)
THEOREM SeatMapTypeCorrect == Spec => []TypeOK
BY SeatMapTypeInit, SeatMapTypeStep, PTL DEF Spec

(***************************************************************************)
(* The commits behind the events are statements of the repository, so the  *)
(* theorems about the reservation table hold here too.                     *)
(***************************************************************************)
THEOREM SeatMapImplementsTable == Spec => TableSpec
<1>1. Init => TableInit
    BY DEF Init
<1>2. TypeOK /\ [Next]_vars => [TableNext]_tableVars
    BY SeatMapTableStep
<1>3. QED
    BY <1>1, <1>2, SeatMapTypeCorrect, PTL DEF Spec, TableSpec

-----------------------------------------------------------------------------
(* Staleness                                                               *)

(***************************************************************************)
(* BoundedStaleness speaks of the entry only; what makes it inductive is   *)
(* where entries come from: a map about to be stored was read after its    *)
(* call began, and no call is older than CallTime.                         *)
(***************************************************************************)
StaleInv ==
    /\ cache # NULL => cache.expires <= cache.asOf + CallTime + TTL
    /\ \A p \in Calls : step[p] = "fill" => since[p] <= asOf[p]
    /\ \A p \in Calls : step[p] # "idle" => since[p] <= now /\ now <= since[p] + CallTime

\* The numbers StaleInv compares are numbers.
LEMMA StaleTypes ==
    ASSUME TypeOK
    PROVE  /\ now \in Nat /\ CallTime \in Nat /\ TTL \in Nat
           /\ \A p \in Calls : since[p] \in Nat /\ asOf[p] \in Nat
           /\ cache # NULL => cache.expires \in Nat /\ cache.asOf \in Nat
<1>1. Times \subseteq Nat
    BY TimeAssumption DEF Times
<1>2. cache # NULL => cache.expires \in Nat /\ cache.asOf \in Nat
    BY <1>1 DEF TypeOK, Entry
<1>3. QED
    BY <1>1, <1>2, SeatMapAssumption DEF TypeOK, TableTypeOK

\* Every step keeps entries and calls from growing too old.
LEMMA StaleStep ==
    ASSUME TypeOK, StaleInv, [Next]_vars
    PROVE  StaleInv'
<1> Readers \subseteq Calls /\ Clients \subseteq Calls
    BY DEF Calls
<1>t. /\ now \in Nat /\ CallTime \in Nat /\ TTL \in Nat
      /\ \A p \in Calls : since[p] \in Nat /\ asOf[p] \in Nat
      /\ cache # NULL => cache.expires \in Nat /\ cache.asOf \in Nat
    BY StaleTypes
<1>f. /\ step \in [Calls -> {"idle", "get", "miss", "fill", "got"}]
      /\ since \in [Calls -> Times]
      /\ asOf \in [Calls -> Times]
    BY DEF TypeOK
<1>1. ASSUME NEW r \in Ids, ReserveSeat(r) \/ ConfirmSeat(r) \/ CancelSeat(r)
      PROVE  StaleInv'
    BY <1>1 DEF ReserveSeat, ConfirmSeat, CancelSeat, Committed, InsertHeld,
        Confirm, SetCancelled, StaleInv, readVars
<1>2. CASE SweepSeats
    BY <1>2 DEF SweepSeats, Committed, ReleaseExpiredHolds, StaleInv, readVars
<1>3. CASE Clock
    BY <1>3, <1>t DEF Clock, Tick, StaleInv, readVars
<1>4. CASE DropMap \/ DropFails
    BY <1>4 DEF DropMap, DropFails, StaleInv, readVars, tableVars
<1>5. ASSUME NEW e \in Event, LoseEvent(e)
      PROVE  StaleInv'
    BY <1>5 DEF LoseEvent, StaleInv, readVars, tableVars
<1>s. ASSUME NEW p \in Calls, StartRead(p) \/ EndRead(p), UNCHANGED <<tableVars, cache>>
      PROVE  StaleInv'
    BY <1>s, <1>t, <1>f DEF StartRead, EndRead, StaleInv, tableVars
<1>6. ASSUME NEW e \in Event, NEW p \in Readers, Emit(e, p)
      PROVE  StaleInv'
    BY <1>6, <1>s DEF Emit
<1>7. ASSUME NEW p \in Readers, RequestMap(p) \/ FinishRead(p)
      PROVE  StaleInv'
    BY <1>7, <1>s DEF RequestMap, FinishRead
<1>8. ASSUME NEW p \in Calls, ReadStep(p)
      PROVE  StaleInv'
    <2>1. CASE LookupHit(p) \/ LookupMiss(p) \/ FillFails(p)
        BY <2>1, <1>f DEF LookupHit, LookupMiss, FillFails, StaleInv, tableVars
    <2>2. CASE ReadTable(p)
        BY <2>2, <1>t, <1>f DEF ReadTable, StaleInv, tableVars
    <2>3. CASE FillCache(p)
        <3>1. cache'.expires = now + TTL /\ cache'.asOf = asOf[p]
            BY <2>3 DEF FillCache
        <3>2. now + TTL <= asOf[p] + CallTime + TTL
            BY <2>3, <1>t DEF FillCache, StaleInv
        <3>3. QED
            BY <2>3, <3>1, <3>2, <1>f DEF FillCache, StaleInv, tableVars
    <2>4. QED
        BY <1>8, <2>1, <2>2, <2>3 DEF ReadStep
<1>9. ASSUME NEW c \in Clients, Join(c) \/ JoinHasSeats(c) \/ JoinRoom(c)
      PROVE  StaleInv'
    BY <1>9, <1>s DEF Join, JoinHasSeats, JoinRoom
<1>10. ASSUME NEW c \in Clients, Disconnect(c)
      PROVE  StaleInv'
    BY <1>10 DEF Disconnect, StaleInv, readVars, tableVars
<1>11. CASE UNCHANGED vars
    BY <1>11 DEF vars, StaleInv, readVars, tableVars
<1>12. QED
    BY <1>1, <1>2, <1>3, <1>4, <1>5, <1>6, <1>7, <1>8, <1>9, <1>10, <1>11
    DEF Next

(***************************************************************************)
(* For any TTL and any number of readers, fills that race invalidations,   *)
(* lost events and failing Redis commands: a map served from the cache is  *)
(* never older than TTL plus one read.                                     *)
(***************************************************************************)
THEOREM SeatMapStalenessBounded == Spec => []BoundedStaleness
<1>1. Init => StaleInv
    BY DEF Init, StaleInv
<1>2. TypeOK /\ StaleInv => BoundedStaleness
    BY StaleTypes DEF StaleInv, BoundedStaleness
<1>3. TypeOK /\ StaleInv /\ [Next]_vars => StaleInv'
    BY StaleStep
<1>4. QED
    BY <1>1, <1>2, <1>3, SeatMapTypeCorrect, PTL DEF Spec

-----------------------------------------------------------------------------
(* Pictures that are wrong                                                 *)

(***************************************************************************)
(* An event that is due is pending, concerns its seat, and tells the truth *)
(* of it; with that, a picture is wrong only for a reason.                 *)
(***************************************************************************)
DueInv ==
    /\ \A s \in Slots : due[s] # NULL =>
        /\ s \in due[s][2] /\ outbox[due[s]] > 0
        /\ toSeatStatus(s) = Announced(due[s][1])
    /\ WrongForAReason

\* Reading the statuses of a seat's rows.
LEMMA SameRowsSameStatus ==
    ASSUME NEW s \in Slots,
           \A r \in Ids : SlotOf[r] = s => status'[r] = status[r]
    PROVE  toSeatStatus(s)' = toSeatStatus(s)
BY DEF toSeatStatus, RowWith

\* A commit whose event tells the truth of every seat that it changes.
LEMMA CommittedDue ==
    ASSUME TypeOK, DueInv,
           NEW type \in {"created", "cancelled", "confirmed"},
           NEW changed \in SUBSET Slots, Committed(type, changed),
           \A s \in Slots : toSeatStatus(s)' # toSeatStatus(s) =>
                s \in changed /\ toSeatStatus(s)' = Announced(type)
    PROVE  DueInv'
<1> DEFINE ev == <<type, changed>>
<1>1. ev \in Event /\ ev # NULL /\ ev[1] = type /\ ev[2] = changed
    BY NullIsNoEvent DEF Event
<1>2. outbox'[ev] > 0 /\ \A e \in Event : outbox[e] > 0 => outbox'[e] > 0
    BY <1>1, SeatMapAssumption DEF Committed, TypeOK
<1> HIDE DEF ev
<1>3. ASSUME NEW s \in Slots
      PROVE  /\ due'[s] # NULL =>
                /\ s \in due'[s][2] /\ outbox'[due'[s]] > 0
                /\ toSeatStatus(s)' = Announced(due'[s][1])
             /\ due[s] # NULL => due'[s] # NULL
             /\ toSeatStatus(s)' # toSeatStatus(s) => due'[s] # NULL
    <2>1. CASE s \in changed /\ toSeatStatus(s)' = Announced(type)
        <3>1. due'[s] = ev
            BY <2>1 DEF Committed, ev
        <3>2. QED
            BY <1>1, <1>2, <2>1, <3>1
    <2>2. CASE ~ (s \in changed /\ toSeatStatus(s)' = Announced(type))
        <3>1. due'[s] = due[s] /\ toSeatStatus(s)' = toSeatStatus(s)
            BY <2>2 DEF Committed
        <3>2. due[s] # NULL => due[s] \in Event
            BY DEF TypeOK
        <3>3. QED
            BY <1>2, <3>1, <3>2 DEF DueInv
    <2>3. QED
        BY <2>1, <2>2
<1>4. WrongForAReason'
    <2>1. UNCHANGED <<cpc, view, excused>>
        BY DEF Committed, clientVars
    <2>2. QED
        BY <1>3, <2>1 DEF WrongForAReason, DueInv, InRoom
<1>5. QED
    BY <1>3, <1>4 DEF DueInv

\* Every step gives a reason for what it leaves wrong.
LEMMA DueStep ==
    ASSUME TypeOK, NoDoubleBooking, DueInv, [Next]_vars
    PROVE  DueInv'
<1>s. ASSUME status' = status
      PROVE  \A s \in Slots : toSeatStatus(s)' = toSeatStatus(s)
    BY <1>s, SameRowsSameStatus
<1>f. status \in [Ids -> Status]
    BY DEF TypeOK, TableTypeOK
<1>1. ASSUME NEW r \in Ids, ReserveSeat(r)
      PROVE  DueInv'
    <2>1. status' = [status EXCEPT ![r] = "HELD"]
        BY <1>1 DEF ReserveSeat, InsertHeld
    <2>2. toSeatStatus(SlotOf[r])' = Announced("created")
        BY <1>f, <2>1 DEF toSeatStatus, RowWith, Announced
    <2>3. \A s \in Slots : s # SlotOf[r] => toSeatStatus(s)' = toSeatStatus(s)
        BY <1>f, <2>1, SameRowsSameStatus
    <2>4. QED
        BY <1>1, <2>2, <2>3, CommittedDue, SlotAssumption DEF ReserveSeat
<1>2. ASSUME NEW r \in Ids, ConfirmSeat(r)
      PROVE  DueInv'
    <2>1. status' = [status EXCEPT ![r] = "CONFIRMED"]
          /\ \A q \in Ids \ {r} : SlotOf[q] = SlotOf[r] => status[q] \notin Active
        BY <1>2 DEF ConfirmSeat, Confirm, IndexAdmits, Rivals
    <2>2. toSeatStatus(SlotOf[r])' = Announced("confirmed")
        BY <1>f, <2>1 DEF toSeatStatus, RowWith, Announced, Active
    <2>3. \A s \in Slots : s # SlotOf[r] => toSeatStatus(s)' = toSeatStatus(s)
        BY <1>f, <2>1, SameRowsSameStatus
    <2>4. QED
        BY <1>2, <2>2, <2>3, CommittedDue, SlotAssumption DEF ConfirmSeat
<1>3. ASSUME NEW r \in Ids, CancelSeat(r)
      PROVE  DueInv'
    <2>1. status' = [status EXCEPT ![r] = "CANCELLED"]
        BY <1>3 DEF CancelSeat, SetCancelled
    <2>2. CASE status[r] \in Active
        <3>1. \A q \in Ids \ {r} :
                SlotOf[q] = SlotOf[r] => status[q] \notin Active
            BY <2>2 DEF NoDoubleBooking
        <3>2. toSeatStatus(SlotOf[r])' = Announced("cancelled")
            BY <1>f, <2>1, <3>1 DEF toSeatStatus, RowWith, Announced, Active
        <3>3. \A s \in Slots :
                s # SlotOf[r] => toSeatStatus(s)' = toSeatStatus(s)
            BY <1>f, <2>1, SameRowsSameStatus
        <3>4. QED
            BY <1>3, <3>2, <3>3, CommittedDue, SlotAssumption DEF CancelSeat
    <2>3. CASE status[r] \notin Active
        <3>1. \A s \in Slots : toSeatStatus(s)' = toSeatStatus(s)
            BY <1>f, <2>1, <2>3 DEF toSeatStatus, RowWith, Active
        <3>2. QED
            BY <1>3, <3>1, CommittedDue, SlotAssumption DEF CancelSeat
    <2>4. QED
        BY <2>2, <2>3
<1>4. CASE SweepSeats
    <2> DEFINE swept == {SlotOf[r] : r \in ExpiredHolds}
    <2>1. swept \in SUBSET Slots
        BY SlotAssumption DEF ExpiredHolds
    <2>2. /\ \A r \in ExpiredHolds : r \in Ids /\ status[r] = "HELD"
                                      /\ status'[r] = "CANCELLED"
          /\ \A r \in Ids \ ExpiredHolds : status'[r] = status[r]
        BY <1>4 DEF SweepSeats, ReleaseExpiredHolds, ExpiredHolds
    <2>3. ASSUME NEW s \in Slots, s \in swept
          PROVE  toSeatStatus(s)' = Announced("cancelled")
        <3>1. PICK r \in ExpiredHolds : SlotOf[r] = s
            BY <2>3
        <3>2. \A q \in Ids \ {r} : SlotOf[q] = s => status[q] \notin Active
            BY <2>2, <3>1 DEF NoDoubleBooking, Active
        <3>3. \A q \in Ids : SlotOf[q] = s => status'[q] \notin Active
            BY <2>2, <3>1, <3>2 DEF Active
        <3>4. QED
            BY <3>3 DEF toSeatStatus, RowWith, Announced, Active
    <2>4. ASSUME NEW s \in Slots, s \notin swept
          PROVE  toSeatStatus(s)' = toSeatStatus(s)
        <3>1. \A r \in Ids : SlotOf[r] = s => status'[r] = status[r]
            BY <2>2, <2>4
        <3>2. QED
            BY <3>1, SameRowsSameStatus
    <2>5. Committed("cancelled", swept)
        BY <1>4 DEF SweepSeats
    <2> HIDE DEF swept
    <2>6. QED
        BY <2>1, <2>3, <2>4, <2>5, CommittedDue
<1>5. ASSUME NEW e \in Event, LoseEvent(e)
      PROVE  DueInv'
    <2> DEFINE missed == {s \in e[2] : due[s] = e /\ outbox[e] = 1}
    <2>1. /\ status' = status /\ UNCHANGED <<cpc, view>>
          /\ due' = [s \in Slots |-> IF s \in missed THEN NULL ELSE due[s]]
          /\ \A c \in InRoom : excused'[c] = excused[c] \cup missed
        BY <1>5 DEF LoseEvent, tableVars, clientVars, InRoom
    <2>2. \A f \in Event : outbox[f] > 0 /\ ~ (f = e /\ outbox[e] = 1) =>
                            outbox'[f] > 0
        BY <1>5 DEF LoseEvent, TypeOK
    <2>3. ASSUME NEW s \in Slots, due'[s] # NULL
          PROVE  /\ s \in due'[s][2] /\ outbox'[due'[s]] > 0
                 /\ toSeatStatus(s)' = Announced(due'[s][1])
        <3>1. due'[s] = due[s] /\ s \notin missed /\ due[s] \in Event
            BY <2>1, <2>3 DEF TypeOK
        <3>2. s \in due[s][2] /\ outbox[due[s]] > 0
              /\ toSeatStatus(s) = Announced(due[s][1])
            BY <2>3, <3>1 DEF DueInv
        <3>3. ~ (due[s] = e /\ outbox[e] = 1)
            BY <3>1, <3>2
        <3>4. QED
            BY <1>s, <2>1, <2>2, <3>1, <3>2, <3>3
    <2>4. WrongForAReason'
        BY <1>s, <2>1 DEF DueInv, WrongForAReason, InRoom
    <2>5. QED
        BY <2>3, <2>4 DEF DueInv
<1>6. ASSUME NEW e \in Event, NEW p \in Readers, Emit(e, p)
      PROVE  DueInv'
    <2>1. /\ status' = status /\ cpc' = cpc
          /\ due' = [s \in Slots |-> IF due[s] = e THEN NULL ELSE due[s]]
          /\ \A c \in InRoom :
                excused'[c] = (excused[c] \ TrueOf(e)) \cup FalseOf(e)
          /\ \A c \in InRoom, s \in Slots :
                view'[c][s] = IF s \in e[2] THEN Announced(e[1]) ELSE view[c][s]
        BY <1>6 DEF Emit, tableVars, InRoom
    <2>2. \A f \in Event : f # e => outbox'[f] = outbox[f]
        BY <1>6 DEF Emit, TypeOK
    <2>3. ASSUME NEW s \in Slots, due'[s] # NULL
          PROVE  /\ s \in due'[s][2] /\ outbox'[due'[s]] > 0
                 /\ toSeatStatus(s)' = Announced(due'[s][1])
        <3>1. due'[s] = due[s] /\ due[s] # e /\ due[s] \in Event
            BY <2>1, <2>3 DEF TypeOK
        <3>2. QED
            BY <1>s, <2>1, <2>2, <2>3, <3>1 DEF DueInv
    <2>4. ASSUME NEW c \in InRoom, NEW s \in Slots,
                 view'[c][s] # toSeatStatus(s)
          PROVE  due'[s] # NULL \/ s \in excused'[c]
        <3>1. CASE s \in e[2]
            <4>1. s \notin TrueOf(e) /\ due[s] # e
                BY <2>1, <2>4, <3>1, NullIsNoEvent DEF TrueOf, DueInv
            <4>2. QED
                BY <2>1, <3>1, <4>1 DEF FalseOf
        <3>2. CASE s \notin e[2]
            <4>1. due[s] # e /\ s \notin TrueOf(e)
                BY <3>2, NullIsNoEvent DEF DueInv, TrueOf
            <4>2. due[s] # NULL \/ s \in excused[c]
                BY <2>1, <2>4, <3>2 DEF DueInv, WrongForAReason
            <4>3. QED
                BY <2>1, <4>1, <4>2
        <3>3. QED
            BY <3>1, <3>2
    <2>5. WrongForAReason'
        BY <1>s, <2>1, <2>4 DEF WrongForAReason, InRoom
    <2>6. QED
        BY <2>3, <2>5 DEF DueInv
<1>q. ASSUME status' = status, UNCHANGED <<outbox, cpc, view, told>>
      PROVE  DueInv'
    BY <1>s, <1>q DEF DueInv, WrongForAReason, InRoom, told
<1>7. CASE Clock \/ DropMap \/ DropFails \/ UNCHANGED vars
    BY <1>7, <1>q
    DEF Clock, Tick, DropMap, DropFails, vars, tableVars, clientVars
<1>8. ASSUME NEW p \in Readers, RequestMap(p) \/ FinishRead(p)
      PROVE  DueInv'
    BY <1>8, <1>q DEF RequestMap, FinishRead, tableVars, clientVars
<1>9. ASSUME NEW p \in Calls, ReadStep(p)
      PROVE  DueInv'
    <2>1. status' = status /\ UNCHANGED <<outbox, cpc, view, told>>
        BY <1>9 DEF ReadStep, LookupHit, LookupMiss, ReadTable, FillCache,
            FillFails, tableVars, clientVars
    <2>2. QED
        BY <2>1, <1>q
<1>c. ASSUME NEW c \in Clients, status' = status, UNCHANGED <<outbox, due>>,
             \A d \in Clients \ {c} : /\ cpc'[d] = cpc[d]
                                      /\ view'[d] = view[d]
                                      /\ excused'[d] = excused[d],
             cpc'[c] = "in" =>
                \A s \in Slots : view'[c][s] # toSeatStatus(s) =>
                    due[s] # NULL \/ s \in excused'[c]
      PROVE  DueInv'
    BY <1>s, <1>c DEF DueInv, WrongForAReason, InRoom
<1>10. ASSUME NEW c \in Clients, Join(c) \/ JoinHasSeats(c) \/ Disconnect(c)
      PROVE  DueInv'
    <2>1. cpc'[c] # "in"
        BY <1>10 DEF Join, JoinHasSeats, Disconnect, TypeOK
    <2>2. status' = status /\ UNCHANGED <<outbox, due>>
          /\ \A d \in Clients \ {c} : /\ cpc'[d] = cpc[d]
                                      /\ view'[d] = view[d]
                                      /\ excused'[d] = excused[d]
        BY <1>10 DEF Join, JoinHasSeats, Disconnect, tableVars, told, TypeOK
    <2>3. QED
        BY <1>c, <2>1, <2>2
<1>11. ASSUME NEW c \in Clients, JoinRoom(c)
      PROVE  DueInv'
    <2>1. status' = status /\ UNCHANGED <<outbox, due>>
          /\ \A d \in Clients \ {c} : /\ cpc'[d] = cpc[d]
                                      /\ view'[d] = view[d]
                                      /\ excused'[d] = excused[d]
        BY <1>11 DEF JoinRoom, tableVars, TypeOK
    <2>2. view'[c] = seats[c]
          /\ excused'[c] =
                {s \in Slots : due[s] = NULL /\ seats[c][s] # toSeatStatus(s)}
        BY <1>11 DEF JoinRoom, TypeOK
    <2>3. QED
        BY <1>c, <2>1, <2>2
<1>12. QED
    BY <1>1, <1>2, <1>3, <1>4, <1>5, <1>6, <1>7, <1>8, <1>9, <1>10, <1>11
    DEF Next

(***************************************************************************)
(* For any number of reservations, seats and clients, and events that are  *)
(* emitted in any order or lost: whoever is in the room sees a seat as it  *)
(* is, or its event is still to come, or the picture went wrong in one of  *)
(* the three ways that WrongForAReason names.  That the announcements of a *)
(* release are true of its seats rests on NoDoubleBooking.                 *)
(***************************************************************************)
THEOREM SeatMapWrongForAReason == Spec => []WrongForAReason
<1>1. Init => DueInv
    <2> SUFFICES ASSUME Init PROVE DueInv
        OBVIOUS
    <2>1. \A s \in Slots : due[s] = NULL
        BY DEF Init
    <2>2. InRoom = {}
        BY DEF Init, InRoom
    <2>3. QED
        BY <2>1, <2>2 DEF DueInv, WrongForAReason
<1>2. DueInv => WrongForAReason
    BY DEF DueInv
<1>3. TypeOK /\ NoDoubleBooking /\ DueInv /\ [Next]_vars => DueInv'
    BY DueStep
<1>4. Spec => []NoDoubleBooking
    BY SeatMapImplementsTable, TableNoDoubleBooking, PTL
<1>5. QED
    BY <1>1, <1>2, <1>3, <1>4, SeatMapTypeCorrect, PTL DEF Spec

=============================================================================
