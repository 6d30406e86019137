----------------------- MODULE ReservationTableProofs -----------------------
(* Proofs about ReservationTable, for any number of rows and slots.        *)
EXTENDS ReservationTable, TLAPS

-----------------------------------------------------------------------------
(* Type correctness                                                        *)

\* The empty table has the right types.
LEMMA TableTypeInit == TableInit => TableTypeOK
BY TimeAssumption DEF TableInit, TableTypeOK, Times, Deadlines, Status

\* Every statement keeps the types of the columns.
LEMMA TableTypeStep ==
    ASSUME TableTypeOK, [TableNext]_tableVars
    PROVE  TableTypeOK'
<1> USE TimeAssumption DEF TableTypeOK, Times, Deadlines, Status
<1>1. CASE Tick
    BY <1>1 DEF Tick
<1>2. CASE ReleaseExpiredHolds
    BY <1>2 DEF ReleaseExpiredHolds
<1>3. ASSUME NEW r \in Ids, Confirm(r)
      PROVE  TableTypeOK'
    BY <1>3 DEF Confirm
<1>4. ASSUME NEW r \in Ids, SetCancelled(r)
      PROVE  TableTypeOK'
    BY <1>4 DEF SetCancelled
<1>5. ASSUME NEW r \in Ids, NEW until \in Deadlines, InsertHeld(r, until)
      PROVE  TableTypeOK'
    BY <1>5 DEF InsertHeld
<1>6. ASSUME NEW r \in Ids, NEW until \in Deadlines, ExtendHold(r, until)
      PROVE  TableTypeOK'
    BY <1>6 DEF ExtendHold
<1>7. CASE UNCHANGED tableVars
    BY <1>7 DEF tableVars
<1>8. QED
    BY <1>1, <1>2, <1>3, <1>4, <1>5, <1>6, <1>7 DEF TableNext

(***************************************************************************)
(* The columns of the reservation table keep their types under any mix of  *)
(* the repository's statements.                                            *)
(***************************************************************************)
THEOREM TableTypeCorrect == TableSpec => []TableTypeOK
BY TableTypeInit, TableTypeStep, PTL DEF TableSpec

-----------------------------------------------------------------------------
(* The partial unique index                                                *)

\* The index keeps every statement from making a second active row.
LEMMA NoDoubleBookingStep ==
    ASSUME TableTypeOK, NoDoubleBooking, [TableNext]_tableVars
    PROVE  NoDoubleBooking'
<1> USE DEF TableTypeOK, NoDoubleBooking, Active, Status
<1>1. CASE Tick
    BY <1>1 DEF Tick
<1>2. CASE ReleaseExpiredHolds
    BY <1>2 DEF ReleaseExpiredHolds
<1>3. ASSUME NEW r \in Ids, Confirm(r)
      PROVE  NoDoubleBooking'
    BY <1>3 DEF Confirm, IndexAdmits, Rivals
<1>4. ASSUME NEW r \in Ids, SetCancelled(r)
      PROVE  NoDoubleBooking'
    BY <1>4 DEF SetCancelled
<1>5. ASSUME NEW r \in Ids, NEW until \in Deadlines, InsertHeld(r, until)
      PROVE  NoDoubleBooking'
    BY <1>5 DEF InsertHeld, IndexAdmits, Rivals
<1>6. ASSUME NEW r \in Ids, NEW until \in Deadlines, ExtendHold(r, until)
      PROVE  NoDoubleBooking'
    BY <1>6 DEF ExtendHold
<1>7. CASE UNCHANGED tableVars
    BY <1>7 DEF tableVars
<1>8. QED
    BY <1>1, <1>2, <1>3, <1>4, <1>5, <1>6, <1>7 DEF TableNext

(***************************************************************************)
(* A seat of a screening never has two active reservations, however many   *)
(* callers hold, confirm, cancel and sweep in whatever order.              *)
(***************************************************************************)
THEOREM TableNoDoubleBooking == TableSpec => []NoDoubleBooking
<1>1. TableInit => NoDoubleBooking
    BY DEF TableInit, NoDoubleBooking, Active
<1>2. QED
    BY <1>1, TableTypeCorrect, NoDoubleBookingStep, PTL DEF TableSpec

-----------------------------------------------------------------------------
(* Deadlines of holds                                                      *)

(***************************************************************************)
(* Every HELD row has a heldUntil, so the expiry sweep can always reach    *)
(* it: no seat is held for ever.                                           *)
(***************************************************************************)
THEOREM TableHeldHasDeadline == TableSpec => []HeldHasDeadline
<1>1. TableInit => HeldHasDeadline
    BY DEF TableInit, HeldHasDeadline
<1>2. ASSUME TableTypeOK, HeldHasDeadline, [TableNext]_tableVars
      PROVE  HeldHasDeadline'
    <2>1. \A until \in Deadlines : until # NULL
        BY NullAssumption, TimeAssumption DEF Deadlines
    <2> USE <1>2 DEF TableTypeOK, HeldHasDeadline
    <2>2. CASE Tick \/ UNCHANGED tableVars
        BY <2>2 DEF Tick, tableVars
    <2>3. CASE ReleaseExpiredHolds
        BY <2>3 DEF ReleaseExpiredHolds, ExpiredHolds
    <2>4. ASSUME NEW r \in Ids, Confirm(r) \/ SetCancelled(r)
          PROVE  HeldHasDeadline'
        BY <2>4 DEF Confirm, SetCancelled
    <2>5. ASSUME NEW r \in Ids, NEW until \in Deadlines,
                 InsertHeld(r, until) \/ ExtendHold(r, until)
          PROVE  HeldHasDeadline'
        BY <2>1, <2>5 DEF InsertHeld, ExtendHold
    <2>6. QED
        BY <2>2, <2>3, <2>4, <2>5 DEF TableNext
<1>3. QED
    BY <1>1, <1>2, TableTypeCorrect, PTL DEF TableSpec

-----------------------------------------------------------------------------
(* The table implements SeatInventory                                      *)

\* What Owner and Booked say when no slot is doubly booked.
OwnerFacts ==
    /\ \A r \in Ids : status[r] \in Active => OwnerOf(SlotOf[r]) = r
    /\ \A s \in Slots :
        (\A r \in Ids : SlotOf[r] = s => status[r] \notin Active)
            => OwnerOf(s) = NULL
    /\ \A s \in Slots :
        s \in Booked <=> \E r \in Ids : SlotOf[r] = s /\ status[r] = "CONFIRMED"

\* Without double booking, the owner of a slot is its one active row.
LEMMA OwnerLemma == NoDoubleBooking => OwnerFacts
<1> SUFFICES ASSUME NoDoubleBooking
             PROVE  OwnerFacts
    OBVIOUS
<1>1. ASSUME NEW r \in Ids, status[r] \in Active
      PROVE  OwnerOf(SlotOf[r]) = r
    <2>1. Owners(SlotOf[r]) = {r}
        BY <1>1 DEF Owners, NoDoubleBooking
    <2>2. QED
        BY <2>1 DEF OwnerOf
<1>2. ASSUME NEW s \in Slots,
             \A r \in Ids : SlotOf[r] = s => status[r] \notin Active
      PROVE  OwnerOf(s) = NULL
    BY <1>2 DEF OwnerOf, Owners
<1>3. ASSUME NEW s \in Slots
      PROVE  s \in Booked <=>
                \E r \in Ids : SlotOf[r] = s /\ status[r] = "CONFIRMED"
    BY DEF Booked, Owners, Active
<1>4. QED
    BY <1>1, <1>2, <1>3 DEF OwnerFacts

\* A step that frees the slots of the rows in R and changes no other slot.
LEMMA ReleaseLemma ==
    ASSUME TableTypeOK, OwnerFacts, OwnerFacts', NEW R \in SUBSET Ids,
           \A r \in R : status[r] \in Active,
           NoDoubleBooking,
           status' = [r \in Ids |-> IF r \in R THEN "CANCELLED" ELSE status[r]]
    PROVE  Inventory!Release({SlotOf[r] : r \in R})
<1> DEFINE S == {SlotOf[r] : r \in R}
<1>1. ASSUME NEW s \in Slots, s \in S
      PROVE  OwnerOf(s)' = NULL /\ s \notin Booked'
    <2>1. PICK p \in R : SlotOf[p] = s
        BY <1>1
    <2>2. \A r \in Ids : SlotOf[r] = s => status'[r] \notin Active
        BY <2>1 DEF NoDoubleBooking, Active, TableTypeOK, Status
    <2>3. QED
        BY <2>2 DEF OwnerFacts, Active
<1>2. ASSUME NEW s \in Slots, s \notin S
      PROVE  OwnerOf(s)' = OwnerOf(s) /\ (s \in Booked' <=> s \in Booked)
    <2>1. \A r \in Ids : SlotOf[r] = s => status'[r] = status[r]
        BY <1>2
    <2>2. QED
        BY <2>1 DEF OwnerFacts
<1>3. Owner' = [s \in Slots |-> IF s \in S THEN NULL ELSE Owner[s]]
    BY <1>1, <1>2 DEF Owner
<1>4. Booked' = Booked \ S
    BY <1>1, <1>2 DEF Booked
<1>5. QED
    BY <1>3, <1>4 DEF Inventory!Release

\* A step after which only slot s may have a new owner, namely r.
LEMMA TakeLemma ==
    ASSUME TableTypeOK, OwnerFacts, OwnerFacts', NEW r \in Ids,
           IndexAdmits(r),
           NEW t \in Active,
           status' = [status EXCEPT ![r] = t]
    PROVE  /\ Owner' = [Owner EXCEPT ![SlotOf[r]] = r]
           /\ t = "CONFIRMED" => Booked' = Booked \cup {SlotOf[r]}
           /\ t = "HELD" /\ status[r] # "CONFIRMED" => Booked' = Booked
           /\ status[r] \notin Active => Owner[SlotOf[r]] = NULL
           /\ status[r] \in Active => Owner[SlotOf[r]] = r
<1>1. OwnerOf(SlotOf[r])' = r
    BY DEF OwnerFacts, TableTypeOK
<1>2. ASSUME NEW s \in Slots, s # SlotOf[r]
      PROVE  OwnerOf(s)' = OwnerOf(s) /\ (s \in Booked' <=> s \in Booked)
    <2>1. \A q \in Ids : SlotOf[q] = s => status'[q] = status[q]
        BY <1>2 DEF TableTypeOK
    <2>2. QED
        BY <2>1 DEF OwnerFacts
<1>3. Owner' = [Owner EXCEPT ![SlotOf[r]] = r]
    BY <1>1, <1>2, SlotAssumption DEF Owner
<1>4. SlotOf[r] \in Booked' <=> t = "CONFIRMED"
    <2>1. status'[r] = t
        BY DEF TableTypeOK
    <2>2. \A q \in Ids : SlotOf[q] = SlotOf[r] /\ q # r =>
            status'[q] # "CONFIRMED"
        BY DEF IndexAdmits, Rivals, TableTypeOK, Active
    <2>3. SlotOf[r] \in Slots
        BY SlotAssumption
    <2>4. SlotOf[r] \in Booked' <=>
            \E q \in Ids : SlotOf[q] = SlotOf[r] /\ status'[q] = "CONFIRMED"
        BY <2>3 DEF OwnerFacts
    <2>5. QED
        BY <2>1, <2>2, <2>4
<1>5. SlotOf[r] \in Booked <=> status[r] = "CONFIRMED"
    BY SlotAssumption DEF OwnerFacts, IndexAdmits, Rivals, Active
<1>6. /\ t = "CONFIRMED" => Booked' = Booked \cup {SlotOf[r]}
      /\ t = "HELD" /\ status[r] # "CONFIRMED" => Booked' = Booked
    BY <1>2, <1>4, <1>5, SlotAssumption DEF Booked
<1>7. status[r] \notin Active => Owner[SlotOf[r]] = NULL
    BY SlotAssumption DEF OwnerFacts, Owner, IndexAdmits, Rivals
<1>8. status[r] \in Active => Owner[SlotOf[r]] = r
    BY SlotAssumption DEF OwnerFacts, Owner
<1>9. QED
    BY <1>3, <1>6, <1>7, <1>8

\* Every statement is a step of the abstract inventory, or a stutter.
LEMMA InventoryStep ==
    ASSUME TableTypeOK, NoDoubleBooking, OwnerFacts, OwnerFacts',
           [TableNext]_tableVars
    PROVE  [Inventory!Next]_<<Owner, Booked>>
<1>1. ASSUME UNCHANGED status
      PROVE  UNCHANGED <<Owner, Booked>>
    BY <1>1 DEF Owner, Booked, OwnerOf, Owners
<1>2. CASE ReleaseExpiredHolds
    <2>1. Inventory!Release({SlotOf[r] : r \in ExpiredHolds})
        BY <1>2, ReleaseLemma
        DEF ReleaseExpiredHolds, ExpiredHolds, Active
    <2>2. {SlotOf[r] : r \in ExpiredHolds} \in SUBSET Slots
        BY SlotAssumption DEF ExpiredHolds
    <2>3. QED
        BY <2>1, <2>2 DEF Inventory!Next
<1>3. ASSUME NEW r \in Ids, SetCancelled(r)
      PROVE  [Inventory!Next]_<<Owner, Booked>>
    <2>1. CASE status[r] \in Active
        <3>1. status' = [q \in Ids |-> IF q \in {r} THEN "CANCELLED"
                                                    ELSE status[q]]
            BY <1>3 DEF SetCancelled, TableTypeOK
        <3>2. Inventory!Release({SlotOf[q] : q \in {r}})
            BY <2>1, <3>1, ReleaseLemma
        <3>3. {SlotOf[q] : q \in {r}} \in SUBSET Slots
            BY SlotAssumption
        <3>4. QED
            BY <3>2, <3>3 DEF Inventory!Next
    <2>2. CASE status[r] \notin Active
        <3>1. UNCHANGED status
            BY <1>3, <2>2 DEF SetCancelled, TableTypeOK, Status, Active
        <3>2. QED
            BY <3>1, <1>1
    <2>3. QED
        BY <2>1, <2>2
<1>4. ASSUME NEW r \in Ids, Confirm(r)
      PROVE  Inventory!Next
    <2>1. /\ Owner' = [Owner EXCEPT ![SlotOf[r]] = r]
          /\ Booked' = Booked \cup {SlotOf[r]}
          /\ status[r] \notin Active => Owner[SlotOf[r]] = NULL
          /\ status[r] \in Active => Owner[SlotOf[r]] = r
        BY <1>4, TakeLemma DEF Confirm, Active
    <2>2. CASE status[r] \notin Active
        BY <2>1, <2>2, SlotAssumption
        DEF Inventory!Next, Inventory!Reinstate
    <2>3. CASE status[r] \in Active
        <3>1. Owner' = Owner
            BY <2>1, <2>3 DEF Owner
        <3>2. r # NULL
            BY NullAssumption
        <3>3. QED
            BY <2>1, <2>3, <3>1, <3>2, SlotAssumption
            DEF Inventory!Next, Inventory!Book
    <2>4. QED
        BY <2>2, <2>3
<1>5. ASSUME NEW r \in Ids, NEW until \in Deadlines, InsertHeld(r, until)
      PROVE  Inventory!Next
    <2>1. /\ Owner' = [Owner EXCEPT ![SlotOf[r]] = r]
          /\ Booked' = Booked
          /\ Owner[SlotOf[r]] = NULL
        BY <1>5, TakeLemma DEF InsertHeld, Active
    <2>2. QED
        BY <2>1, SlotAssumption DEF Inventory!Next, Inventory!Hold
<1>6. ASSUME NEW r \in Ids, NEW until \in Deadlines, ExtendHold(r, until)
      PROVE  UNCHANGED <<Owner, Booked>>
    BY <1>1, <1>6 DEF ExtendHold
<1>7. CASE Tick \/ UNCHANGED tableVars
    BY <1>1, <1>7 DEF Tick, tableVars
<1>8. QED
    BY <1>2, <1>3, <1>4, <1>5, <1>6, <1>7 DEF TableNext

(***************************************************************************)
(* The reservation table implements the abstract inventory: a seat changes *)
(* hands only by becoming free, and only payment books it.                 *)
(***************************************************************************)
THEOREM TableImplementsInventory == TableSpec => ImplementsInventory
<1>1. TableInit => Inventory!Init
    BY SlotAssumption
    DEF TableInit, Inventory!Init, Owner, Booked, OwnerOf, Owners, Active
<1>2. QED
    BY <1>1, TableTypeCorrect, TableNoDoubleBooking, OwnerLemma, InventoryStep,
       PTL
    DEF TableSpec, ImplementsInventory, Inventory!Spec

=============================================================================
