--------------------------- MODULE MCReservations ---------------------------
(* Small instances of Reservations for TLC.                                *)
EXTENDS Reservations, TLC

CONSTANTS r1, r2, r3, seatA, seatB, s1, s2, k1

\* Two calls race for seat A of screening s1; the third wants the same seat
\* row in another screening, so it shares the lock but not the slot.
MCSlotOf == r1 :> <<s1, seatA>> @@ r2 :> <<s1, seatA>> @@ r3 :> <<s2, seatA>>

\* For liveness: two rivals, and a call for a seat the hall does not have.  The
\* configuration makes s2 the same screening as s1.
MCSlotOfLive ==
    r1 :> <<s1, seatA>> @@ r2 :> <<s1, seatA>> @@ r3 :> <<s2, seatB>>

MCSlots == {s1, s2} \X {seatA, seatB}
MCSeatIn == [x \in MCSlots |-> x[2]]
MCScreeningIn == [x \in MCSlots |-> x[1]]
MCHallSeats == s2 :> {seatA} @@ s1 :> {seatA, seatB}
MCStartTime == s1 :> 2 @@ s2 :> 1

\* r1 and r2 are for the same slot.
MCRivalSymmetry == Permutations({r1, r2})

=============================================================================
