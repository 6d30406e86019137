----------------------------- MODULE MCPayments -----------------------------
(* Small instances of Payments for TLC.                                    *)
EXTENDS Payments, TLC

CONSTANTS r1, r2, c1, c2, w1, w2, k1, k2, a

\* Every reservation is for the same seat of the same screening.
MCSlotOf == [r \in Ids |-> a]

\* Two checkout calls for one reservation.
MCForOne == [c \in Checkouts |-> r1]

\* One checkout call for each reservation.
MCForOwn == [c \in Checkouts |-> IF c = c1 THEN r1 ELSE r2]

\* The checkouts, all for r1, are alike, and so are the deliveries.
MCSymmetry == Permutations(Checkouts) \cup Permutations(Workers)

=============================================================================
