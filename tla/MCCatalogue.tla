---------------------------- MODULE MCCatalogue ----------------------------
(* A small instance of Catalogue for TLC.                                  *)
EXTENDS Catalogue, TLC

CONSTANTS m1, m2, s1, h1, v1, v2, c1, c2

MCTTL == [k \in Kinds |-> 1]

\* Move it to another movie, or repeat its time.
MCPatches ==
    {[movie |-> m, hall |-> NULL, start |-> NULL] : m \in Movies}
        \cup {[movie |-> NULL, hall |-> NULL, start |-> t] : t \in Starts}

MCSymmetry == {p @@ q @@ r : p \in Permutations(Calls), q \in Permutations(Movies),
                             r \in Permutations(Editions)}

=============================================================================
