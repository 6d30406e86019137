----------------------------- MODULE MCAccounts -----------------------------
(* Small instances of Accounts for TLC.                                    *)
EXTENDS Accounts, TLC

CONSTANTS u1, u2, e1, e2, g1, c1, c2

\* The Google profile has the address that is free at the start.
MCGoogleMail == g1 :> e2

\* u1 has an account with the first address at the start.
MCSeedMail == u1 :> e1

\* The user table is empty.
MCNoSeedMail == [u \in {} |-> e1]

MCSymmetry == Permutations(Calls)

=============================================================================
