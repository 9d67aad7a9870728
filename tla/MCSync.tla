------------------------------- MODULE MCSync -------------------------------
(* Small instances of Sync: a session whose owner is one machine and whose  *)
(* repo both sync, and one of another repo, whose lines lie in between.     *)
EXTENDS Sync

CONSTANTS c1, c2, m1, m2, r1, r2, s1, s2

\* Both machines sync r1.
MCMachineOf == [c \in Clients |-> IF c = c1 THEN m1 ELSE m2]
MCRepo == [c \in Clients |-> r1]

\* m1 records s1 in r1, m2 records s2 in r2.
MCOwnerOf == [s \in Sessions |-> IF s = s1 THEN m1 ELSE m2]
MCRepoOf == [s \in Sessions |-> IF s = s1 THEN r1 ELSE r2]

=============================================================================
