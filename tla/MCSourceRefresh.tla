-------------------------- MODULE MCSourceRefresh --------------------------
(* Small instances of SourceRefresh: two processes of different repos and  *)
(* builds, two or three sessions in one or two sources.                    *)
EXTENDS SourceRefresh

CONSTANTS p1, p2, rA, rB, old, new, s1, s2

\* Each process has its own repo and build.
MCRepo == [p \in Procs |-> IF p = p1 THEN rA ELSE rB]
MCParser == [p \in Procs |-> IF p = p1 THEN old ELSE new]

\* Both processes are of one build.
OneParser == [p \in Procs |-> new]

\* Both sessions in one source, or each in its own.
OneSource == [s \in Sessions |-> 1]
TwoSources == [s \in Sessions |-> IF s = s1 THEN 1 ELSE 2]

=============================================================================
