--------------------------- MODULE MCLocalIndex ---------------------------
(* Three events: one that makes an entry, one that adds a second entry, and *)
(* one whose rows the SQLite cache cannot hold.                             *)
EXTENDS LocalIndex

CONSTANTS s1, s2, a1

Change(path) == [path |-> path, old |-> None, hunks |-> {}, patch |-> None]

MCPool ==
    {[BlankEvent EXCEPT !.id = 1, !.type = "session.started", !.session = s1],
     [BlankEvent EXCEPT !.id = 2, !.type = "session.started", !.session = s2],
     [BlankEvent EXCEPT !.id = 3, !.type = "diff.captured", !.artifact = a1,
         !.files = <<Change(<<"a">>), Change(<<"b">>)>>]}

=============================================================================
