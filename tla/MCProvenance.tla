--------------------------- MODULE MCProvenance ---------------------------
(***************************************************************************)
(* A small ledger for Provenance: one event of every kind the index reads, *)
(* out of order in time, with file references older than their artifact, a *)
(* diff of two files, one of one, a rename, two observations of a session. *)
(***************************************************************************)
EXTENDS Provenance

CONSTANTS o1, o2, p1, m1, s1, s2, a1, a2, t1, t2

E(id, type, at) == [BlankEvent EXCEPT !.id = id, !.type = type,
                                      !.occurred = at, !.recorded = at]
Change(path, old) == [path |-> path, old |-> old, hunks |-> {}, patch |-> None]

Lib == <<"src", "lib">>
Main == <<"src", "main">>
Bare == <<"lib">>
Dir == <<"src">>

MCPaths == {Lib, Bare, Dir}
MCArtifacts == {a1, a2}
MCLinked == {m1, s1, s2, a1, a2}
MCCapturers == {<<s1, a1>>, <<s2, a2>>}

MCPool ==
    {[E(1, "org.created", 1) EXCEPT !.org = o1, !.name = t1, !.body = t1],
     [E(2, "org.updated", 2) EXCEPT !.org = o1, !.name = t2],
     [E(3, "project.created", 3) EXCEPT !.project = p1, !.parent = o1, !.name = t1],
     [E(4, "project.updated", 5) EXCEPT !.project = p1, !.parent = o2],
     [E(5, "mission.created", 4) EXCEPT !.mission = m1, !.parent = p1, !.name = t1],
     [E(6, "mission.updated", 6) EXCEPT !.mission = m1, !.name = t2, !.ctx = t1],
     [E(7, "session.started", 3) EXCEPT !.session = s1, !.mission = m1],
     [E(8, "session.linked_to_mission", 7) EXCEPT !.session = s2, !.mission = m1],
     [E(9, "session.log_uploaded", 8) EXCEPT !.session = s1, !.item = 209],
     [E(10, "artifact.created", 6) EXCEPT !.artifact = a1, !.mission = m1, !.name = t1],
     [E(11, "artifact.updated", 7) EXCEPT !.artifact = a1, !.session = s2, !.body = t2],
     [E(12, "artifact.linked_to_mission", 2) EXCEPT !.artifact = a2, !.mission = m1],
     [E(13, "artifact.file_ref_recorded", 5) EXCEPT !.artifact = a1, !.session = s1,
            !.item = 213, !.ctx = t2, !.files = <<Change(Lib, None)>>],
     [E(14, "artifact.attachment_uploaded", 9) EXCEPT !.artifact = a2, !.item = 214],
     [E(15, "diff.captured", 6) EXCEPT !.artifact = a2, !.session = s2, !.mission = m1,
            !.target = "range", !.files = <<Change(Lib, None), Change(Main, None)>>],
     [E(16, "diff.captured", 4) EXCEPT !.artifact = a1, !.session = s1,
            !.target = "range", !.files = <<Change(Main, Lib)>>],
     [E(17, "repo_context.captured", 1) EXCEPT !.item = 217],
     [E(18, "source.session_observed", 5) EXCEPT !.touched = {Lib}, !.key = s2],
     [E(19, "source.session_observed", 8) EXCEPT !.touched = {Lib, Main}, !.key = s2,
            !.updated = 3],
     [E(20, "artifact.reviewed", 9) EXCEPT !.artifact = a1],
     [E(21, "artifact.file_ref_recorded", 1) EXCEPT !.artifact = a2, !.item = 221,
            !.files = <<Change(Main, None)>>],
     [E(22, "diff.captured", 7) EXCEPT !.artifact = a2, !.session = s2, !.mission = m1,
            !.target = "range", !.files = <<Change(Lib, None)>>]}
=============================================================================
