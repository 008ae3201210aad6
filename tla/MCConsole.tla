----------------------------- MODULE MCConsole -----------------------------
(* Instances of Console for TLC: histories that write rows, more than are  *)
(* read, that delete them, that open dossiers, and that count flows.       *)
EXTENDS Console

Quiet    == [rows |-> <<>>, old |-> 0, flows |-> 0, versions |-> 0, deletes |-> FALSE,
             tears |-> FALSE]
Starting == [Quiet EXCEPT !.rows = <<2>>]
Writing  == [Quiet EXCEPT !.rows = <<3, 2, 5, 4>>, !.old = 2]
Deleting == [Quiet EXCEPT !.rows = <<3, 2>>, !.deletes = TRUE, !.tears = TRUE]
Asking   == [Quiet EXCEPT !.versions = 1]
Counting == [Quiet EXCEPT !.flows = 3]

AllCourses == {Starting, Writing, Deleting, Asking, Counting}
=============================================================================
