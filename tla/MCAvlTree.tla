----------------------------- MODULE MCAvlTree -----------------------------
(* The search tree, made from an empty file and from files of many keys.   *)
EXTENDS AvlTree

SomeFiles == {<< >>, <<9, 2, 5, 7, 6, 1, 3, 12, 11>>}
TenKeys   == {<<9, 2, 5, 7, 6, 1, 3, 12, 11, 10>>}

(* A tree that was emptied is not looked at any further.                   *)
NotLost == ~lost

=============================================================================
