---------------------------- MODULE MCDispatcher ----------------------------
(* Instances of Dispatcher for TLC, with a table of two or three entries. *)
EXTENDS Dispatcher

\* A set that the table accepts; one of two ids, and one whose second id is
\* outside the table.
ValidIdSets == {{1}}
AllIdSets   == {{0, 1}, {1, 3}}
=============================================================================
