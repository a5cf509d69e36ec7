----------------------------- MODULE MCJournal -----------------------------
(***************************************************************************)
(* A process that writes to both of its streams, and a reader of its logs. *)
(***************************************************************************)
EXTENDS Journal

SomeTails == {None, 1}
=============================================================================
