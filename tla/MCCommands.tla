----------------------------- MODULE MCCommands ------------------------------
(***************************************************************************)
(* An instance of Commands for model checking.                             *)
(***************************************************************************)
EXTENDS Commands

\* Every type, and one named twice.
SomeLists == {<<>>, <<"other", "other">>}
=============================================================================
