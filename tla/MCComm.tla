------------------------------- MODULE MCComm -------------------------------
(***************************************************************************)
(* A port with two places, a line that brings three bytes, two answers of  *)
(* one or two bytes, a setting changed (the silence to one out of range)   *)
(* and one file operation that fails.                                      *)
(***************************************************************************)
EXTENDS Comm

MCChoices == [f \in Fields |->
  CASE f = "timeout" -> {9} [] f = "baudrate" -> {3} [] OTHER -> {1}]

\* A meter fresh from the factory; the files of an earlier life are those that
\* the settings leave behind.
MCFirstFiles == {Blank}
=============================================================================
