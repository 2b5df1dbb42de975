------------------------------ MODULE Exchange ------------------------------
(***************************************************************************)
(* What a client of the meter may rely on, whatever the line below it      *)
(* does: it asks one question at a time, the application runs only the     *)
(* question asked last (at least once before it is answered), and an       *)
(* answer is the whole answer to that question.                            *)
(***************************************************************************)
EXTENDS Naturals

VARIABLES
  asked,     \* how many questions the client has asked
  ran,       \* the questions the application has run
  answered   \* the questions the client has the answer to

Init == asked = 0 /\ ran = {} /\ answered = {}

Ask == asked' = asked + 1 /\ UNCHANGED <<ran, answered>>

Run ==
  /\ asked > 0
  /\ ran' = ran \cup {asked}
  /\ UNCHANGED <<asked, answered>>

Answer ==
  /\ asked \in ran \ answered
  /\ answered' = answered \cup {asked}
  /\ UNCHANGED <<asked, ran>>

Next == Ask \/ Run \/ Answer
Spec == Init /\ [][Next]_<<asked, ran, answered>>
=============================================================================
