------------------------------ MODULE CheckBoard ------------------------------
(***************************************************************************)
(* What the scorer promises a task author, without its bookkeeping: a name *)
(* is a property of the candidate, which holds as long as it was only ever *)
(* seen to hold.  Credit is given once, and only to a candidate for which  *)
(* every required property was seen to hold and none was seen broken.      *)
(***************************************************************************)
CONSTANT Names   \* the names checks are recorded under

VARIABLES
  needed,     \* the names the task's gold run makes mandatory
  board,      \* what is known of each name: "absent", "held" or "broken"
  closed,     \* has the run been scored?
  solved,
  credited    \* is the score above zero?

vars == <<needed, board, closed, solved, credited>>

Init ==
  /\ needed \subseteq Names
  /\ board = [n \in Names |-> "absent"]
  /\ closed = FALSE
  /\ solved = FALSE
  /\ credited = FALSE

\* Once seen broken, a property stays broken.
Observe(n) ==
  /\ ~closed
  /\ \/ board' = [board EXCEPT ![n] = "broken"]
     \/ board[n] # "broken" /\ board' = [board EXCEPT ![n] = "held"]
  /\ UNCHANGED <<needed, closed, solved, credited>>

\* The run breaks down and what was seen is dropped.
Crash ==
  /\ ~closed
  /\ board' = [n \in Names |-> "absent"]
  /\ UNCHANGED <<needed, closed, solved, credited>>

Close ==
  /\ ~closed
  /\ closed' = TRUE
  /\ solved' \in BOOLEAN
  /\ solved' => \A n \in needed : board[n] = "held"
  /\ credited' \in BOOLEAN
  /\ credited' => solved'
  /\ UNCHANGED <<needed, board>>

Next == (\E n \in Names : Observe(n)) \/ Crash \/ Close

Spec == Init /\ [][Next]_vars

===============================================================================
