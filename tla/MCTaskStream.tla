---------------------------- MODULE MCTaskStream ----------------------------
(* A small instance of TaskStream for TLC. *)
EXTENDS TaskStream, TLC

CONSTANTS s1, w1, w2, t1, t2

Asks(type, readable, heights) == [type |-> type, readable |-> readable, heights |-> heights]

\* What is not a range, and what is refused.
Others ==
  {Asks("latest", TRUE, {}), Asks("latest", FALSE, {}), Asks("balance", TRUE, {}),
   Asks("unknown", FALSE, {}), Asks("range", TRUE, {})}

OneStream == [g \in Workers |-> s1]

\* Both may ask for anything; their ranges overlap.
OverlappingRanges ==
  t1 :> Others \cup {Asks("range", TRUE, {1, 2})} @@ t2 :> Others \cup {Asks("range", TRUE, {1})}
=============================================================================
