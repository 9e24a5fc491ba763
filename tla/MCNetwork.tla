----------------------------- MODULE MCNetwork ------------------------------
(***************************************************************************)
(* Four stations.  Spread is small, so that a station with three           *)
(* neighbours has the interval 0, as one with more than 60 has in the code.*)
(***************************************************************************)
EXTENDS Network

\* Stations 0, 1, 2, 3 on a street, with a longer block in the middle.
Place == [a \in Node |-> <<0, 1, 4, 5>>[a + 1]]

MCDistance ==
  [a \in Node |-> [b \in Node |-> IF Place[a] > Place[b] THEN Place[a] - Place[b]
                                                      ELSE Place[b] - Place[a]]]
=============================================================================
