----------------------------- MODULE MCClients ------------------------------
(***************************************************************************)
(* Requests for module Clients.  Each run lets the browsers choose from    *)
(* one of these sets.                                                      *)
(***************************************************************************)
EXTENDS Clients, TLC

Get(to, time) == [to |-> to, time |-> time]

\* Everything the handler tells apart, for one station.
MCEverything ==
  {Get("X", 0), Get("X", 1), Get("X", NoTime), Get("X", Absent), Nonsense}

\* Two queries, so that the ring and the list have something to choose from.
MCTwo == {Get("X", 0), Get("X", 1)}

\* With requests that cost a descriptor for good.
MCCostly == MCTwo \cup {Nonsense}

MCOne == {Get("X", 0)}

Symmetry == Permutations(Conn)
=============================================================================
