------------------------------ MODULE MCRelay -------------------------------
(***************************************************************************)
(* Small networks for module Relay.  Stations are strings, and "ip:A" is   *)
(* the address A writes into payloads, with the address that get_local_ip  *)
(* found.  "lo:A" is the same port of the same host under its other name,  *)
(* localhost, as files/assignports.sh writes it into startstations.sh.     *)
(***************************************************************************)
EXTENDS Wire

Line3     == {"A", "B", "C"}
Diamond5  == {"A", "B", "C", "D", "E"}

Ip(s) == CASE s = "A" -> "ip:A" [] s = "B" -> "ip:B" [] s = "C" -> "ip:C" [] s = "D" -> "ip:D"
           [] s = "E" -> "ip:E"
Lo(s) == CASE s = "A" -> "lo:A" [] s = "B" -> "lo:B" [] s = "C" -> "lo:C" [] s = "D" -> "lo:D"
           [] s = "E" -> "lo:E"

MCName    == Station \cup {"Nowhere"}
MCAddr    == {Ip(s) : s \in Station} \cup {Lo(s) : s \in Station}
MCOwnAddr == [s \in Station |-> Ip(s)]
MCHost    == [a \in MCAddr |-> CHOOSE s \in Station : a \in {Ip(s), Lo(s)}]

\* A network is a set of undirected edges.
LineEdges     == {{"A", "B"}, {"B", "C"}}
TriangleEdges == {{"A", "B"}, {"B", "C"}, {"A", "C"}}
DiamondEdges  == {{"A", "B"}, {"A", "C"}, {"B", "C"}, {"B", "D"}, {"C", "E"}, {"E", "D"}}

Named(edges, N(_)) == [s \in Station |-> {N(n) : n \in {x \in Station : {s, x} \in edges}}]
LineNeighbours     == Named(LineEdges, Ip)
TriangleNeighbours == Named(TriangleEdges, Ip)
DiamondNeighbours  == Named(DiamondEdges, Ip)
AliasedTriangle    == Named(TriangleEdges, Lo)

-----------------------------------------------------------------------------
(* Timetables, in minutes after eight; the last line of each is the one the *)
(* search never looks at.                                                   *)

At(m) == <<8, m>>
Ride(dep, r, arr, to) == [departure_time |-> At(dep), route_name |-> r,
                          arrival_time |-> At(arr), arrival_station |-> to]

MCRoute == {"fast", "slow"}

\* The lines of a day from station s.
Day(s) ==
  CASE s = "A" -> <<Ride(2, "slow", 7, "C"), Ride(5, "slow", 9, "B"),
                    Ride(9, "fast", 11, "C"), Ride(12, "fast", 14, "B"),
                    Ride(50, "slow", 52, "B")>>
    [] s = "B" -> <<Ride(4, "slow", 8, "C"), Ride(8, "fast", 10, "D"),
                    Ride(10, "slow", 13, "C"), Ride(15, "slow", 19, "D"),
                    Ride(52, "slow", 55, "C")>>
    [] s = "C" -> <<Ride(7, "fast", 8, "B"), Ride(8, "slow", 9, "A"),
                    Ride(8, "fast", 10, "E"), Ride(13, "slow", 15, "E"),
                    Ride(50, "slow", 55, "A")>>
    [] s = "D" -> <<Ride(5, "slow", 9, "B"), Ride(50, "slow", 55, "E")>>
    [] s = "E" -> <<Ride(9, "slow", 12, "D"), Ride(15, "fast", 16, "D"),
                    Ride(50, "slow", 55, "C")>>

MCTimetables ==
  [s \in Station |->
     SelectSeq(Day(s), LAMBDA e : Ip(e.arrival_station) \in Neighbours[s]
                                  \/ Lo(e.arrival_station) \in Neighbours[s])]

Ask(s, d, m) == [source |-> s, destination |-> d, start_time |-> At(m)]
MCAtoC       == {Ask("A", "C", 3)}
MCBtoC       == {Ask("B", "C", 4)}
MCAtoD       == {Ask("A", "D", 1)}
MCLive       == {Ask("A", "C", 1), Ask("B", "Nowhere", 5)}
MCSome       == {Ask("A", "C", 10), Ask("B", "Nowhere", 5)}

-----------------------------------------------------------------------------
ASSUME CanonicalNetworks ==
  Neighbours # AliasedTriangle => Canonical

ASSUME TimetablesInOrder == \A s \in Station : InOrder(Timetables[s])
=============================================================================
