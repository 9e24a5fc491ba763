------------------------------ MODULE Network -------------------------------
(***************************************************************************)
(* How files/buildrandomtimetables.c and files/buildlinetimetables.c make  *)
(* a network: routes are added at random until Warshall's test says that   *)
(* every station can be reached from every other (or in a line, with -l);  *)
(* then each station gets a timetable of services to its neighbours.  The  *)
(* programs are the source of the networks that module Relay takes as      *)
(* given, and of the order of the lines that its answers rely on.          *)
(***************************************************************************)
EXTENDS Integers, Sequences, FiniteSets

CONSTANTS
  N,            \* number of stations
  FirstBus,     \* 6am, or 5am
  LastBus,      \* 9pm, or 10pm
  Spread,       \* the minutes a station's neighbours share: 60
  Distance,     \* minutes between stations, from their random coordinates
  Skews,        \* what rand()%3 may yield
  Gaps          \* what rand()%5 may yield

Node == 0..N - 1

ASSUME NetworkAssumption ==
  /\ N \in Nat /\ N >= 2
  /\ FirstBus \in Nat /\ LastBus \in Nat /\ Spread \in Nat
  /\ Distance \in [Node -> [Node -> Nat]]
  /\ Skews \subseteq 0..2 /\ Gaps \subseteq 0..4

VARIABLES
  adj,       \* the matrix of routes: in row a, the columns that are true
  pc,        \* "routes", "station", "bus" or "done"
  i,         \* the station whose timetable is next, or being written
  departs,   \* when its next bus leaves
  file       \* the lines of its timetable so far

vars == <<adj, pc, i, departs, file>>

TT == INSTANCE Timetable WITH Station <- Node, Route <- Node \X Node

-----------------------------------------------------------------------------
(* The test *)

\* One turn of the innermost loop, in place: w[a][b] = w[a][k] && w[k][b].
Turn(w, k, a, b) == IF k \in w[a] /\ b \in w[k] THEN [w EXCEPT ![a] = @ \cup {b}] ELSE w

\* The loop over the columns b, for row a and intermediate station k.
Columns(w, k, a) ==
  LET c[n \in 0..N] == IF n = 0 THEN w ELSE Turn(c[n - 1], k, a, n - 1)
  IN  c[N]

\* The loop over the rows, for intermediate station k.
Rows(w, k) ==
  LET r[n \in 0..N] == IF n = 0 THEN w ELSE Columns(r[n - 1], k, n - 1)
  IN  r[N]

\* Mutant: the loop over the intermediate stations ends one too early.
ClosureButLast(m) ==
  LET w[n \in 0..N] == IF n = 0 THEN m ELSE Rows(w[n - 1], n - 1)
  IN  w[N - 1]

\* The matrix w when the loops have ended, starting from m.
Closure(m) ==
  LET w[n \in 0..N] == IF n = 0 THEN m ELSE Rows(w[n - 1], n - 1)
  IN  w[N]

Warshall(m) == LET w == Closure(m) IN \A a, b \in Node : b \in w[a]

-----------------------------------------------------------------------------
(* The programs *)

\* Mutant: the way back is forgotten.
JoinOneWay(m, a, b) == [m EXCEPT ![a] = @ \cup {b}]

Join(m, a, b) == [m EXCEPT ![a] = @ \cup {b}, ![b] = @ \cup {a}]

\* One turn of build_routes.  Its continue goes to the test of the loop too.
DrawRoute(a, b) ==
  /\ pc = "routes"
  /\ adj' = IF a = b \/ b \in adj[a] THEN adj ELSE Join(adj, a, b)
  /\ pc' = IF Warshall(adj') THEN "station" ELSE "routes"
  /\ UNCHANGED <<i, departs, file>>

\* Option -l: a line instead.
build_linear_routes ==
  /\ pc = "routes" /\ \A a \in Node : adj[a] = {}
  /\ adj' = [a \in Node |-> {b \in Node : a - b \in {-1, 1}}]
  /\ pc' = "station"
  /\ UNCHANGED <<i, departs, file>>

Degree(a) == Cardinality(adj[a])

\* The loop of build_timetables over the stations: a new file.
OpenFile ==
  /\ pc = "station" /\ i < N
  /\ departs' = FirstBus + Degree(i)
  /\ file' = <<>>
  /\ pc' = "bus"
  /\ UNCHANGED <<adj, i>>

\* hour(m) and mins(m)
hhmm(m) == <<m \div 60, m % 60>>

\* Mutant: the next bus does not wait for the skew of this one.
NextDepartureUnskewed(skew, gap) == departs + Spread \div Degree(i) + gap + 2

NextDeparture(skew, gap) == departs + Spread \div Degree(i) + skew + gap + 2

\* A line for a bus to the neighbour j; other values of rand are drawn again.
\* The distance is a double and the sum is truncated: Distance has it truncated,
\* which is the same, as the other terms are integers and nothing is negative.
WriteBus(j, skew, gap) ==
  /\ pc = "bus" /\ departs < LastBus
  /\ j \in adj[i]
  /\ file' = Append(file,
       [departure_time |-> hhmm(departs), route_name |-> <<i, j>>,
        arrival_time |-> hhmm(departs + Distance[i][j] + skew),
        arrival_station |-> j])
  /\ departs' = NextDeparture(skew, gap)
  /\ UNCHANGED <<adj, pc, i>>

CloseFile ==
  /\ pc = "bus" /\ departs >= LastBus
  /\ i' = i + 1
  /\ pc' = "station"
  /\ UNCHANGED <<adj, departs, file>>

\* The file of neighbours is written from the matrix, and the program ends.
print_adjacency ==
  /\ pc = "station" /\ i = N
  /\ pc' = "done"
  /\ UNCHANGED <<adj, i, departs, file>>

Init ==
  /\ adj = [a \in Node |-> {}]
  /\ pc = "routes" /\ i = 0 /\ departs = 0 /\ file = <<>>

Next ==
  \/ \E a, b \in Node : DrawRoute(a, b)
  \/ build_linear_routes
  \/ OpenFile
  \/ \E j \in Node, skew \in Skews, gap \in Gaps : WriteBus(j, skew, gap)
  \/ CloseFile
  \/ print_adjacency

Spec == Init /\ [][Next]_vars

-----------------------------------------------------------------------------
(* Properties *)

\* One can travel from a to b in n rides, over stations m joins.
Rides(m, a, b, n) ==
  \E path \in [0..n -> Node] :
    /\ path[0] = a /\ path[n] = b
    /\ \A k \in 1..n : path[k] \in m[path[k - 1]]

(***************************************************************************)
(* Warshall's loops, updating one matrix in place, compute reachability:   *)
(* w[a][b] says that some path of at least one ride leads from a to b.     *)
(***************************************************************************)
ClosureIsReachability ==
  pc = "routes" \/ (pc = "station" /\ i = 0) =>
    LET w == Closure(adj)
    IN  \A a, b \in Node : b \in w[a] <=> \E n \in 1..N : Rides(adj, a, b, n)

(***************************************************************************)
(* The network that is written down is what the stations are started with: *)
(* routes work both ways, no station is its own neighbour, and none is cut *)
(* off, so that the number of its neighbours is never a divisor of zero.   *)
(***************************************************************************)
NetworkIsSound ==
  pc # "routes" =>
    /\ \A a, b \in Node : b \in adj[a] <=> a \in adj[b]
    /\ \A a \in Node : a \notin adj[a]
    /\ \A a, b \in Node : a # b => \E n \in 1..N - 1 : Rides(adj, a, b, n)

(***************************************************************************)
(* A later bus on the same leg leaves later and arrives later, however the *)
(* random delays fall and however many neighbours share the hour: with     *)
(* more than 60 of them the interval between buses is rounded down to 0.   *)
(* So the first bus one can catch is the best one, which search_timetable  *)
(* takes for granted (InOrder of module Timetable).                        *)
(***************************************************************************)
BusesNeverOvertake ==
  /\ TT!InOrder(file)
  /\ \A k, l \in 1..Len(file) :
       k < l /\ file[k].arrival_station = file[l].arrival_station =>
         TT!timeToMinutes(file[k].arrival_time)
           < TT!timeToMinutes(file[l].arrival_time)
=============================================================================
