--------------------------- MODULE NetworkProofs ----------------------------
(***************************************************************************)
(* Theorems about module Network, for any number of stations, any          *)
(* distances and any draw of the random numbers.                           *)
(***************************************************************************)
EXTENDS Network, NatLemmas, FiniteSetTheorems

Matrix == [Node -> SUBSET Node]

-----------------------------------------------------------------------------
(* Timetables *)

Line == [departure_time : Nat \X Nat, route_name : Node \X Node,
         arrival_time : Nat \X Nat, arrival_station : Node]

\* What is written with hour and mins is read back with timeToMinutes.
LEMMA MinutesAreRead ==
  ASSUME NEW m \in Nat
  PROVE  hhmm(m) \in Nat \X Nat /\ TT!timeToMinutes(hhmm(m)) = m
BY DEF hhmm, TT!timeToMinutes

\* The types of the programs' variables.
NetInv ==
  /\ adj \in Matrix
  /\ pc \in {"routes", "station", "bus", "done"}
  /\ i \in Nat /\ departs \in Nat
  /\ pc = "bus" => i \in Node
  /\ file \in Seq(Line)

\* A later line departs no earlier and, on the same leg, arrives later.
LaterIsLater(f) ==
  \A k, l \in 1..Len(f) : k < l =>
    /\ TT!timeToMinutes(f[k].departure_time) <= TT!timeToMinutes(f[l].departure_time)
    /\ f[k].arrival_station = f[l].arrival_station =>
         TT!timeToMinutes(f[k].arrival_time) < TT!timeToMinutes(f[l].arrival_time)

\* While a timetable is being written, the next bus leaves no earlier than
\* those before, and arrives later on whichever leg it takes.
FileInv ==
  /\ LaterIsLater(file)
  /\ pc = "bus" =>
       \A k \in 1..Len(file) :
         /\ TT!timeToMinutes(file[k].departure_time) <= departs
         /\ TT!timeToMinutes(file[k].arrival_time)
              < departs + Distance[i][file[k].arrival_station]

\* An integer division.
LEMMA DivNat ==
  ASSUME NEW x \in Nat, NEW d \in Nat \ {0}
  PROVE  x \div d \in Nat
OBVIOUS

\* The stations are N.
LEMMA StationsAreFinite == IsFiniteSet(Node) /\ Cardinality(Node) = N
<1>1. 0 \in Int /\ N - 1 \in Int /\ ~ (0 > N - 1) /\ (N - 1) - 0 + 1 = N
  BY NetworkAssumption
<1>2. /\ IsFiniteSet(0..N - 1)
      /\ Cardinality(0..N - 1) = IF 0 > N - 1 THEN 0 ELSE (N - 1) - 0 + 1
  BY <1>1, FS_Interval, Zenon
<1>3. QED
  BY <1>1, <1>2, Zenon DEF Node

\* A station with a neighbour has a number of them to divide by.
LEMMA DegreeIsPositive ==
  ASSUME NetInv, NEW a \in Node, adj[a] # {}
  PROVE  Degree(a) \in Nat \ {0}
<1>1. adj[a] \in SUBSET Node
  BY DEF NetInv, Matrix
<1>2. IsFiniteSet(adj[a])
  BY <1>1, StationsAreFinite, FS_Subset
<1>3. QED
  BY <1>2, FS_CardinalityType, FS_EmptySet DEF Degree

\* The next bus waits for the skew of this one, and two minutes more.
LEMMA NextBusIsLater ==
  ASSUME NetInv, pc = "bus", NEW j \in adj[i], NEW skew \in Skews, NEW gap \in Gaps
  PROVE  /\ j \in Node /\ skew \in Nat
         /\ NextDeparture(skew, gap) \in Nat
         /\ NextDeparture(skew, gap) > departs + skew
<1>1. i \in Node /\ departs \in Nat /\ j \in Node
  BY DEF NetInv, Matrix
<1>2. Degree(i) \in Nat \ {0}
  BY <1>1, DegreeIsPositive
<1>3. Spread \div Degree(i) \in Nat
  BY <1>2, NetworkAssumption, DivNat
<1>4. skew \in Nat /\ gap \in Nat
  BY NetworkAssumption
<1> DEFINE x == Spread \div Degree(i)
<1>5. NextDeparture(skew, gap) = departs + x + skew + gap + 2
  BY DEF NextDeparture
<1> HIDE DEF x
<1>6. x \in Nat
  BY <1>3 DEF x
<1>7. QED
  BY <1>1, <1>4, <1>5, <1>6

\* The number of neighbours, in any case.
LEMMA DegreeIsNatural ==
  ASSUME NetInv, NEW a \in Node
  PROVE  Degree(a) \in Nat
<1>1. adj[a] \in SUBSET Node
  BY DEF NetInv, Matrix
<1>2. IsFiniteSet(adj[a])
  BY <1>1, StationsAreFinite, FS_Subset
<1>3. QED
  BY <1>2, FS_CardinalityType DEF Degree

\* The line that WriteBus adds, and the times that are read back from it.
LEMMA LineIsWritten ==
  ASSUME NetInv, NEW j, NEW skew \in Skews, NEW gap \in Gaps, WriteBus(j, skew, gap)
  PROVE  \E e \in Line :
           /\ file' = Append(file, e) /\ e.arrival_station = j
           /\ TT!timeToMinutes(e.departure_time) = departs
           /\ TT!timeToMinutes(e.arrival_time) = departs + Distance[i][j] + skew
<1> DEFINE d == hhmm(departs)
           m == departs + Distance[i][j] + skew
           t == hhmm(m)
           e == [departure_time |-> d, route_name |-> <<i, j>>,
                 arrival_time |-> t, arrival_station |-> j]
<1>1. i \in Node /\ departs \in Nat /\ j \in Node /\ skew \in Nat
  BY NetworkAssumption DEF NetInv, Matrix, WriteBus
<1>2. Distance[i][j] \in Nat
  BY <1>1, NetworkAssumption
<1>3. m \in Nat
  BY <1>1, <1>2
<1>4. file' = Append(file, e)
  BY DEF WriteBus
<1>5. d \in Nat \X Nat /\ TT!timeToMinutes(d) = departs
  BY <1>1, MinutesAreRead
<1>6. t \in Nat \X Nat /\ TT!timeToMinutes(t) = m
  <2> HIDE DEF m
  <2> QED BY <1>3, MinutesAreRead
<1> HIDE DEF d, t, m
<1>7. e \in Line /\ e.departure_time = d /\ e.arrival_time = t /\ e.arrival_station = j
  BY <1>1, <1>5, <1>6 DEF Line
<1> HIDE DEF e
<1>8. QED
  BY <1>4, <1>5, <1>6, <1>7 DEF m

\* The types are right in every reachable state.
THEOREM NetworkTypes == Spec => []NetInv
<1>1. Init => NetInv
  BY DEF Init, NetInv, Matrix
<1>2. NetInv /\ [Next]_vars => NetInv'
  <2> SUFFICES ASSUME NetInv, [Next]_vars PROVE NetInv'
    OBVIOUS
  <2>1. ASSUME NEW a \in Node, NEW b \in Node, DrawRoute(a, b) PROVE NetInv'
    <3>1. adj' \in Matrix
      BY <2>1 DEF DrawRoute, Join, NetInv, Matrix
    <3>2. QED
      BY <2>1, <3>1 DEF DrawRoute, NetInv
  <2>2. CASE build_linear_routes
    BY <2>2 DEF build_linear_routes, NetInv, Matrix
  <2>3. CASE OpenFile
    <3>1. i \in Node
      BY <2>3, NetworkAssumption DEF OpenFile, NetInv, Node
    <3>2. departs' \in Nat
      BY <2>3, <3>1, DegreeIsNatural, NetworkAssumption DEF OpenFile
    <3>3. QED
      BY <2>3, <3>1, <3>2 DEF OpenFile, NetInv
  <2>4. ASSUME NEW j \in Node, NEW skew \in Skews, NEW gap \in Gaps, WriteBus(j, skew, gap)
        PROVE  NetInv'
    <3>1. file' \in Seq(Line)
      <4>1. PICK e \in Line : file' = Append(file, e)
        BY <2>4, LineIsWritten
      <4>2. QED
        BY <4>1 DEF NetInv
    <3>2. pc = "bus" /\ j \in adj[i]
      BY <2>4 DEF WriteBus
    <3>3. departs' \in Nat
      BY <2>4, <3>2, NextBusIsLater DEF WriteBus
    <3>4. QED
      BY <2>4, <3>1, <3>3 DEF WriteBus, NetInv
  <2>5. CASE CloseFile
    BY <2>5 DEF CloseFile, NetInv
  <2>6. CASE print_adjacency
    BY <2>6 DEF print_adjacency, NetInv
  <2>7. CASE UNCHANGED vars
    BY <2>7 DEF vars, NetInv
  <2>8. QED
    BY <2>1, <2>2, <2>3, <2>4, <2>5, <2>6, <2>7 DEF Next
<1>3. QED
  BY <1>1, <1>2, PTL DEF Spec

\* A line that leaves no earlier than the others and arrives after those on
\* its leg can be added at the end.
LEMMA OneMoreLine ==
  ASSUME NEW f \in Seq(Line), NEW e \in Line, LaterIsLater(f),
         \A k \in 1..Len(f) :
           /\ TT!timeToMinutes(f[k].departure_time) <= TT!timeToMinutes(e.departure_time)
           /\ f[k].arrival_station = e.arrival_station =>
                TT!timeToMinutes(f[k].arrival_time) < TT!timeToMinutes(e.arrival_time)
  PROVE  LaterIsLater(Append(f, e))
<1> DEFINE g == Append(f, e)
<1>1. Len(f) \in Nat /\ Len(g) = Len(f) + 1
  OBVIOUS
<1>2. \A k \in 1..Len(f) : g[k] = f[k]
  OBVIOUS
<1>3. g[Len(f) + 1] = e
  OBVIOUS
<1> HIDE DEF g
<1> SUFFICES ASSUME NEW k \in 1..Len(g), NEW l \in 1..Len(g), k < l
             PROVE  /\ TT!timeToMinutes(g[k].departure_time)
                         <= TT!timeToMinutes(g[l].departure_time)
                    /\ g[k].arrival_station = g[l].arrival_station =>
                         TT!timeToMinutes(g[k].arrival_time)
                           < TT!timeToMinutes(g[l].arrival_time)
  BY Zenon DEF g, LaterIsLater
<1>4. k \in 1..Len(f) /\ g[k] = f[k]
  BY <1>1, <1>2
<1>5. CASE l = Len(f) + 1
  <2>1. g[l] = e
    BY <1>3, <1>5
  <2>2. QED
    BY <1>4, <2>1, Zenon
<1>6. CASE l # Len(f) + 1
  <2>1. l \in 1..Len(f) /\ g[l] = f[l]
    BY <1>1, <1>2, <1>6
  <2>2. QED
    BY <1>4, <2>1, Zenon DEF LaterIsLater
<1>7. QED
  BY <1>5, <1>6

\* The times of a line are numbers of minutes.
LEMMA LineTimes ==
  ASSUME NEW e \in Line
  PROVE  /\ TT!timeToMinutes(e.departure_time) \in Nat
         /\ TT!timeToMinutes(e.arrival_time) \in Nat
BY DEF Line, TT!timeToMinutes

\* Arithmetic of the next departure.
LEMMA LaterStill ==
  ASSUME NEW x \in Nat, NEW y \in Nat, NEW d \in Nat, NEW d1 \in Nat, NEW q \in Nat,
         y <= d, x < d + q, d <= d1
  PROVE  y <= d1 /\ x < d1 + q
OBVIOUS

\* WriteBus keeps the order of the lines, and the next bus behind them all.
LEMMA WriteBusInOrder ==
  ASSUME NetInv, FileInv, NEW j \in Node, NEW skew \in Skews, NEW gap \in Gaps,
         WriteBus(j, skew, gap)
  PROVE  FileInv'
<1>1. PICK e \in Line :
           /\ file' = Append(file, e) /\ e.arrival_station = j
           /\ TT!timeToMinutes(e.departure_time) = departs
           /\ TT!timeToMinutes(e.arrival_time) = departs + Distance[i][j] + skew
  BY LineIsWritten
<1>2. /\ pc = "bus" /\ pc' = "bus" /\ i' = i /\ j \in adj[i]
      /\ i \in Node /\ departs \in Nat /\ file \in Seq(Line)
  BY DEF WriteBus, NetInv
<1>3. skew \in Nat /\ departs' \in Nat /\ departs' > departs + skew
  BY <1>2, NextBusIsLater DEF WriteBus
<1>4. \A b \in Node : Distance[i][b] \in Nat
  BY <1>2, NetworkAssumption
<1>5. Len(file) \in Nat /\ \A k \in 1..Len(file) : file[k] \in Line
  BY <1>2
<1>6. LaterIsLater(file) /\ \A k \in 1..Len(file) :
         /\ TT!timeToMinutes(file[k].departure_time) <= departs
         /\ TT!timeToMinutes(file[k].arrival_time)
              < departs + Distance[i][file[k].arrival_station]
  BY <1>2 DEF FileInv
<1>7. \A k \in 1..Len(file) : file[k].arrival_station \in Node
  BY <1>5 DEF Line
<1>8. LaterIsLater(Append(file, e))
  <2>1. ASSUME NEW k \in 1..Len(file)
        PROVE  /\ TT!timeToMinutes(file[k].departure_time) <= TT!timeToMinutes(e.departure_time)
               /\ file[k].arrival_station = e.arrival_station =>
                    TT!timeToMinutes(file[k].arrival_time) < TT!timeToMinutes(e.arrival_time)
    <3> DEFINE x == TT!timeToMinutes(file[k].arrival_time)
    <3>1. x \in Nat /\ x < departs + Distance[i][file[k].arrival_station]
      BY <1>5, <1>6, LineTimes
    <3>2. TT!timeToMinutes(file[k].departure_time) <= TT!timeToMinutes(e.departure_time)
      BY <1>1, <1>6
    <3> HIDE DEF x
    <3>3. ASSUME file[k].arrival_station = j
          PROVE  x < departs + Distance[i][j] + skew
      BY <1>2, <1>3, <1>4, <3>1, <3>3
    <3>4. QED
      BY <1>1, <3>2, <3>3 DEF x
  <2>2. QED
    BY <1>2, <1>6, <2>1, OneMoreLine
<1>9. ASSUME NEW k \in 1..Len(file')
      PROVE  /\ TT!timeToMinutes(file'[k].departure_time) <= departs'
             /\ TT!timeToMinutes(file'[k].arrival_time)
                  < departs' + Distance[i][file'[k].arrival_station]
  <2>1. CASE k = Len(file) + 1
    <3>1. file'[k] = e
      BY <1>1, <1>2, <2>1
    <3>2. departs <= departs' /\ departs + Distance[i][j] + skew < departs' + Distance[i][j]
      BY <1>2, <1>3, <1>4
    <3>3. QED
      BY <1>1, <3>1, <3>2
  <2>2. CASE k # Len(file) + 1
    <3>1. k \in 1..Len(file) /\ file'[k] = file[k]
      BY <1>1, <1>2, <2>2
    <3> DEFINE x == TT!timeToMinutes(file[k].arrival_time)
               y == TT!timeToMinutes(file[k].departure_time)
               q == Distance[i][file[k].arrival_station]
    <3>2. x \in Nat /\ y \in Nat /\ q \in Nat /\ y <= departs /\ x < departs + q
      BY <1>4, <1>5, <1>6, <1>7, <3>1, LineTimes
    <3> HIDE DEF x, y, q
    <3>3. departs <= departs'
      BY <1>2, <1>3
    <3>4. y <= departs' /\ x < departs' + q
      <4>1. departs \in Nat /\ departs' \in Nat
        BY <1>2, <1>3
      <4>2. QED
        BY <4>1, <3>2, <3>3, LaterStill
    <3>5. QED
      BY <3>1, <3>4 DEF x, y, q
  <2>3. QED
    BY <2>1, <2>2
<1>10. QED
  BY <1>1, <1>2, <1>8, <1>9 DEF FileInv, LaterIsLater

\* An invariant: the lines are in order, and the next bus is behind them.
THEOREM FileInvariant == Spec => [](NetInv /\ FileInv)
<1>1. Init => FileInv
  BY DEF Init, FileInv, LaterIsLater
<1>2. NetInv /\ FileInv /\ [Next]_vars => FileInv'
  <2> SUFFICES ASSUME NetInv, FileInv, [Next]_vars PROVE FileInv'
    OBVIOUS
  <2>1. ASSUME NEW a \in Node, NEW b \in Node, DrawRoute(a, b) PROVE FileInv'
    BY <2>1 DEF DrawRoute, FileInv, LaterIsLater
  <2>2. CASE build_linear_routes
    BY <2>2 DEF build_linear_routes, FileInv, LaterIsLater
  <2>3. CASE OpenFile
    BY <2>3 DEF OpenFile, FileInv, LaterIsLater
  <2>4. ASSUME NEW j \in Node, NEW skew \in Skews, NEW gap \in Gaps, WriteBus(j, skew, gap)
        PROVE  FileInv'
    BY <2>4, WriteBusInOrder
  <2>5. CASE CloseFile
    BY <2>5 DEF CloseFile, FileInv, LaterIsLater
  <2>6. CASE print_adjacency
    BY <2>6 DEF print_adjacency, FileInv, LaterIsLater
  <2>7. CASE UNCHANGED vars
    BY <2>7 DEF vars, FileInv, LaterIsLater
  <2>8. QED
    BY <2>1, <2>2, <2>3, <2>4, <2>5, <2>6, <2>7 DEF Next
<1>3. QED
  BY <1>1, <1>2, NetworkTypes, PTL DEF Spec

(***************************************************************************)
(* Whatever rand yields and however many neighbours share the hour, no bus *)
(* of build_timetables overtakes an earlier one on its leg: what           *)
(* search_timetable relies on when it takes the first line it can catch.   *)
(***************************************************************************)
THEOREM NetworkBusesNeverOvertake == Spec => []BusesNeverOvertake
<1>1. NetInv /\ FileInv => BusesNeverOvertake
  <2> SUFFICES ASSUME NetInv, FileInv PROVE BusesNeverOvertake
    OBVIOUS
  <2>1. LaterIsLater(file) /\ \A k \in 1..Len(file) : file[k] \in Line
    BY DEF NetInv, FileInv
  <2>2. \A k \in 1..Len(file) : TT!timeToMinutes(file[k].arrival_time) \in Nat
    BY <2>1, LineTimes
  <2>3. \A x, y \in Nat : x < y => x <= y
    OBVIOUS
  <2>4. TT!InOrder(file)
    BY <2>1, <2>2, <2>3, Zenon DEF LaterIsLater, TT!InOrder
  <2>5. QED
    BY <2>1, <2>4, Zenon DEF LaterIsLater, BusesNeverOvertake
<1>2. QED
  BY <1>1, FileInvariant, PTL

-----------------------------------------------------------------------------
(* The loops of Warshall's test *)

\* The arithmetic of the loops' bounds.
LEMMA Counters ==
  /\ N \in Nat
  /\ \A n \in 1..N : n - 1 \in Node /\ n - 1 \in 0..N /\ n \in 0..N
  /\ N \in 0..N /\ 0 \in 0..N /\ Node \subseteq 0..N
BY NetworkAssumption DEF Node

\* A turn of the innermost loop makes a matrix of a matrix.
LEMMA TurnTypes ==
  ASSUME NEW w \in Matrix, NEW k, NEW a \in Node, NEW b \in Node
  PROVE  Turn(w, k, a, b) \in Matrix
BY DEF Turn, Matrix

\* The loop over the columns, unrolled.
LEMMA ColumnsUnroll ==
  ASSUME NEW w \in Matrix, NEW k \in Node, NEW a \in Node
  PROVE  \E f \in [0..N -> Matrix] :
           /\ f[0] = w /\ Columns(w, k, a) = f[N]
           /\ \A n \in 1..N : f[n] = Turn(f[n - 1], k, a, n - 1)
<1> DEFINE Solves(f) ==
             f = [n \in 0..N |-> IF n = 0 THEN w ELSE Turn(f[n - 1], k, a, n - 1)]
           c == CHOOSE f : Solves(f)
<1>1. Columns(w, k, a) = c[N]
  BY Zenon DEF Columns
<1>2. \E f : Solves(f)
  <2> DEFINE D == [n \in 1..N |-> [v \in Matrix |-> Turn(v, k, a, n - 1)]]
  <2>1. D \in [1..N -> [Matrix -> Matrix]]
    BY Counters, TurnTypes
  <2>2. PICK f \in [0..N -> Matrix] : Recurses(f, N, w, D)
    <3> HIDE DEF D, Solves
    <3>1. QED
      BY <2>1, Counters, RecursionUpTo
  <2>3. ASSUME NEW n \in 1..N PROVE f[n] = Turn(f[n - 1], k, a, n - 1)
    <3>1. f[n - 1] \in Matrix
      BY Counters
    <3>2. QED
      BY <2>2, <3>1 DEF Recurses
  <2>4. Solves(f)
    <3>1. \A n \in 0..N : n # 0 => n \in 1..N
      BY Counters
    <3>2. QED
      BY <2>2, <2>3, <3>1 DEF Recurses
  <2> HIDE DEF Solves
  <2>5. QED
    BY <2>4
<1>3. Solves(c)
  <2> HIDE DEF Solves
  <2> QED BY <1>2
<1> HIDE DEF c
<1>4. c[0] = w /\ \A n \in 1..N : c[n] = Turn(c[n - 1], k, a, n - 1)
  BY <1>3, Counters
<1> DEFINE T == {n \in 0..N : c[n] \in Matrix}
<1>5. 0 \in T
  BY <1>4, Counters
<1>6. \A n \in 1..N : n - 1 \in T => n \in T
  BY <1>4, Counters, TurnTypes
<1>7. 0..N \subseteq T
  <2> HIDE DEF T
  <2> QED BY <1>5, <1>6, Counters, InductionUpTo, Zenon
<1>8. c \in [0..N -> Matrix]
  BY <1>3, <1>7
<1> HIDE DEF Solves, T
<1>9. QED
  BY <1>1, <1>4, <1>8

\* The entries that a turn with intermediate station k may add to a row of v.
Cross(v, k, a) == IF k \in v[a] THEN v[a] \cup v[k] ELSE v[a]

\* u has the entries of v and, perhaps, some that intermediate station k adds.
Between(v, k, u) ==
  /\ u \in Matrix
  /\ \A a \in Node : v[a] \subseteq u[a] /\ u[a] \subseteq Cross(v, k, a)

\* The matrix is updated in place, but row k and column k do not change while
\* k is the intermediate station: a turn adds what it would add to v.
LEMMA TurnInPlace ==
  ASSUME NEW v \in Matrix, NEW k \in Node, NEW u, Between(v, k, u),
         NEW a \in Node, NEW b \in Node
  PROVE  /\ Between(v, k, Turn(u, k, a, b))
         /\ \A d \in Node : u[d] \subseteq Turn(u, k, a, b)[d]
         /\ k \in v[a] /\ b \in v[k] => b \in Turn(u, k, a, b)[a]
<1>1. k \in u[a] /\ b \in u[k] <=> k \in v[a] /\ b \in v[k]
  BY DEF Between, Cross
<1> DEFINE t == Turn(u, k, a, b)
<1>2. t \in Matrix
  BY TurnTypes DEF Between
<1>3. CASE k \in v[a] /\ b \in v[k]
  <2>1. t = [u EXCEPT ![a] = @ \cup {b}]
    BY <1>1, <1>3 DEF Turn
  <2>2. \A d \in Node : t[d] = IF d = a THEN u[d] \cup {b} ELSE u[d]
    BY <2>1 DEF Between, Matrix
  <2> HIDE DEF t
  <2>3. Between(v, k, t)
    BY <1>2, <1>3, <2>2 DEF Between, Cross
  <2>4. QED
    BY <2>2, <2>3 DEF t
<1>4. CASE ~ (k \in v[a] /\ b \in v[k])
  BY <1>1, <1>4 DEF Turn
<1>5. QED
  BY <1>3, <1>4

\* What the loop over the columns adds: all that k adds to row a.
LEMMA ColumnsInPlace ==
  ASSUME NEW v \in Matrix, NEW k \in Node, NEW u, Between(v, k, u), NEW a \in Node
  PROVE  /\ Between(v, k, Columns(u, k, a))
         /\ \A d \in Node : u[d] \subseteq Columns(u, k, a)[d]
         /\ k \in v[a] => v[k] \subseteq Columns(u, k, a)[a]
<1>1. u \in Matrix
  BY DEF Between
<1>2. PICK f \in [0..N -> Matrix] :
           /\ f[0] = u /\ Columns(u, k, a) = f[N]
           /\ \A n \in 1..N : f[n] = Turn(f[n - 1], k, a, n - 1)
  BY <1>1, ColumnsUnroll
<1> DEFINE Done(n) == /\ Between(v, k, f[n])
                      /\ \A d \in Node : u[d] \subseteq f[n][d]
                      /\ k \in v[a] => \A b \in v[k] : b < n => b \in f[n][a]
           T == {n \in 0..N : Done(n)}
<1>3. 0 \in T
  <2>1. v[k] \subseteq Node
    BY DEF Matrix
  <2>2. \A b \in v[k] : ~ (b < 0)
    BY <2>1 DEF Node
  <2>3. QED
    BY <1>2, <2>2, Counters
<1>4. ASSUME NEW n \in 1..N, n - 1 \in T PROVE n \in T
  <2>1. n - 1 \in Node /\ n \in 0..N
    BY Counters
  <2>2. f[n] = Turn(f[n - 1], k, a, n - 1)
    BY <1>2
  <2>3. Done(n - 1)
    BY <1>4
  <2>4. /\ Between(v, k, f[n])
        /\ \A d \in Node : f[n - 1][d] \subseteq f[n][d]
        /\ k \in v[a] /\ n - 1 \in v[k] => n - 1 \in f[n][a]
    BY <2>1, <2>2, <2>3, TurnInPlace
  <2>5. ASSUME k \in v[a], NEW b \in v[k], b < n PROVE b \in f[n][a]
    <3>1. b \in Int /\ n \in Int
      BY Counters DEF Matrix, Node
    <3>2. b < n - 1 \/ b = n - 1
      BY <2>5, <3>1
    <3>3. QED
      BY <2>3, <2>4, <2>5, <3>2
  <2>6. QED
    BY <2>1, <2>3, <2>4, <2>5
<1> HIDE DEF Done
<1>5. 0..N \subseteq T
  <2> HIDE DEF T
  <2> QED BY <1>3, <1>4, Counters, InductionUpTo, Zenon
<1>6. Done(N)
  BY <1>5, Counters
<1>7. \A b \in v[k] : b < N
  BY NetworkAssumption DEF Matrix, Node
<1>8. QED
  BY <1>2, <1>6, <1>7 DEF Done

\* The loop over the columns makes a matrix of a matrix.
LEMMA ColumnsTypes ==
  ASSUME NEW w \in Matrix, NEW k \in Node, NEW a \in Node
  PROVE  Columns(w, k, a) \in Matrix
<1>1. PICK f \in [0..N -> Matrix] : Columns(w, k, a) = f[N]
  BY ColumnsUnroll
<1>2. QED
  BY <1>1, Counters

\* The loop over the rows, unrolled.
LEMMA RowsUnroll ==
  ASSUME NEW w \in Matrix, NEW k \in Node
  PROVE  \E f \in [0..N -> Matrix] :
           /\ f[0] = w /\ Rows(w, k) = f[N]
           /\ \A n \in 1..N : f[n] = Columns(f[n - 1], k, n - 1)
<1> DEFINE Solves(f) == f = [n \in 0..N |-> IF n = 0 THEN w ELSE Columns(f[n - 1], k, n - 1)]
           c == CHOOSE f : Solves(f)
<1>1. Rows(w, k) = c[N]
  BY Zenon DEF Rows
<1>2. \E f : Solves(f)
  <2> DEFINE D == [n \in 1..N |-> [v \in Matrix |-> Columns(v, k, n - 1)]]
  <2>1. D \in [1..N -> [Matrix -> Matrix]]
    BY Counters, ColumnsTypes
  <2>2. PICK f \in [0..N -> Matrix] : Recurses(f, N, w, D)
    <3> HIDE DEF D, Solves
    <3>1. QED
      BY <2>1, Counters, RecursionUpTo
  <2>3. ASSUME NEW n \in 1..N PROVE f[n] = Columns(f[n - 1], k, n - 1)
    <3>1. f[n - 1] \in Matrix
      BY Counters
    <3>2. QED
      BY <2>2, <3>1 DEF Recurses
  <2>4. Solves(f)
    <3>1. \A n \in 0..N : n # 0 => n \in 1..N
      BY Counters
    <3>2. QED
      BY <2>2, <2>3, <3>1 DEF Recurses
  <2> HIDE DEF Solves
  <2>5. QED
    BY <2>4
<1>3. Solves(c)
  <2> HIDE DEF Solves
  <2> QED BY <1>2
<1> HIDE DEF c
<1>4. c[0] = w /\ \A n \in 1..N : c[n] = Columns(c[n - 1], k, n - 1)
  BY <1>3, Counters
<1> DEFINE T == {n \in 0..N : c[n] \in Matrix}
<1>5. 0 \in T
  BY <1>4, Counters
<1>6. \A n \in 1..N : n - 1 \in T => n \in T
  BY <1>4, Counters, ColumnsTypes
<1>7. 0..N \subseteq T
  <2> HIDE DEF T
  <2> QED BY <1>5, <1>6, Counters, InductionUpTo, Zenon
<1>8. c \in [0..N -> Matrix]
  BY <1>3, <1>7
<1> HIDE DEF Solves, T
<1>9. QED
  BY <1>1, <1>4, <1>8

\* After the loop over the rows, every row has what k adds to it, no more.
LEMMA RowsAddWhatKAdds ==
  ASSUME NEW v \in Matrix, NEW k \in Node
  PROVE  /\ Rows(v, k) \in Matrix
         /\ \A a \in Node : Rows(v, k)[a] = Cross(v, k, a)
<1>1. PICK f \in [0..N -> Matrix] :
           /\ f[0] = v /\ Rows(v, k) = f[N]
           /\ \A n \in 1..N : f[n] = Columns(f[n - 1], k, n - 1)
  BY RowsUnroll
<1> DEFINE Done(n) == /\ Between(v, k, f[n])
                      /\ \A a \in Node : a < n /\ k \in v[a] => v[k] \subseteq f[n][a]
           T == {n \in 0..N : Done(n)}
<1>2. 0 \in T
  <2>1. \A a \in Node : ~ (a < 0)
    BY DEF Node
  <2>2. Between(v, k, v)
    BY DEF Between, Cross
  <2>3. QED
    BY <1>1, <2>1, <2>2, Counters
<1>3. ASSUME NEW n \in 1..N, n - 1 \in T PROVE n \in T
  <2>1. n - 1 \in Node /\ n \in 0..N
    BY Counters
  <2>2. f[n] = Columns(f[n - 1], k, n - 1)
    BY <1>1
  <2>3. Done(n - 1)
    BY <1>3
  <2>4. /\ Between(v, k, f[n])
        /\ \A d \in Node : f[n - 1][d] \subseteq f[n][d]
        /\ k \in v[n - 1] => v[k] \subseteq f[n][n - 1]
    BY <2>1, <2>2, <2>3, ColumnsInPlace
  <2>5. ASSUME NEW a \in Node, a < n, k \in v[a] PROVE v[k] \subseteq f[n][a]
    <3>1. a < n - 1 \/ a = n - 1
      BY <2>5 DEF Node
    <3>2. QED
      BY <2>3, <2>4, <2>5, <3>1
  <2>6. QED
    BY <2>1, <2>4, <2>5
<1> HIDE DEF Done
<1>4. 0..N \subseteq T
  <2> HIDE DEF T
  <2> QED BY <1>2, <1>3, Counters, InductionUpTo, Zenon
<1>5. Done(N)
  BY <1>4, Counters
<1>6. \A a \in Node : a < N
  BY NetworkAssumption DEF Node
<1>7. QED
  BY <1>1, <1>5, <1>6 DEF Done, Between, Cross

\* The loop over the intermediate stations, unrolled.
LEMMA ClosureUnroll ==
  ASSUME NEW m \in Matrix
  PROVE  \E f \in [0..N -> Matrix] :
           /\ f[0] = m /\ Closure(m) = f[N]
           /\ \A n \in 1..N : f[n] = Rows(f[n - 1], n - 1)
<1> DEFINE Solves(f) == f = [n \in 0..N |-> IF n = 0 THEN m ELSE Rows(f[n - 1], n - 1)]
           c == CHOOSE f : Solves(f)
<1>1. Closure(m) = c[N]
  BY Zenon DEF Closure
<1>2. \E f : Solves(f)
  <2> DEFINE D == [n \in 1..N |-> [v \in Matrix |-> Rows(v, n - 1)]]
  <2>1. D \in [1..N -> [Matrix -> Matrix]]
    BY Counters, RowsAddWhatKAdds
  <2>2. PICK f \in [0..N -> Matrix] : Recurses(f, N, m, D)
    <3> HIDE DEF D, Solves
    <3>1. QED
      BY <2>1, Counters, RecursionUpTo
  <2>3. ASSUME NEW n \in 1..N PROVE f[n] = Rows(f[n - 1], n - 1)
    <3>1. f[n - 1] \in Matrix
      BY Counters
    <3>2. QED
      BY <2>2, <3>1 DEF Recurses
  <2>4. Solves(f)
    <3>1. \A n \in 0..N : n # 0 => n \in 1..N
      BY Counters
    <3>2. QED
      BY <2>2, <2>3, <3>1 DEF Recurses
  <2> HIDE DEF Solves
  <2>5. QED
    BY <2>4
<1>3. Solves(c)
  <2> HIDE DEF Solves
  <2> QED BY <1>2
<1> HIDE DEF c
<1>4. c[0] = m /\ \A n \in 1..N : c[n] = Rows(c[n - 1], n - 1)
  BY <1>3, Counters
<1> DEFINE T == {n \in 0..N : c[n] \in Matrix}
<1>5. 0 \in T
  BY <1>4, Counters
<1>6. \A n \in 1..N : n - 1 \in T => n \in T
  BY <1>4, Counters, RowsAddWhatKAdds
<1>7. 0..N \subseteq T
  <2> HIDE DEF T
  <2> QED BY <1>5, <1>6, Counters, InductionUpTo, Zenon
<1>8. c \in [0..N -> Matrix]
  BY <1>3, <1>7
<1> HIDE DEF Solves, T
<1>9. QED
  BY <1>1, <1>4, <1>8

\* Two journeys make one.
LEMMA RidesConcat ==
  ASSUME NEW m \in Matrix, NEW a \in Node, NEW b \in Node, NEW c \in Node,
         NEW x \in Nat, NEW y \in Nat, Rides(m, a, c, x), Rides(m, c, b, y)
  PROVE  Rides(m, a, b, x + y)
<1>1. PICK p \in [0..x -> Node] :
         p[0] = a /\ p[x] = c /\ \A k \in 1..x : p[k] \in m[p[k - 1]]
  BY DEF Rides
<1>2. PICK q \in [0..y -> Node] :
         q[0] = c /\ q[y] = b /\ \A k \in 1..y : q[k] \in m[q[k - 1]]
  BY DEF Rides
<1> DEFINE r == [k \in 0..x + y |-> IF k <= x THEN p[k] ELSE q[k - x]]
<1>3. r \in [0..x + y -> Node]
  OBVIOUS
<1>4. r[0] = a /\ r[x + y] = b
  BY <1>1, <1>2
<1>5. ASSUME NEW k \in 1..x + y PROVE r[k] \in m[r[k - 1]]
  <2>1. CASE k <= x
    BY <1>1, <2>1
  <2>2. CASE k = x + 1
    <3>1. r[k - 1] = c /\ r[k] = q[1] /\ 1 \in 1..y
      BY <1>1, <2>2
    <3>2. q[1] \in m[q[1 - 1]]
      BY <1>2, <3>1
    <3>3. QED
      BY <1>2, <3>1, <3>2
  <2>3. CASE k > x + 1
    <3>1. k - x \in 1..y /\ r[k] = q[k - x] /\ r[k - 1] = q[(k - x) - 1]
      BY <2>3
    <3>2. QED
      BY <1>2, <3>1
  <2>4. QED
    BY <2>1, <2>2, <2>3
<1> HIDE DEF r
<1>6. QED
  BY <1>3, <1>4, <1>5 DEF Rides

\* A ride over one route.
LEMMA OneRide ==
  ASSUME NEW m \in Matrix, NEW a \in Node, NEW b \in m[a]
  PROVE  Rides(m, a, b, 1)
<1> DEFINE p == [k \in 0..1 |-> IF k = 0 THEN a ELSE b]
<1>1. p \in [0..1 -> Node] /\ p[0] = a /\ p[1] = b
  BY DEF Matrix
<1>2. \A k \in 1..1 : p[k] \in m[p[k - 1]]
  BY <1>1
<1> HIDE DEF p
<1>3. QED
  BY <1>1, <1>2 DEF Rides

\* w is closed under the intermediate stations below n.
ClosedBelow(w, n) ==
  \A a, b, c \in Node : c < n /\ c \in w[a] /\ b \in w[c] => b \in w[a]

\* The rows for k, closed below k before the loop, are closed below k + 1.
LEMMA ClosedUnderOneMore ==
  ASSUME NEW w \in Matrix, NEW k \in Node, ClosedBelow(w, k),
         NEW v \in Matrix, \A a \in Node : v[a] = Cross(w, k, a)
  PROVE  ClosedBelow(v, k + 1)
<1> SUFFICES ASSUME NEW a \in Node, NEW b \in Node, NEW c \in Node, c < k + 1,
                    c \in v[a], b \in v[c]
             PROVE  b \in v[a]
  BY DEF ClosedBelow
<1>1. c < k \/ c = k
  BY DEF Node
<1>2. c \in w[a] \/ (k \in w[a] /\ c \in w[k])
  BY DEF Cross
<1>3. b \in w[c] \/ (k \in w[c] /\ b \in w[k])
  BY DEF Cross
<1>4. b \in w[a] \/ (k \in w[a] /\ b \in w[k]) => b \in v[a]
  BY DEF Cross
<1>5. CASE c = k
  BY <1>2, <1>3, <1>4, <1>5
<1>6. CASE c < k
  <2>1. \A x, y \in Node : c \in w[x] /\ y \in w[c] => y \in w[x]
    BY <1>6 DEF ClosedBelow
  <2>2. QED
    BY <1>2, <1>3, <1>4, <2>1
<1>7. QED
  BY <1>1, <1>5, <1>6

\* The closure has the routes, is transitive, and joins only stations between
\* which one can travel.
LEMMA ClosureIsTransitive ==
  ASSUME NEW m \in Matrix
  PROVE  /\ Closure(m) \in Matrix
         /\ \A a \in Node : m[a] \subseteq Closure(m)[a]
         /\ \A a, b, c \in Node : c \in Closure(m)[a] /\ b \in Closure(m)[c] => b \in Closure(m)[a]
         /\ \A a, b \in Node : b \in Closure(m)[a] => \E n \in Nat \ {0} : Rides(m, a, b, n)
<1>1. PICK f \in [0..N -> Matrix] :
           /\ f[0] = m /\ Closure(m) = f[N]
           /\ \A n \in 1..N : f[n] = Rows(f[n - 1], n - 1)
  BY ClosureUnroll
<1> DEFINE Travels(a, b) == \E n \in Nat \ {0} : Rides(m, a, b, n)
           Done(n) == /\ \A a \in Node : m[a] \subseteq f[n][a]
                      /\ ClosedBelow(f[n], n)
                      /\ \A a, b \in Node : b \in f[n][a] => Travels(a, b)
           T == {n \in 0..N : Done(n)}
<1>2. \A a, b \in Node : b \in m[a] => Travels(a, b)
  BY OneRide
<1>3. ASSUME NEW a \in Node, NEW b \in Node, NEW c \in Node, Travels(a, c), Travels(c, b)
      PROVE  Travels(a, b)
  <2>1. PICK x \in Nat \ {0} : Rides(m, a, c, x)
    BY <1>3
  <2>2. PICK y \in Nat \ {0} : Rides(m, c, b, y)
    BY <1>3
  <2>3. x + y \in Nat \ {0} /\ Rides(m, a, b, x + y)
    BY <2>1, <2>2, RidesConcat
  <2>4. QED
    BY <2>3
<1> HIDE DEF Travels
<1>4. 0 \in T
  <2>1. \A c \in Node : ~ (c < 0)
    BY DEF Node
  <2>2. QED
    BY <1>1, <1>2, <2>1, Counters DEF ClosedBelow
<1>5. ASSUME NEW n \in 1..N, n - 1 \in T PROVE n \in T
  <2> DEFINE k == n - 1
  <2>1. k \in Node /\ n \in 0..N /\ k \in 0..N /\ k + 1 = n
    BY Counters
  <2>2. f[n] = Rows(f[k], k) /\ f[k] \in Matrix /\ f[n] \in Matrix
    BY <1>1, <2>1
  <2>3. Done(k)
    BY <1>5
  <2> HIDE DEF k
  <2>4. \A a \in Node : f[n][a] = Cross(f[k], k, a)
    BY <2>1, <2>2, RowsAddWhatKAdds
  <2>5. ClosedBelow(f[n], n)
    BY <2>1, <2>2, <2>3, <2>4, ClosedUnderOneMore
  <2>6. \A a \in Node : m[a] \subseteq f[n][a]
    BY <2>3, <2>4 DEF Cross
  <2>7. ASSUME NEW a \in Node, NEW b \in Node, b \in f[n][a] PROVE Travels(a, b)
    <3>1. b \in f[k][a] \/ (k \in f[k][a] /\ b \in f[k][k])
      BY <2>4, <2>7 DEF Cross
    <3>2. QED
      BY <1>3, <2>1, <2>3, <3>1
  <2>8. QED
    BY <2>1, <2>5, <2>6, <2>7
<1> HIDE DEF Done
<1>6. 0..N \subseteq T
  <2> HIDE DEF T
  <2> QED BY <1>4, <1>5, Counters, InductionUpTo, Zenon
<1>7. Done(N)
  BY <1>6, Counters
<1>8. \A c \in Node : c < N
  BY NetworkAssumption DEF Node
<1>9. QED
  BY <1>1, <1>7, <1>8, Counters DEF Done, ClosedBelow, Travels

\* However many rides it takes, the closure has the journey.
LEMMA ClosureHasEveryJourney ==
  ASSUME NEW m \in Matrix, NEW a \in Node, NEW b \in Node, NEW n \in Nat \ {0},
         Rides(m, a, b, n)
  PROVE  b \in Closure(m)[a]
<1> DEFINE w == Closure(m)
<1>1. /\ \A x \in Node : m[x] \subseteq w[x]
      /\ \A x, y, z \in Node : z \in w[x] /\ y \in w[z] => y \in w[x]
  BY ClosureIsTransitive
<1> HIDE DEF w
<1>2. PICK p \in [0..n -> Node] :
         p[0] = a /\ p[n] = b /\ \A k \in 1..n : p[k] \in m[p[k - 1]]
  BY DEF Rides
<1> DEFINE T == {k \in 0..n : k = 0 \/ p[k] \in w[a]}
<1>3. 0 \in T
  OBVIOUS
<1>4. ASSUME NEW k \in 1..n, k - 1 \in T PROVE k \in T
  <2>1. k \in 0..n /\ p[k] \in Node /\ p[k - 1] \in Node
    OBVIOUS
  <2>2. p[k] \in w[p[k - 1]]
    BY <1>1, <1>2, <2>1
  <2>3. k - 1 = 0 \/ p[k - 1] \in w[a]
    BY <1>4
  <2>4. QED
    BY <1>1, <1>2, <2>1, <2>2, <2>3
<1>5. 0..n \subseteq T
  <2> HIDE DEF T
  <2> QED BY <1>3, <1>4, InductionUpTo, Zenon
<1>6. n \in T
  BY <1>5
<1>7. QED
  BY <1>2, <1>6 DEF w

-----------------------------------------------------------------------------
(* Short journeys *)

\* A journey that comes to a station twice can do without what is between.
LEMMA ShortCut ==
  ASSUME NEW m \in Matrix, NEW n \in Nat, NEW p \in [0..n -> Node],
         \A k \in 1..n : p[k] \in m[p[k - 1]],
         NEW x \in 0..n, NEW y \in 0..n, x < y, p[x] = p[y]
  PROVE  Rides(m, p[0], p[n], n - (y - x))
<1> DEFINE d == y - x
           r == [k \in 0..n - d |-> IF k <= x THEN p[k] ELSE p[k + d]]
<1>1. d \in 1..n /\ y = x + d
  OBVIOUS
<1> HIDE DEF d
<1>2. r \in [0..n - d -> Node]
  BY <1>1
<1>3. r[0] = p[0]
  BY <1>1
<1>4. r[n - d] = p[n]
  <2>1. CASE n - d <= x
    <3>1. n - d = x /\ n = y
      BY <1>1, <2>1
    <3>2. QED
      BY <1>1, <2>1, <3>1
  <2>2. CASE ~ (n - d <= x)
    BY <1>1, <2>2
  <2>3. QED
    BY <2>1, <2>2
<1>5. ASSUME NEW k \in 1..n - d PROVE r[k] \in m[r[k - 1]]
  <2>1. CASE k <= x
    BY <1>1, <2>1
  <2>2. CASE k = x + 1
    <3>1. r[k - 1] = p[y] /\ r[k] = p[y + 1] /\ y + 1 \in 1..n
      BY <1>1, <2>2
    <3>2. p[y + 1] \in m[p[(y + 1) - 1]] /\ (y + 1) - 1 = y
      BY <3>1
    <3>3. QED
      BY <3>1, <3>2
  <2>3. CASE k > x + 1
    <3>1. /\ k + d \in 1..n /\ k - 1 \in 0..n - d /\ k \in 0..n - d
          /\ (k - 1) + d = (k + d) - 1 /\ ~ (k <= x) /\ ~ (k - 1 <= x)
      BY <1>1, <2>3
    <3>2. r[k] = p[k + d] /\ r[k - 1] = p[(k - 1) + d]
      BY <3>1
    <3>3. QED
      BY <3>1, <3>2
  <2>4. QED
    BY <2>1, <2>2, <2>3
<1> HIDE DEF r
<1>6. QED
  BY <1>2, <1>3, <1>4, <1>5 DEF Rides, d

\* More positions than stations: some station is met twice.
LEMMA SomeStationTwice ==
  ASSUME NEW x \in Nat, NEW n \in Nat, n - x + 1 > N, NEW p \in [x..n -> Node]
  PROVE  \E k, l \in x..n : k < l /\ p[k] = p[l]
<1>1. IsFiniteSet(x..n) /\ Cardinality(x..n) = n - x + 1
  <2>1. x \in Int /\ n \in Int /\ ~ (x > n)
    BY NetworkAssumption
  <2>2. QED
    BY <2>1, FS_Interval
<1>2. IsFiniteSet(Node) /\ Cardinality(Node) = N
  BY StationsAreFinite
<1>3. Cardinality(Node) < Cardinality(x..n)
  BY <1>1, <1>2, NetworkAssumption
<1>4. PICK k, l \in x..n : k # l /\ p[k] = p[l]
  BY <1>1, <1>2, <1>3, FS_PigeonHole
<1>5. k < l \/ l < k
  BY <1>4
<1>6. QED
  BY <1>4, <1>5

\* Where one can travel, N rides are enough, and one less between two stations.
LEMMA FewRides ==
  ASSUME NEW m \in Matrix, NEW a \in Node, NEW b \in Node, NEW n \in Nat \ {0},
         Rides(m, a, b, n)
  PROVE  /\ \E k \in 1..N : Rides(m, a, b, k)
         /\ a # b => \E k \in 1..N - 1 : Rides(m, a, b, k)
<1> DEFINE T == {k \in Nat \ {0} : Rides(m, a, b, k)}
<1>1. PICK s \in T : \A k \in T : s <= k
  <2>1. T \in SUBSET Nat /\ T # {}
    OBVIOUS
  <2> HIDE DEF T
  <2>2. QED
    BY <2>1, LeastNatural
<1>2. s \in Nat \ {0} /\ Rides(m, a, b, s)
  BY <1>1
<1>3. \A k \in Nat \ {0} : Rides(m, a, b, k) => s <= k
  BY <1>1
<1>4. PICK p \in [0..s -> Node] :
         p[0] = a /\ p[s] = b /\ \A k \in 1..s : p[k] \in m[p[k - 1]]
  BY <1>2 DEF Rides
<1> HIDE DEF T
<1>5. \A x, y \in 0..s : x < y /\ p[x] = p[y] => s - (y - x) = 0
  <2> SUFFICES ASSUME NEW x \in 0..s, NEW y \in 0..s, x < y, p[x] = p[y],
                      s - (y - x) # 0
               PROVE  FALSE
    OBVIOUS
  <2>1. Rides(m, a, b, s - (y - x))
    BY <1>2, <1>4, ShortCut
  <2>2. s - (y - x) \in Nat \ {0} /\ ~ (s <= s - (y - x))
    BY <1>2
  <2>3. QED
    BY <1>3, <2>1, <2>2
<1>6. s <= N
  <2> SUFFICES ASSUME s > N PROVE FALSE
    BY <1>2, NetworkAssumption
  <2> DEFINE q == [k \in 1..s |-> p[k]]
  <2>1. q \in [1..s -> Node]
    BY <1>2
  <2>2. PICK x, y \in 1..s : x < y /\ q[x] = q[y]
    <3> HIDE DEF q
    <3>1. s - 1 + 1 > N /\ 1 \in Nat
      BY <1>2, NetworkAssumption
    <3>2. QED
      BY <1>2, <2>1, <3>1, SomeStationTwice
  <2>3. s - (y - x) # 0
    BY <1>2, <2>2
  <2>4. QED
    BY <1>2, <1>5, <2>2, <2>3
<1>7. ASSUME a # b PROVE s <= N - 1
  <2> SUFFICES ASSUME s - 0 + 1 > N PROVE FALSE
    BY <1>2, NetworkAssumption
  <2>1. PICK x, y \in 0..s : x < y /\ p[x] = p[y]
    BY <1>2, SomeStationTwice
  <2>2. s - (y - x) = 0
    BY <1>5, <2>1
  <2>3. x = 0 /\ y = s
    BY <1>2, <2>1, <2>2
  <2>4. QED
    BY <1>4, <1>7, <2>1, <2>3
<1>8. QED
  BY <1>2, <1>6, <1>7, NetworkAssumption

\* What Warshall's loops compute, for every matrix.
LEMMA ClosureComputesReachability ==
  ASSUME NEW m \in Matrix, NEW a \in Node, NEW b \in Node
  PROVE  b \in Closure(m)[a] <=> \E n \in 1..N : Rides(m, a, b, n)
<1>1. ASSUME b \in Closure(m)[a] PROVE \E n \in 1..N : Rides(m, a, b, n)
  <2>1. PICK n \in Nat \ {0} : Rides(m, a, b, n)
    BY <1>1, ClosureIsTransitive
  <2>2. QED
    BY <2>1, FewRides
<1>2. ASSUME NEW n \in 1..N, Rides(m, a, b, n) PROVE b \in Closure(m)[a]
  <2>1. n \in Nat \ {0}
    BY Counters
  <2>2. QED
    BY <1>2, <2>1, ClosureHasEveryJourney
<1>3. QED
  BY <1>1, <1>2

(***************************************************************************)
(* The test of build_routes is right for any number of stations: updated   *)
(* in place, its matrix ends as the relation of reachability.              *)
(***************************************************************************)
THEOREM NetworkClosureIsReachability == Spec => []ClosureIsReachability
<1>1. NetInv => ClosureIsReachability
  <2> SUFFICES ASSUME NetInv
               PROVE  \A a, b \in Node :
                        b \in Closure(adj)[a] <=> \E n \in 1..N : Rides(adj, a, b, n)
    BY DEF ClosureIsReachability
  <2>1. adj \in Matrix
    BY DEF NetInv
  <2>2. QED
    BY <2>1, ClosureComputesReachability
<1>2. QED
  BY <1>1, NetworkTypes, PTL

-----------------------------------------------------------------------------
(* The network *)

\* m is symmetric and has no route from a station to itself.
Undirected(m) ==
  /\ \A a, b \in Node : b \in m[a] <=> a \in m[b]
  /\ \A a \in Node : a \notin m[a]

\* From every station of m one can travel to every other.
Connected(m) ==
  \A a, b \in Node : a # b => \E n \in 1..N - 1 : Rides(m, a, b, n)

\* Routes are undirected from the start; they connect the stations at the end.
SoundInv ==
  /\ Undirected(adj)
  /\ pc # "routes" => Connected(adj)

\* Where Warshall's test succeeds, the stations are connected.
LEMMA WarshallConnects ==
  ASSUME NEW m \in Matrix, Warshall(m)
  PROVE  Connected(m)
<1> SUFFICES ASSUME NEW a \in Node, NEW b \in Node, a # b
             PROVE  \E n \in 1..N - 1 : Rides(m, a, b, n)
  BY DEF Connected
<1>1. b \in Closure(m)[a]
  BY DEF Warshall
<1>2. PICK n \in 1..N : Rides(m, a, b, n)
  BY <1>1, ClosureComputesReachability
<1>3. n \in Nat \ {0}
  BY Counters
<1>4. QED
  BY <1>2, <1>3, FewRides

\* The routes of a line.
LineRoutes == [a \in Node |-> {b \in Node : a - b \in {-1, 1}}]

\* A line connects its stations: one rides from each to the next.
LEMMA LineConnects == LineRoutes \in Matrix /\ Undirected(LineRoutes) /\ Connected(LineRoutes)
<1>1. LineRoutes \in Matrix
  BY DEF LineRoutes, Matrix
<1>2. \A a, b \in Node : b \in LineRoutes[a] <=> a - b = -1 \/ a - b = 1
  BY DEF LineRoutes
<1>3. \A a, b \in Node : a \in Int /\ b \in Int
  BY DEF Node
<1>4. Undirected(LineRoutes)
  BY <1>2, <1>3 DEF Undirected
<1>5. ASSUME NEW a \in Node, NEW b \in Node, a < b
      PROVE  b - a \in 1..N - 1 /\ Rides(LineRoutes, a, b, b - a)
  <2> DEFINE n == b - a
             p == [k \in 0..n |-> a + k]
  <2>1. n \in 1..N - 1 /\ a + n = b
    BY <1>5, NetworkAssumption DEF Node
  <2>2. \A k \in 0..n : a + k \in Node
    BY <1>5, NetworkAssumption DEF Node
  <2> HIDE DEF n
  <2>3. p \in [0..n -> Node] /\ p[0] = a /\ p[n] = b
    BY <1>3, <2>1, <2>2
  <2>4. ASSUME NEW k \in 1..n PROVE p[k] \in LineRoutes[p[k - 1]]
    <3>1. k \in 0..n /\ k - 1 \in 0..n /\ (a + (k - 1)) - (a + k) = -1
      BY <1>3, <2>1
    <3>2. p[k] = a + k /\ p[k - 1] = a + (k - 1)
      BY <3>1
    <3>3. QED
      BY <1>2, <2>2, <3>1, <3>2
  <2> HIDE DEF p
  <2>5. QED
    BY <2>1, <2>3, <2>4 DEF Rides, n
<1>6. ASSUME NEW a \in Node, NEW b \in Node, b < a
      PROVE  a - b \in 1..N - 1 /\ Rides(LineRoutes, a, b, a - b)
  <2> DEFINE n == a - b
             p == [k \in 0..n |-> a - k]
  <2>1. n \in 1..N - 1 /\ a - n = b
    BY <1>6, NetworkAssumption DEF Node
  <2>2. \A k \in 0..n : a - k \in Node
    BY <1>6, NetworkAssumption DEF Node
  <2> HIDE DEF n
  <2>3. p \in [0..n -> Node] /\ p[0] = a /\ p[n] = b
    BY <1>3, <2>1, <2>2
  <2>4. ASSUME NEW k \in 1..n PROVE p[k] \in LineRoutes[p[k - 1]]
    <3>1. k \in 0..n /\ k - 1 \in 0..n /\ (a - (k - 1)) - (a - k) = 1
      BY <1>3, <2>1
    <3>2. p[k] = a - k /\ p[k - 1] = a - (k - 1)
      BY <3>1
    <3>3. QED
      BY <1>2, <2>2, <3>1, <3>2
  <2> HIDE DEF p
  <2>5. QED
    BY <2>1, <2>3, <2>4 DEF Rides, n
<1>7. ASSUME NEW a \in Node, NEW b \in Node, a # b
      PROVE  \E n \in 1..N - 1 : Rides(LineRoutes, a, b, n)
  <2>1. a < b \/ b < a
    BY <1>3, <1>7
  <2>2. QED
    BY <1>5, <1>6, <2>1
<1>8. QED
  BY <1>1, <1>4, <1>7 DEF Connected

\* A route is added both ways.
LEMMA JoinIsUndirected ==
  ASSUME NEW m \in Matrix, Undirected(m), NEW a \in Node, NEW b \in Node, a # b
  PROVE  Join(m, a, b) \in Matrix /\ Undirected(Join(m, a, b))
<1> DEFINE j == Join(m, a, b)
<1>1. j \in Matrix
  BY DEF Join, Matrix
<1>2. \A c \in Node : j[c] = IF c = a THEN m[a] \cup {b}
                             ELSE IF c = b THEN m[b] \cup {a} ELSE m[c]
  BY DEF Join, Matrix
<1> HIDE DEF j
<1>3. Undirected(j)
  BY <1>2 DEF Undirected
<1>4. QED
  BY <1>1, <1>3 DEF j

\* An invariant: undirected always, connected once build_routes has ended.
THEOREM SoundInvariant == Spec => [](NetInv /\ SoundInv)
<1>1. Init => SoundInv
  BY DEF Init, SoundInv, Undirected
<1>2. NetInv /\ SoundInv /\ [Next]_vars => SoundInv'
  <2> SUFFICES ASSUME NetInv, SoundInv, [Next]_vars PROVE SoundInv'
    OBVIOUS
  <2>1. ASSUME NEW a \in Node, NEW b \in Node, DrawRoute(a, b) PROVE SoundInv'
    <3>1. adj \in Matrix /\ Undirected(adj)
      BY DEF NetInv, SoundInv
    <3>2. adj' \in Matrix /\ Undirected(adj')
      <4>1. CASE a = b \/ b \in adj[a]
        BY <2>1, <3>1, <4>1 DEF DrawRoute
      <4>2. CASE ~ (a = b \/ b \in adj[a])
        BY <2>1, <3>1, <4>2, JoinIsUndirected DEF DrawRoute
      <4>3. QED
        BY <4>1, <4>2
    <3>3. pc' # "routes" => Warshall(adj')
      BY <2>1 DEF DrawRoute
    <3>4. pc' # "routes" => Connected(adj')
      BY <3>2, <3>3, WarshallConnects
    <3>5. QED
      BY <3>2, <3>4 DEF SoundInv, Undirected, Connected
  <2>2. CASE build_linear_routes
    <3>1. adj' = LineRoutes
      BY <2>2 DEF build_linear_routes, LineRoutes
    <3>2. QED
      BY <3>1, LineConnects DEF SoundInv, Undirected, Connected
  <2>3. ASSUME UNCHANGED adj, pc # "routes" \/ UNCHANGED pc PROVE SoundInv'
    <3>1. adj' = adj /\ (pc' # "routes" => pc # "routes")
      BY <2>3
    <3>2. Undirected(adj) /\ (pc # "routes" => Connected(adj))
      BY DEF SoundInv
    <3>3. Undirected(adj') /\ (pc' # "routes" => Connected(adj'))
      BY <3>1, <3>2
    <3>4. QED
      BY <3>3 DEF SoundInv, Undirected, Connected
  <2>4. CASE OpenFile
    BY <2>3, <2>4 DEF OpenFile
  <2>5. ASSUME NEW j \in Node, NEW skew \in Skews, NEW gap \in Gaps, WriteBus(j, skew, gap)
        PROVE  SoundInv'
    BY <2>3, <2>5 DEF WriteBus
  <2>6. CASE CloseFile
    BY <2>3, <2>6 DEF CloseFile
  <2>7. CASE print_adjacency
    BY <2>3, <2>7 DEF print_adjacency
  <2>8. CASE UNCHANGED vars
    BY <2>3, <2>8 DEF vars
  <2>9. QED
    BY <2>1, <2>2, <2>4, <2>5, <2>6, <2>7, <2>8 DEF Next
<1>3. QED
  BY <1>1, <1>2, NetworkTypes, PTL DEF Spec

(***************************************************************************)
(* The network that build_timetables writes down joins every station to    *)
(* every other, by routes that work both ways, however the routes fell and *)
(* whether they were drawn or laid in a line.                              *)
(***************************************************************************)
THEOREM NetworkIsAlwaysSound == Spec => []NetworkIsSound
<1>1. SoundInv => NetworkIsSound
  BY DEF SoundInv, Undirected, Connected, NetworkIsSound
<1>2. QED
  BY <1>1, SoundInvariant, PTL
=============================================================================
