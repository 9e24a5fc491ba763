---------------------------- MODULE RelayProofs -----------------------------
(***************************************************************************)
(* Theorems about module Relay, for every network, timetable and set of    *)
(* queries.                                                                *)
(***************************************************************************)
EXTENDS Relay, NatLemmas, SequenceTheorems, FiniteSetTheorems

-----------------------------------------------------------------------------
(* The invariant behind the types: where a payload is on its route *)

\* The four arrays have the length that hops says, and the ends are right.
Shape(p) ==
  /\ Len(p.stations) = p.hops /\ Len(p.address) = p.hops
  /\ Len(p.routes) = p.hops /\ Len(p.time) = p.hops
  /\ p.source # p.destination
  /\ p.hops > 0 => p.stations[1] = p.source
  /\ \A i \in 1..p.hops : p.address[i] = OwnAddr[p.stations[i]]
  /\ p.found > 0 => /\ p.hops > 1 /\ p.stations[p.hops] = p.destination
                    /\ p.current \in 1..p.hops

\* A datagram is at the source first, and later where its cursor points.
Placed(m) ==
  /\ m.payload.found < 4
  /\ m.payload.hops = 0 => Host[m.to] = m.payload.source
  /\ m.payload.found > 0 => m.to = m.payload.address[m.payload.current]

Good(m) == m \in Datagram /\ Shape(m.payload) /\ Placed(m)

RouteInv ==
  /\ \A m \in net : Good(m)
  /\ \A p \in answered : p \in Payload /\ Shape(p)
  /\ waiting \in SUBSET Query
  /\ down \in SUBSET Station

-----------------------------------------------------------------------------
(* The search *)

(***************************************************************************)
(* search_timetable returns the first searched line that can be caught,    *)
(* and NoEntry only when there is none.                                    *)
(***************************************************************************)
LEMMA SearchFindsFirst ==
  ASSUME NEW tt \in Seq(Service), NEW t, NEW to
  PROVE  LET i == search_timetable(tt, t, to)
         IN  \/ /\ i = NoEntry
                /\ \A j \in Searched(tt) : ~ Catches(tt[j], t, to)
             \/ /\ i \in Searched(tt) /\ Catches(tt[i], t, to)
                /\ \A j \in Searched(tt) : Catches(tt[j], t, to) => i <= j
<1> DEFINE found == {j \in Searched(tt) : Catches(tt[j], t, to)}
           i     == search_timetable(tt, t, to)
<1>1. i = IF found = {} THEN NoEntry
          ELSE CHOOSE j \in found : \A k \in found : j <= k
  BY DEF search_timetable
<1>2. CASE found = {}
  BY <1>1, <1>2
<1>3. CASE found # {}
  <2>1. found \in SUBSET Nat
    BY LenProperties DEF Searched
  <2> HIDE DEF found
  <2>2. \E j \in found : \A k \in found : j <= k
    BY <1>3, <2>1, LeastNatural
  <2>3. i \in found /\ \A k \in found : i <= k
    BY <1>1, <1>3, <2>2
  <2>4. QED
    BY <2>3 DEF found
<1>4. QED
  BY <1>2, <1>3

\* What any search returns is NoEntry or the number of a line.
LEMMA SearchRange ==
  ASSUME NEW tt \in Seq(Service), NEW t, NEW to, NEW i \in SearchResults(tt, t, to)
  PROVE  i = NoEntry \/ i \in 1..Len(tt)
<1>1. \A j \in Searched(tt) : j \in 1..Len(tt)
  BY LenProperties DEF Searched
<1>2. CASE t \in {Dots, Torn}
  BY <1>1, <1>2 DEF SearchResults
<1>3. CASE t \notin {Dots, Torn}
  <2>1. i = search_timetable(tt, t, to)
    BY <1>3 DEF SearchResults
  <2>2. QED
    BY <1>1, <2>1, SearchFindsFirst
<1>4. QED
  BY <1>2, <1>3

-----------------------------------------------------------------------------
(* What the steps of a station make of a payload *)

RouteName == Route \cup {Unknown, NOTFOUND}

\* A station that adds itself lengthens the four arrays by its own entry.
LEMMA AddHopFacts ==
  ASSUME NEW p \in Payload, NEW s \in Station, NEW r \in RouteName, NEW t \in Time
  PROVE  LET q == AddHop(p, s, r, t)
         IN  /\ q \in Payload
             /\ q.found = p.found /\ q.hops = p.hops + 1 /\ q.current = p.hops + 1
             /\ q.stations = Append(p.stations, s)
             /\ q.address = Append(p.address, OwnAddr[s])
             /\ q.routes = Append(p.routes, r) /\ q.time = Append(p.time, t)
             /\ q.source = p.source /\ q.destination = p.destination
             /\ q.start_time = p.start_time
<1> DEFINE q == AddHop(p, s, r, t)
<1>1. /\ p.hops + 1 \in Nat
      /\ Append(p.stations, s) \in Seq(Station)
      /\ Append(p.address, OwnAddr[s]) \in Seq(Addr)
      /\ Append(p.routes, r) \in Seq(RouteName)
      /\ Append(p.time, t) \in Seq(Time)
  BY RelayAssumption DEF Payload, RouteName
<1>2. /\ q.found = p.found /\ q.hops = p.hops + 1 /\ q.current = p.hops + 1
      /\ q.stations = Append(p.stations, s)
      /\ q.address = Append(p.address, OwnAddr[s])
      /\ q.routes = Append(p.routes, r) /\ q.time = Append(p.time, t)
      /\ q.source = p.source /\ q.destination = p.destination
      /\ q.start_time = p.start_time
  BY DEF AddHop, Payload
<1>3. q \in Payload
  BY <1>1 DEF AddHop, Payload, RouteName
<1>4. QED
  BY <1>2, <1>3

\* The route of a payload that floods stays well-formed.
LEMMA AddHopShape ==
  ASSUME NEW p \in Payload, Shape(p), p.found = 0,
         NEW s \in Station, NEW r \in RouteName, NEW t \in Time,
         p.hops = 0 => s = p.source
  PROVE  Shape(AddHop(p, s, r, t))
<1> DEFINE q == AddHop(p, s, r, t)
<1>1. /\ q.found = p.found /\ q.hops = p.hops + 1
      /\ q.stations = Append(p.stations, s)
      /\ q.address = Append(p.address, OwnAddr[s])
      /\ q.routes = Append(p.routes, r) /\ q.time = Append(p.time, t)
      /\ q.source = p.source /\ q.destination = p.destination
  BY AddHopFacts
<1>2. /\ p.hops \in Nat
      /\ p.stations \in Seq(Station) /\ p.address \in Seq(Addr)
      /\ p.routes \in Seq(RouteName) /\ p.time \in Seq(Time)
      /\ OwnAddr[s] \in Addr
  BY RelayAssumption DEF Payload, RouteName
<1> HIDE DEF q
<1>3. /\ Len(q.stations) = q.hops /\ Len(q.address) = q.hops
      /\ Len(q.routes) = q.hops /\ Len(q.time) = q.hops
  BY <1>1, <1>2 DEF Shape
<1>4. q.hops > 0 => q.stations[1] = q.source
  BY <1>1, <1>2 DEF Shape
<1>5. \A i \in 1..q.hops : q.address[i] = OwnAddr[q.stations[i]]
  BY <1>1, <1>2 DEF Shape
<1>6. Shape(q)
  BY <1>1, <1>3, <1>4, <1>5 DEF Shape
<1>7. QED
  BY <1>6 DEF q

\* A step back stays on the route, provided there is a station before.
LEMMA StepBackGood ==
  ASSUME NEW p \in Payload, Shape(p), p.found \in 1..3, p.current # 1
  PROVE  Good(StepBack(p))
<1> DEFINE q == [p EXCEPT !.current = @ - 1]
<1>1. p.current - 1 \in 1..p.hops /\ p.address \in Seq(Addr) /\ p.hops \in Nat
  BY DEF Shape, Payload
<1>2. q \in Payload /\ Shape(q)
  <2>0. p.current - 1 \in Nat
    BY <1>1
  <2>1. q \in Payload
    BY <2>0 DEF Payload
  <2>2. /\ q.found = p.found /\ q.hops = p.hops /\ q.current = p.current - 1
        /\ q.stations = p.stations /\ q.address = p.address
        /\ q.routes = p.routes /\ q.time = p.time
        /\ q.source = p.source /\ q.destination = p.destination
    BY DEF Payload
  <2> HIDE DEF q
  <2>3. QED
    BY <1>1, <2>1, <2>2 DEF Shape
<1>3. q.address[q.current] \in Addr
  BY <1>1, <1>2 DEF Shape, Payload
<1>4. StepBack(p) = [to |-> q.address[q.current], payload |-> q]
  BY DEF StepBack, ToCurrent
<1>5. q.found \in 1..3 /\ q.hops > 1
  BY <1>2 DEF Shape, Payload
<1> HIDE DEF q
<1>6. QED
  BY <1>2, <1>3, <1>4, <1>5 DEF Good, Placed, Datagram

\* The stations on the route, and the query, are the same in p and q.
SameRoute(p, q) ==
  /\ q.hops = p.hops /\ q.stations = p.stations /\ q.address = p.address
  /\ q.source = p.source /\ q.destination = p.destination
  /\ q.start_time = p.start_time

\* A change of phase leaves everything else alone.
LEMMA SetFoundFacts ==
  ASSUME NEW p \in Payload, NEW f \in 0..4
  PROVE  LET q == [p EXCEPT !.found = f]
         IN  /\ q \in Payload /\ q.found = f /\ q.current = p.current
             /\ SameRoute(p, q) /\ q.routes = p.routes /\ q.time = p.time
BY DEF Payload, SameRoute

\* The shape of a route does not depend on the phase once it is complete.
LEMMA SetFoundShape ==
  ASSUME NEW p \in Payload, Shape(p), NEW f \in 0..4, p.found > 0
  PROVE  Shape([p EXCEPT !.found = f])
<1> DEFINE q == [p EXCEPT !.found = f]
<1>1. /\ SameRoute(p, q) /\ q.current = p.current
      /\ q.routes = p.routes /\ q.time = p.time
  BY SetFoundFacts
<1> HIDE DEF q
<1>2. Shape(q)
  BY <1>1 DEF Shape, SameRoute
<1>3. QED
  BY <1>2 DEF q

\* Between p and q, position n of the arrays got time x and route r.
Writes(p, q, n, x, r) ==
  /\ q.time = [p.time EXCEPT ![n] = x]
  /\ q.routes = [p.routes EXCEPT ![n] = r]

\* What WriteLeg does to the arrays and to the cursor.
LEMMA WriteLegFacts ==
  ASSUME NEW p \in Payload, Shape(p), p.found = 2, p.current # p.hops,
         NEW tt \in Seq(Service), NEW i, i = NoEntry \/ i \in 1..Len(tt)
  PROVE  LET d == WriteLeg(p, tt, i)
             q == d.payload
             n == p.current + 1
         IN  /\ d = [to |-> p.address[n], payload |-> q]
             /\ q \in Payload /\ q.found = 2 /\ q.current = n /\ n \in 2..p.hops
             /\ SameRoute(p, q) /\ Writes(p, q, n, LegTime(tt, i), LegRoute(tt, i))
             /\ LegTime(tt, i) \in Time /\ LegRoute(tt, i) \in RouteName
<1> DEFINE n == p.current + 1
           x == LegTime(tt, i)
           r == LegRoute(tt, i)
           q == [p EXCEPT !.time[n] = x, !.routes[n] = r, !.current = n]
<1>1. n \in Nat /\ n \in 2..p.hops
  BY DEF Shape, Payload
<1>2. x \in Time /\ r \in RouteName
  <2>1. CASE i = NoEntry
    BY <2>1 DEF Time, RouteName, LegTime, LegRoute
  <2>2. CASE i # NoEntry
    <3>1. tt[i] \in Service
      BY <2>2
    <3>2. tt[i].arrival_time \in Clock /\ tt[i].route_name \in Route
      BY <3>1 DEF Service
    <3>3. QED
      BY <2>2, <3>2 DEF Time, RouteName, LegTime, LegRoute
  <2>3. QED
    BY <2>1, <2>2
<1>3. /\ p.time \in Seq(Time) /\ p.routes \in Seq(RouteName)
      /\ n \in 1..Len(p.time) /\ n \in 1..Len(p.routes)
  BY <1>1 DEF Shape, Payload, RouteName
<1> HIDE DEF n, x, r
<1>4. /\ [p.time EXCEPT ![n] = x] \in Seq(Time)
      /\ [p.routes EXCEPT ![n] = r] \in Seq(RouteName)
  BY <1>2, <1>3, ExceptSeq
<1>5. q.found = 2 /\ q.current = n /\ SameRoute(p, q) /\ Writes(p, q, n, x, r)
  BY DEF Payload, SameRoute, Writes
<1>6. q \in Payload
  BY <1>1, <1>4 DEF Payload, RouteName
<1>7. WriteLeg(p, tt, i) = [to |-> q.address[q.current], payload |-> q]
  BY DEF WriteLeg, ToCurrent, n, x, r
<1> HIDE DEF q
<1>8. WriteLeg(p, tt, i) = [to |-> p.address[n], payload |-> q]
  BY <1>5, <1>7 DEF SameRoute
<1>9. QED
  BY <1>1, <1>2, <1>5, <1>6, <1>8 DEF n, x, r

\* A step forth stays on the route, provided there is a station after.
LEMMA WriteLegGood ==
  ASSUME NEW p \in Payload, Shape(p), p.found = 2, p.current # p.hops,
         NEW tt \in Seq(Service), NEW i, i = NoEntry \/ i \in 1..Len(tt)
  PROVE  Good(WriteLeg(p, tt, i))
<1> DEFINE d == WriteLeg(p, tt, i)
           q == d.payload
           n == p.current + 1
           x == LegTime(tt, i)
           r == LegRoute(tt, i)
<1>1. /\ d = [to |-> p.address[n], payload |-> q]
      /\ q \in Payload /\ q.found = 2 /\ q.current = n /\ n \in 2..p.hops
      /\ SameRoute(p, q) /\ Writes(p, q, n, x, r)
      /\ x \in Time /\ r \in RouteName
  BY WriteLegFacts
<1> HIDE DEF d, n, x, r
<1>2. p.time \in Seq(Time) /\ p.routes \in Seq(RouteName) /\ p.address \in Seq(Addr)
  BY DEF Payload, RouteName
<1>3. Len(q.time) = p.hops /\ Len(q.routes) = p.hops
  BY <1>1, <1>2, ExceptSeq DEF Shape, Writes
<1>4. Shape(q)
  BY <1>1, <1>3 DEF Shape, SameRoute
<1>5. p.address[n] \in Addr
  BY <1>1, <1>2 DEF Shape
<1>6. d \in Datagram
  BY <1>1, <1>5 DEF Datagram
<1>7. d.to = p.address[n]
  BY <1>1
<1>8. Placed(d)
  BY <1>1, <1>7 DEF Placed, Shape, SameRoute
<1>9. QED
  BY <1>4, <1>6, <1>8 DEF Good, d

\* A good datagram that has not been anywhere arrives at its source.
LEMMA FloodGood ==
  ASSUME NEW m, Good(m), m.payload.found = 0, NEW a \in Addr
  PROVE  Good([to |-> a, payload |-> AddHop(m.payload, Host[m.to], Unknown, Dots)])
<1> DEFINE p == m.payload
           s == Host[m.to]
           q == AddHop(p, s, Unknown, Dots)
<1>1. p \in Payload /\ Shape(p) /\ s \in Station /\ (p.hops = 0 => s = p.source)
  BY RelayAssumption DEF Good, Datagram, Placed
<1>2. Unknown \in RouteName /\ Dots \in Time
  BY DEF RouteName, Time
<1> HIDE DEF s
<1>3. q \in Payload /\ q.found = 0 /\ q.hops = p.hops + 1
  BY <1>1, <1>2, AddHopFacts
<1>4. Shape(q)
  BY <1>1, <1>2, AddHopShape
<1>5. p.hops \in Nat
  BY <1>1 DEF Payload
<1> HIDE DEF q
<1>6. Good([to |-> a, payload |-> q])
  BY <1>3, <1>4, <1>5 DEF Good, Datagram, Placed
<1>7. QED
  BY <1>6 DEF q, s

\* At the destination a route gets its last station and can be walked back.
LEMMA FoundGood ==
  ASSUME NEW m, Good(m), m.payload.found = 0, NEW r \in RouteName, NEW t \in Time,
         m.payload.destination = Host[m.to]
  PROVE  Good(StepBack([AddHop(m.payload, Host[m.to], r, t) EXCEPT !.found = 1]))
<1> DEFINE p == m.payload
           s == Host[m.to]
           q == AddHop(p, s, r, t)
           z == [q EXCEPT !.found = 1]
<1>1. p \in Payload /\ Shape(p) /\ s \in Station /\ (p.hops = 0 => s = p.source)
  BY RelayAssumption DEF Good, Datagram, Placed
<1>2. p.hops \in Nat /\ p.hops # 0
  BY <1>1 DEF Shape, Payload
<1> HIDE DEF s
<1>3. /\ q \in Payload /\ q.hops = p.hops + 1 /\ q.current = p.hops + 1
      /\ q.stations = Append(p.stations, s) /\ q.destination = p.destination
  BY <1>1, AddHopFacts
<1>4. Shape(q)
  BY <1>1, AddHopShape
<1>5. q.stations[q.hops] = s
  BY <1>1, <1>3 DEF Shape, Payload
<1>6. s = p.destination
  BY DEF s
<1> HIDE DEF q
<1>7. /\ z \in Payload /\ z.found = 1 /\ z.current = q.current
      /\ SameRoute(q, z) /\ z.routes = q.routes /\ z.time = q.time
  <2>1. 1 \in 0..4
    OBVIOUS
  <2>2. QED
    BY <1>3, <2>1, SetFoundFacts, Zenon
<1> HIDE DEF z
<1>8. Shape(z)
  BY <1>2, <1>3, <1>4, <1>5, <1>6, <1>7 DEF Shape, SameRoute
<1>9. z.found \in 1..3 /\ z.current # 1
  BY <1>2, <1>3, <1>7
<1>10. Good(StepBack(z))
  BY <1>7, <1>8, <1>9, StepBackGood
<1>11. QED
  BY <1>10 DEF z, q, s

\* The payload with which the source opens the second round trip.
LEMMA OpenedPayload ==
  ASSUME NEW p \in Payload, NEW f \in 0..4, NEW ts \in Seq(Time)
  PROVE  [p EXCEPT !.found = f, !.time = ts] \in Payload
BY DEF Payload

\* The source writes a departure time and nothing else of the route.
LEMMA DeparturesFacts ==
  ASSUME NEW p \in Payload, Shape(p), p.found = 1, NEW s \in Station,
         NEW q \in Departures(p, s)
  PROVE  /\ q \in Payload /\ q.found = 2 /\ q.current = p.current
         /\ SameRoute(p, q) /\ q.routes = p.routes
         /\ \E i \in SearchResults(Timetables[s], p.start_time, p.stations[p.current + 1]) :
              q.time = [p.time EXCEPT ![1] = IF i = NoEntry THEN TooLate
                                             ELSE Timetables[s][i].departure_time]
         /\ Len(q.time) = p.hops
<1> DEFINE D(i) == IF i = NoEntry THEN TooLate ELSE Timetables[s][i].departure_time
<1>1. PICK i \in SearchResults(Timetables[s], p.start_time, p.stations[p.current + 1]) :
        q = [p EXCEPT !.found = 2, !.time[1] = D(i)]
  BY DEF Departures
<1>2. Timetables[s] \in Seq(Service)
  BY RelayAssumption
<1>3. i = NoEntry \/ i \in 1..Len(Timetables[s])
  BY <1>2, SearchRange
<1>4. D(i) \in Time
  <2>1. CASE i = NoEntry
    BY <2>1 DEF Time
  <2>2. CASE i # NoEntry
    <3>1. Timetables[s][i] \in Service
      BY <1>2, <1>3, <2>2
    <3>2. Timetables[s][i].departure_time \in Clock
      BY <3>1 DEF Service
    <3>3. QED
      BY <2>2, <3>2 DEF Time
  <2>3. QED
    BY <2>1, <2>2
<1> HIDE DEF D
<1>5. p.time \in Seq(Time) /\ 1 \in 1..Len(p.time) /\ Len(p.time) = p.hops
  BY DEF Shape, Payload
<1>6. /\ [p.time EXCEPT ![1] = D(i)] \in Seq(Time)
      /\ Len([p.time EXCEPT ![1] = D(i)]) = p.hops
  BY <1>4, <1>5, ExceptSeq
<1>7. /\ q.found = 2 /\ q.current = p.current /\ SameRoute(p, q)
      /\ q.routes = p.routes /\ q.time = [p.time EXCEPT ![1] = D(i)]
  BY <1>1 DEF Payload, SameRoute
<1>8. q \in Payload
  <2> DEFINE ts == [p.time EXCEPT ![1] = D(i)]
  <2>1. q = [p EXCEPT !.found = 2, !.time = ts]
    BY <1>1 DEF Payload
  <2>2. ts \in Seq(Time)
    BY <1>6
  <2> HIDE DEF ts
  <2>3. 2 \in 0..4
    OBVIOUS
  <2>4. QED
    BY <2>1, <2>2, <2>3, OpenedPayload, Zenon
<1>9. QED
  BY <1>6, <1>7, <1>8 DEF D

\* Every datagram that StepsForth offers is good.
LEMMA StepsForthGood ==
  ASSUME NEW p \in Payload, Shape(p), p.found = 2, p.current # p.hops,
         NEW s \in Station, NEW d \in StepsForth(p, s)
  PROVE  Good(d)
<1>1. Timetables[s] \in Seq(Service)
  BY RelayAssumption
<1>2. PICK i \in SearchResults(Timetables[s], p.time[p.current],
                               p.stations[p.current + 1]) :
        d = WriteLeg(p, Timetables[s], i)
  BY DEF StepsForth
<1>3. i = NoEntry \/ i \in 1..Len(Timetables[s])
  BY <1>1, SearchRange
<1>4. QED
  BY <1>1, <1>2, <1>3, WriteLegGood

\* A datagram whose start_time is torn is otherwise as it was.
LEMMA TearFacts ==
  ASSUME NEW m, Good(m)
  PROVE  LET d == [m EXCEPT !.payload.start_time = Torn]
             p == m.payload
             q == d.payload
         IN  /\ Good(d) /\ d.to = m.to /\ q.start_time = Torn
             /\ q.found = p.found /\ q.hops = p.hops /\ q.stations = p.stations
             /\ q.address = p.address
<1> DEFINE p == m.payload
           q == [p EXCEPT !.start_time = Torn]
           d == [m EXCEPT !.payload.start_time = Torn]
<1>1. m \in Datagram /\ p \in Payload /\ m.to \in Addr /\ Shape(p) /\ Placed(m)
  BY DEF Good, Datagram
<1>2. d = [to |-> m.to, payload |-> q]
  BY <1>1 DEF Datagram
<1>3. q \in Payload /\ q.start_time = Torn
  BY <1>1 DEF Payload
<1>4. /\ q.found = p.found /\ q.hops = p.hops /\ q.current = p.current
      /\ q.stations = p.stations /\ q.address = p.address
      /\ q.routes = p.routes /\ q.time = p.time
      /\ q.source = p.source /\ q.destination = p.destination
  BY <1>1 DEF Payload
<1> HIDE DEF q
<1>5. Shape(q)
  BY <1>1, <1>4 DEF Shape
<1>6. Good([to |-> m.to, payload |-> q])
  BY <1>1, <1>3, <1>4, <1>5 DEF Good, Placed, Datagram
<1>7. d.to = m.to /\ d.payload = q /\ Good(d)
  BY <1>2, <1>6
<1>8. QED
  BY <1>3, <1>4, <1>7

-----------------------------------------------------------------------------
(* RouteInv is an invariant *)

\* Where a payload that has been found can be on its route.
LEMMA AtCursor ==
  ASSUME NEW m, Good(m), m.payload.found > 0
  PROVE  LET p == m.payload
             s == Host[m.to]
         IN  /\ p \in Payload /\ Shape(p) /\ s \in Station
             /\ p.found \in 1..3 /\ p.hops \in Nat
             /\ p.current \in 1..p.hops /\ p.stations[p.current] = s
             /\ s # p.source => p.current # 1
             /\ s = p.destination => p.current # 1
             /\ s # p.destination => p.current # p.hops
             /\ s = p.source => p.current # p.hops
<1> DEFINE p == m.payload
           s == Host[m.to]
<1>1. p \in Payload /\ Shape(p) /\ m.to \in Addr /\ Placed(m)
  BY DEF Good, Datagram
<1>2. p.found \in 1..3 /\ p.hops \in Nat
  BY <1>1 DEF Payload, Placed
<1>3. p.current \in 1..p.hops /\ p.stations \in Seq(Station)
  BY <1>1, <1>2 DEF Shape, Payload
<1>4. s = Host[OwnAddr[p.stations[p.current]]]
  BY <1>1, <1>2, <1>3 DEF Shape, Placed
<1>5. p.stations[p.current] \in Station
  BY <1>1, <1>2, <1>3 DEF Shape
<1>6. s = p.stations[p.current]
  BY <1>4, <1>5, RelayAssumption
<1>7. /\ p.stations[1] = p.source /\ p.stations[p.hops] = p.destination
      /\ p.source # p.destination
  BY <1>1, <1>2 DEF Shape
<1>8. QED
  BY <1>1, <1>2, <1>3, <1>5, <1>6, <1>7

\* A handler that sends good datagrams leaves good datagrams in flight.
LEMMA ReplaceGood ==
  ASSUME RouteInv, NEW m \in net, NEW sent, \A d \in sent : Good(d),
         Replace(m, sent)
  PROVE  \A d \in net' : Good(d)
BY DEF RouteInv, Replace

\* What the actions that change nothing but the network have in common.
LEMMA NetOnly ==
  ASSUME RouteInv, \A d \in net' : Good(d), UNCHANGED <<waiting, answered, down>>
  PROVE  RouteInv'
BY DEF RouteInv

\* Every path through the UDP handler preserves the invariant.
LEMMA HandleRouteInv ==
  ASSUME RouteInv, NEW s \in Station, NEW m \in net, Handle(s, m)
  PROVE  RouteInv'
<1> DEFINE p == m.payload
<1>1. Good(m) /\ p \in Payload /\ p.found \in 0..4 /\ Shape(p)
  BY DEF RouteInv, Good, Datagram, Payload
<1>2. CASE Flood(s, m)
  <2>1. /\ s = Host[m.to] /\ p.found = 0
        /\ Replace(m, {[to |-> a, payload |-> AddHop(p, s, Unknown, Dots)] :
                         a \in Unvisited(s, p)})
        /\ UNCHANGED <<waiting, answered, down>>
    BY <1>2 DEF Flood, Reads, Receives
  <2>2. Unvisited(s, p) \subseteq Addr
    BY RelayAssumption DEF Unvisited
  <2>3. \A a \in Addr : Good([to |-> a, payload |-> AddHop(p, s, Unknown, Dots)])
    BY <1>1, <2>1, FloodGood
  <2>4. \A d \in net' : Good(d)
    BY <2>1, <2>2, <2>3, ReplaceGood
  <2>5. QED
    BY <2>1, <2>4, NetOnly
<1>3. CASE Found(s, m)
  <2> DEFINE e == Timetables[s][1]
             d == StepBack([AddHop(p, s, e.route_name, e.arrival_time)
                              EXCEPT !.found = 1])
  <2>1. /\ s = Host[m.to] /\ p.found = 0 /\ p.destination = s
        /\ Replace(m, {d}) /\ UNCHANGED <<waiting, answered, down>>
    BY <1>3 DEF Found, Reads, Receives
  <2>2. e \in Service
    BY RelayAssumption
  <2>3. e.route_name \in RouteName /\ e.arrival_time \in Time
    BY <2>2 DEF Service, RouteName, Time
  <2>4. Good(d)
    <3> HIDE DEF e
    <3> QED BY <1>1, <2>1, <2>3, FoundGood
  <2> HIDE DEF d
  <2>5. \A x \in net' : Good(x)
    BY <2>1, <2>4, ReplaceGood
  <2>6. QED
    BY <2>1, <2>5, NetOnly
<1>4. CASE Backtrace(s, m) \/ Return(s, m)
  <2>1. /\ s = Host[m.to] /\ p.found > 0 /\ p.source # s
        /\ Replace(m, {StepBack(p)}) /\ UNCHANGED <<waiting, answered, down>>
    BY <1>4 DEF Backtrace, Return, Reads, Receives
  <2>2. p.found \in 1..3 /\ p.current # 1
    BY <1>1, <2>1, AtCursor
  <2>3. Good(StepBack(p))
    BY <1>1, <2>2, StepBackGood
  <2>4. \A d \in net' : Good(d)
    BY <2>1, <2>3, ReplaceGood
  <2>5. QED
    BY <2>1, <2>4, NetOnly
<1>5. CASE TurnAround(s, m)
  <2>1. /\ s = Host[m.to] /\ p.found = 1 /\ p.source = s
        /\ UNCHANGED <<waiting, answered, down>>
    BY <1>5 DEF TurnAround, Reads, Receives
  <2>2. PICK q \in Departures(p, s) : \E d \in StepsForth(q, s) : Replace(m, {d})
    BY <1>5 DEF TurnAround
  <2>3. PICK d \in StepsForth(q, s) : Replace(m, {d})
    BY <2>2
  <2>4. p.current # p.hops
    <3>1. p.found > 0
      BY <2>1
    <3>2. QED
      BY <1>1, <2>1, <3>1, AtCursor
  <2>5. /\ q \in Payload /\ q.found = 2 /\ q.current = p.current
        /\ SameRoute(p, q) /\ q.routes = p.routes /\ Len(q.time) = p.hops
    BY <1>1, <2>1, DeparturesFacts
  <2>6. Shape(q) /\ q.current # q.hops
    BY <1>1, <2>1, <2>4, <2>5 DEF Shape, SameRoute
  <2>7. Good(d)
    BY <2>3, <2>5, <2>6, StepsForthGood
  <2>8. \A x \in net' : Good(x)
    BY <2>3, <2>7, ReplaceGood
  <2>9. QED
    BY <2>1, <2>8, NetOnly
<1>6. CASE Annotate(s, m)
  <2>1. /\ s = Host[m.to] /\ p.found = 2 /\ p.destination # s
        /\ UNCHANGED <<waiting, answered, down>>
    BY <1>6 DEF Annotate, Reads, Receives
  <2>2. PICK d \in StepsForth(p, s) : Replace(m, {d})
    BY <1>6 DEF Annotate
  <2>3. p.current # p.hops
    <3>1. p.found > 0
      BY <2>1
    <3>2. QED
      BY <1>1, <2>1, <3>1, AtCursor
  <2>4. Good(d)
    BY <1>1, <2>1, <2>2, <2>3, StepsForthGood
  <2>5. \A x \in net' : Good(x)
    BY <2>2, <2>4, ReplaceGood
  <2>6. QED
    BY <2>1, <2>5, NetOnly
<1>7. CASE Complete(s, m)
  <2> DEFINE q == [p EXCEPT !.found = 3]
  <2>1. /\ s = Host[m.to] /\ p.found = 2 /\ p.destination = s
        /\ Replace(m, {StepBack(q)}) /\ UNCHANGED <<waiting, answered, down>>
    BY <1>7 DEF Complete, Reads, Receives
  <2>2. p.found > 0 /\ 3 \in 0..4
    BY <2>1
  <2>3. p.current # 1
    BY <1>1, <2>1, <2>2, AtCursor
  <2>4. q \in Payload /\ q.found = 3 /\ q.current = p.current
    BY <1>1, <2>2, SetFoundFacts, Zenon
  <2>5. Shape(q)
    BY <1>1, <2>2, SetFoundShape, Zenon
  <2> HIDE DEF q
  <2>6. Good(StepBack(q))
    BY <2>3, <2>4, <2>5, StepBackGood
  <2>7. \A d \in net' : Good(d)
    BY <2>1, <2>6, ReplaceGood
  <2>8. QED
    BY <2>1, <2>7, NetOnly
<1>8. CASE Finish(s, m)
  <2> DEFINE q == [p EXCEPT !.found = 4]
  <2>1. /\ p.found = 3 /\ Replace(m, {}) /\ UNCHANGED down
        /\ answered' = answered \cup {x \in {q} : QueryOf(q) \in waiting}
        /\ waiting' = waiting \ {QueryOf(q)}
    BY <1>8 DEF Finish
  <2>2. p.found > 0 /\ 4 \in 0..4
    BY <2>1
  <2>3. q \in Payload
    BY <1>1, <2>2, SetFoundFacts, Zenon
  <2>4. Shape(q)
    BY <1>1, <2>2, SetFoundShape, Zenon
  <2> HIDE DEF q
  <2>5. \A d \in net' : Good(d)
    BY <2>1, ReplaceGood
  <2>6. QED
    BY <2>1, <2>3, <2>4, <2>5 DEF RouteInv
<1>9. CASE Overrun(s, m) \/ FinishTorn(s, m) \/ Misread(s, m)
  <2>1. /\ Replace(m, {}) /\ down' = down \cup {s}
        /\ UNCHANGED <<waiting, answered>>
    BY <1>9 DEF Overrun, FinishTorn, Misread
  <2>2. \A d \in net' : Good(d)
    BY <2>1, ReplaceGood
  <2>3. QED
    BY <2>1, <2>2 DEF RouteInv
<1>10. CASE Tear(s, m)
  <2> DEFINE d == [m EXCEPT !.payload.start_time = Torn]
  <2>1. Replace(m, {d}) /\ UNCHANGED <<waiting, answered, down>>
    BY <1>10 DEF Tear
  <2>2. Good(d)
    BY <1>1, TearFacts
  <2> HIDE DEF d
  <2>3. \A x \in net' : Good(x)
    BY <2>1, <2>2, ReplaceGood
  <2>4. QED
    BY <2>1, <2>3, NetOnly
<1>11. QED
  BY <1>2, <1>3, <1>4, <1>5, <1>6, <1>7, <1>8, <1>9, <1>10 DEF Handle

\* So do the clients, the timeouts and the network.
LEMMA OthersRouteInv ==
  ASSUME RouteInv,
         \/ \E q \in Query : Request(q)
         \/ \E s \in Station : Timeout(s)
         \/ \E m \in net : Lose(m)
         \/ UNCHANGED vars
  PROVE  RouteInv'
<1>1. ASSUME NEW q \in Query, Request(q)
      PROVE  RouteInv'
  BY <1>1 DEF RouteInv, Request
<1>2. ASSUME NEW s \in Station, Timeout(s)
      PROVE  RouteInv'
  <2>1. ASSUME NEW q \in Query, q.source = s
        PROVE  Good([to |-> OwnAddr[s], payload |-> FirstPayload(q)])
    <3> DEFINE p == FirstPayload(q)
    <3>1. /\ q.destination \in Name /\ q.start_time \in Clock
          /\ q.source # q.destination
      BY RelayAssumption DEF QueryType
    <3>2. /\ p.found = 0 /\ p.hops = 0 /\ p.current = 0
          /\ p.stations = <<>> /\ p.address = <<>>
          /\ p.routes = <<>> /\ p.time = <<>>
          /\ p.source = s /\ p.destination = q.destination
      BY <2>1 DEF FirstPayload
    <3>3. p \in Payload
      BY <2>1, <3>1 DEF FirstPayload, Payload
    <3>4. Shape(p)
      BY <2>1, <3>1, <3>2 DEF Shape
    <3>5. OwnAddr[s] \in Addr /\ Host[OwnAddr[s]] = s
      BY RelayAssumption
    <3> HIDE DEF p
    <3>6. Good([to |-> OwnAddr[s], payload |-> p])
      BY <3>2, <3>3, <3>4, <3>5 DEF Good, Datagram, Placed
    <3>7. QED
      BY <3>6 DEF p
  <2>2. \A q \in waiting : q \in Query
    BY DEF RouteInv
  <2>3. \A d \in net' : Good(d)
    BY <1>2, <2>1, <2>2 DEF Timeout, RouteInv
  <2>4. UNCHANGED <<waiting, answered, down>>
    BY <1>2 DEF Timeout
  <2>5. QED
    BY <2>3, <2>4, NetOnly
<1>3. ASSUME NEW m \in net, Lose(m)
      PROVE  RouteInv'
  BY <1>3 DEF RouteInv, Lose
<1>4. CASE UNCHANGED vars
  BY <1>4 DEF RouteInv, vars
<1>5. QED
  BY <1>1, <1>2, <1>3, <1>4

(***************************************************************************)
(* In every reachable state the payloads in flight and in the answers are  *)
(* well-formed routes from source towards destination, and every datagram  *)
(* is addressed to the station at its cursor: no handler of main.c ever    *)
(* reads or writes past the arrays of a payload.                           *)
(***************************************************************************)
THEOREM RouteInvariant == Spec => []RouteInv
<1>1. Init => RouteInv
  BY DEF Init, RouteInv
<1>2. RouteInv /\ [Next]_vars => RouteInv'
  <2> SUFFICES ASSUME RouteInv, [Next]_vars
               PROVE  RouteInv'
    OBVIOUS
  <2>1. \/ \E s \in Station, m \in net : Handle(s, m)
        \/ \E q \in Query : Request(q)
        \/ \E s \in Station : Timeout(s)
        \/ \E m \in net : Lose(m)
        \/ UNCHANGED vars
    BY DEF Next
  <2>2. QED
    BY <2>1, HandleRouteInv, OthersRouteInv
<1>3. QED
  BY <1>1, <1>2, PTL DEF Spec

\* The types of the datagrams, of the answers and of the tables hold always.
THEOREM TypeCorrectness == Spec => []TypeOK
<1>1. RouteInv => TypeOK
  BY DEF RouteInv, TypeOK, Good
<1>2. QED
  BY <1>1, RouteInvariant, PTL

(***************************************************************************)
(* The station that handles a payload after it was found is the one listed *)
(* at the cursor, whatever is lost, duplicated or delayed.                 *)
(***************************************************************************)
THEOREM CursorCorrectness == Spec => []CursorIsAddressee
<1>1. RouteInv => CursorIsAddressee
  <2> SUFFICES ASSUME RouteInv, NEW m \in net, m.payload.found > 0
               PROVE  /\ m.payload.current \in 1..m.payload.hops
                      /\ m.payload.stations[m.payload.current] = Host[m.to]
    BY DEF CursorIsAddressee
  <2>1. Good(m)
    BY DEF RouteInv
  <2>2. QED
    BY <2>1, AtCursor
<1>2. QED
  BY <1>1, RouteInvariant, PTL

-----------------------------------------------------------------------------
(* Simple paths, where stations know each other by one name *)

\* Neighbours are joined and no station comes twice.
Simple(p) ==
  /\ \A i \in 1..p.hops - 1 : p.address[i + 1] \in Neighbours[p.stations[i]]
  /\ \A i, j \in 1..p.hops : p.stations[i] = p.stations[j] => i = j

\* A payload that floods goes on to a neighbour that is not on its route.
Fresh(m) ==
  m.payload.found = 0 =>
    /\ \A k \in 1..m.payload.hops : m.payload.stations[k] # Host[m.to]
    /\ m.payload.hops > 0 =>
         m.to \in Neighbours[m.payload.stations[m.payload.hops]]
    /\ m.to = OwnAddr[Host[m.to]]

PathInv ==
  /\ \A m \in net : Simple(m.payload) /\ Fresh(m)
  /\ \A p \in answered : Simple(p)

\* A payload that was found and keeps its route keeps a simple path.
LEMMA SameRouteSimple ==
  ASSUME NEW p, NEW q, SameRoute(p, q), Simple(p)
  PROVE  Simple(q)
BY DEF SameRoute, Simple

\* One station back, the route is the same.
LEMMA StepBackRoute ==
  ASSUME NEW p \in Payload
  PROVE  SameRoute(p, StepBack(p).payload) /\ StepBack(p).payload.found = p.found
BY DEF StepBack, ToCurrent, SameRoute, Payload

\* One station forth, the route is the same.
LEMMA StepsForthRoute ==
  ASSUME NEW p \in Payload, NEW s \in Station, NEW d \in StepsForth(p, s)
  PROVE  SameRoute(p, d.payload) /\ d.payload.found = p.found
<1>1. PICK i : d = WriteLeg(p, Timetables[s], i)
  BY DEF StepsForth
<1> DEFINE n == p.current + 1
           x == LegTime(Timetables[s], i)
           r == LegRoute(Timetables[s], i)
<1>2. d.payload = [p EXCEPT !.time[n] = x, !.routes[n] = r, !.current = n]
  BY <1>1 DEF WriteLeg, ToCurrent
<1> HIDE DEF n, x, r
<1>3. QED
  BY <1>2 DEF SameRoute, Payload

\* The station that receives a fresh payload extends a simple path.
LEMMA AddHopSimple ==
  ASSUME NEW m, Good(m), Simple(m.payload), Fresh(m), m.payload.found = 0,
         NEW r \in RouteName, NEW t \in Time
  PROVE  Simple(AddHop(m.payload, Host[m.to], r, t))
<1> DEFINE p == m.payload
           s == Host[m.to]
           q == AddHop(p, s, r, t)
<1>1. p \in Payload /\ Shape(p) /\ s \in Station
  BY RelayAssumption DEF Good, Datagram
<1>2. /\ q.hops = p.hops + 1 /\ q.stations = Append(p.stations, s)
      /\ q.address = Append(p.address, OwnAddr[s])
  BY <1>1, AddHopFacts
<1>3. /\ p.hops \in Nat /\ p.stations \in Seq(Station) /\ p.address \in Seq(Addr)
      /\ Len(p.stations) = p.hops /\ Len(p.address) = p.hops
      /\ OwnAddr[s] \in Addr
  BY <1>1, RelayAssumption DEF Shape, Payload
<1>4. /\ \A k \in 1..p.hops : p.stations[k] # s
      /\ p.hops > 0 => OwnAddr[s] \in Neighbours[p.stations[p.hops]]
  BY DEF Fresh
<1> HIDE DEF q, s
<1>5. /\ \A i \in 1..p.hops : q.stations[i] = p.stations[i] /\ q.address[i] = p.address[i]
      /\ q.stations[q.hops] = s /\ q.address[q.hops] = OwnAddr[s]
  BY <1>1, <1>2, <1>3
<1>6. ASSUME NEW i \in 1..q.hops - 1
      PROVE  q.address[i + 1] \in Neighbours[q.stations[i]]
  <2>1. CASE i = p.hops
    BY <1>2, <1>3, <1>4, <1>5, <2>1
  <2>2. CASE i # p.hops
    <3>1. i \in 1..p.hops - 1 /\ i \in 1..p.hops /\ i + 1 \in 1..p.hops
      BY <1>2, <1>3, <2>2
    <3>2. QED
      BY <1>5, <3>1 DEF Simple
  <2>3. QED
    BY <2>1, <2>2
<1>7. ASSUME NEW i \in 1..q.hops, NEW j \in 1..q.hops, q.stations[i] = q.stations[j]
      PROVE  i = j
  <2>1. (i \in 1..p.hops \/ i = q.hops) /\ (j \in 1..p.hops \/ j = q.hops)
    BY <1>2, <1>3
  <2>2. QED
    BY <1>4, <1>5, <1>7, <2>1 DEF Simple
<1>8. Simple(q)
  BY <1>6, <1>7 DEF Simple
<1>9. QED
  BY <1>8 DEF q, s

\* Whom the flood goes on to: the comparison of strings tells stations apart.
LEMMA FloodFresh ==
  ASSUME Canonical, NEW m, Good(m), m.payload.found = 0,
         NEW a \in Unvisited(Host[m.to], m.payload)
  PROVE  Fresh([to |-> a, payload |-> AddHop(m.payload, Host[m.to], Unknown, Dots)])
<1> DEFINE p == m.payload
           s == Host[m.to]
           q == AddHop(p, s, Unknown, Dots)
<1>1. p \in Payload /\ Shape(p) /\ s \in Station
  BY RelayAssumption DEF Good, Datagram
<1>2. Unknown \in RouteName /\ Dots \in Time
  BY DEF RouteName, Time
<1>3. q.hops = p.hops + 1 /\ q.stations = Append(p.stations, s)
  BY <1>1, <1>2, AddHopFacts
<1>4. /\ p.hops \in Nat /\ p.stations \in Seq(Station) /\ Len(p.stations) = p.hops
      /\ \A k \in 1..p.hops : p.address[k] = OwnAddr[p.stations[k]]
  BY <1>1 DEF Shape, Payload
<1>5. a \in Neighbours[s] /\ \A k \in 1..p.hops : a # p.address[k]
  BY DEF Unvisited
<1>6. PICK n \in Station \ {s} : a = OwnAddr[n]
  BY <1>1, <1>5 DEF Canonical
<1>7. Host[a] = n
  BY <1>6, RelayAssumption
<1> HIDE DEF q, s
<1>8. \A k \in 1..p.hops : p.stations[k] # n
  BY <1>4, <1>5, <1>6
<1>9. /\ \A k \in 1..p.hops : q.stations[k] = p.stations[k]
      /\ q.stations[q.hops] = s
  BY <1>1, <1>3, <1>4
<1>10. \A k \in 1..q.hops : k \in 1..p.hops \/ k = q.hops
  BY <1>3, <1>4
<1>11. \A k \in 1..q.hops : q.stations[k] # n
  BY <1>6, <1>8, <1>9, <1>10
<1>12. Fresh([to |-> a, payload |-> q])
  BY <1>5, <1>6, <1>7, <1>9, <1>11 DEF Fresh
<1>13. QED
  BY <1>12 DEF q, s

\* Every path through the UDP handler keeps the paths simple.
LEMMA HandlePathInv ==
  ASSUME Canonical, RouteInv, PathInv, NEW s \in Station, NEW m \in net, Handle(s, m)
  PROVE  PathInv'
<1> DEFINE p == m.payload
<1>1. Good(m) /\ p \in Payload /\ Simple(p) /\ Fresh(m)
  BY DEF RouteInv, PathInv, Good, Datagram
<1>2. ASSUME NEW sent, \A d \in sent : Simple(d.payload) /\ Fresh(d),
             Replace(m, sent), answered' = answered
      PROVE  PathInv'
  BY <1>2 DEF PathInv, Replace
<1>3. ASSUME NEW d, SameRoute(p, d.payload), d.payload.found # 0,
             Replace(m, {d}), answered' = answered
      PROVE  PathInv'
  <2>1. Simple(d.payload) /\ Fresh(d)
    BY <1>1, <1>3, SameRouteSimple DEF Fresh
  <2>2. QED
    BY <1>2, <1>3, <2>1
<1>4. CASE Flood(s, m)
  <2> DEFINE q == AddHop(p, s, Unknown, Dots)
             sent == {[to |-> a, payload |-> q] : a \in Unvisited(s, p)}
  <2>1. s = Host[m.to] /\ p.found = 0 /\ Replace(m, sent) /\ answered' = answered
    BY <1>4 DEF Flood, Reads, Receives
  <2>2. Unknown \in RouteName /\ Dots \in Time
    BY DEF RouteName, Time
  <2>3. Simple(q)
    BY <1>1, <2>1, <2>2, AddHopSimple
  <2>4. \A a \in Unvisited(s, p) : Fresh([to |-> a, payload |-> q])
    BY <1>1, <2>1, FloodFresh
  <2> HIDE DEF q
  <2>5. \A d \in sent : Simple(d.payload) /\ Fresh(d)
    BY <2>3, <2>4
  <2> HIDE DEF sent
  <2>6. QED
    BY <1>2, <2>1, <2>5
<1>5. CASE Found(s, m)
  <2> DEFINE e == Timetables[s][1]
             q == AddHop(p, s, e.route_name, e.arrival_time)
             z == [q EXCEPT !.found = 1]
             d == StepBack(z)
  <2>1. s = Host[m.to] /\ p.found = 0 /\ Replace(m, {d}) /\ answered' = answered
    BY <1>5 DEF Found, Reads, Receives
  <2>2. e \in Service
    BY RelayAssumption
  <2>3. e.route_name \in RouteName /\ e.arrival_time \in Time
    BY <2>2 DEF Service, RouteName, Time
  <2> HIDE DEF e
  <2>4. Simple(q)
    BY <1>1, <2>1, <2>3, AddHopSimple
  <2>5. q \in Payload
    BY <1>1, <2>3, AddHopFacts
  <2> HIDE DEF q
  <2>6. z \in Payload /\ z.found = 1 /\ SameRoute(q, z)
    <3>1. 1 \in 0..4
      OBVIOUS
    <3>2. QED
      BY <2>5, <3>1, SetFoundFacts, Zenon
  <2> HIDE DEF z
  <2>7. SameRoute(z, d.payload) /\ d.payload.found = 1
    BY <2>6, StepBackRoute
  <2>8. Simple(d.payload) /\ Fresh(d)
    BY <2>4, <2>6, <2>7, SameRouteSimple DEF Fresh
  <2> HIDE DEF d
  <2>9. QED
    BY <1>2, <2>1, <2>8
<1>6. CASE Backtrace(s, m) \/ Return(s, m)
  <2>1. p.found # 0 /\ Replace(m, {StepBack(p)}) /\ answered' = answered
    BY <1>6 DEF Backtrace, Return
  <2>2. QED
    BY <1>1, <1>3, <2>1, StepBackRoute
<1>7. CASE TurnAround(s, m)
  <2>1. p.found = 1 /\ answered' = answered
    BY <1>7 DEF TurnAround
  <2>2. PICK q \in Departures(p, s) : \E d \in StepsForth(q, s) : Replace(m, {d})
    BY <1>7 DEF TurnAround
  <2>3. PICK d \in StepsForth(q, s) : Replace(m, {d})
    BY <2>2
  <2>4. q \in Payload /\ q.found = 2 /\ SameRoute(p, q)
    BY <1>1, <2>1, DeparturesFacts DEF Good
  <2>5. SameRoute(q, d.payload) /\ d.payload.found = 2
    BY <2>4, StepsForthRoute
  <2>6. SameRoute(p, d.payload)
    BY <2>4, <2>5 DEF SameRoute
  <2>7. QED
    BY <1>3, <2>1, <2>3, <2>5, <2>6
<1>8. CASE Annotate(s, m)
  <2>1. p.found = 2 /\ answered' = answered
    BY <1>8 DEF Annotate
  <2>2. PICK d \in StepsForth(p, s) : Replace(m, {d})
    BY <1>8 DEF Annotate
  <2>3. SameRoute(p, d.payload) /\ d.payload.found = p.found
    BY <1>1, StepsForthRoute
  <2>4. QED
    BY <1>3, <2>1, <2>2, <2>3
<1>9. CASE Complete(s, m)
  <2> DEFINE q == [p EXCEPT !.found = 3]
  <2>1. Replace(m, {StepBack(q)}) /\ answered' = answered
    BY <1>9 DEF Complete
  <2>2. q \in Payload /\ q.found = 3 /\ SameRoute(p, q)
    <3>1. 3 \in 0..4
      OBVIOUS
    <3>2. QED
      BY <1>1, <3>1, SetFoundFacts, Zenon
  <2> HIDE DEF q
  <2>3. SameRoute(q, StepBack(q).payload) /\ StepBack(q).payload.found = 3
    BY <2>2, StepBackRoute
  <2>4. SameRoute(p, StepBack(q).payload)
    BY <2>2, <2>3 DEF SameRoute
  <2>5. QED
    BY <1>3, <2>1, <2>3, <2>4
<1>10. CASE Finish(s, m)
  <2> DEFINE q == [p EXCEPT !.found = 4]
  <2>1. /\ Replace(m, {})
        /\ answered' = answered \cup {x \in {q} : QueryOf(q) \in waiting}
    BY <1>10 DEF Finish
  <2>2. SameRoute(p, q)
    <3>1. 4 \in 0..4
      OBVIOUS
    <3>2. QED
      BY <1>1, <3>1, SetFoundFacts, Zenon
  <2> HIDE DEF q
  <2>3. Simple(q)
    BY <1>1, <2>2, SameRouteSimple
  <2>4. QED
    BY <2>1, <2>3 DEF PathInv, Replace
<1>11. CASE Overrun(s, m) \/ FinishTorn(s, m) \/ Misread(s, m)
  <2>1. Replace(m, {}) /\ answered' = answered
    BY <1>11 DEF Overrun, FinishTorn, Misread
  <2>2. QED
    BY <1>2, <2>1
<1>12. CASE Tear(s, m)
  <2> DEFINE d == [m EXCEPT !.payload.start_time = Torn]
  <2>1. Replace(m, {d}) /\ answered' = answered
    BY <1>12 DEF Tear
  <2>2. /\ d.to = m.to /\ d.payload.found = p.found /\ d.payload.hops = p.hops
        /\ d.payload.stations = p.stations /\ d.payload.address = p.address
    BY <1>1, TearFacts
  <2> HIDE DEF d
  <2>3. Simple(d.payload) /\ Fresh(d)
    BY <1>1, <2>2 DEF Simple, Fresh
  <2>4. QED
    BY <1>2, <2>1, <2>3
<1>13. QED
  BY <1>4, <1>5, <1>6, <1>7, <1>8, <1>9, <1>10, <1>11, <1>12 DEF Handle

\* So do the clients, the timeouts and the network.
LEMMA OthersPathInv ==
  ASSUME RouteInv, PathInv,
         \/ \E q \in Query : Request(q)
         \/ \E s \in Station : Timeout(s)
         \/ \E m \in net : Lose(m)
         \/ UNCHANGED vars
  PROVE  PathInv'
<1>1. ASSUME NEW q \in Query, Request(q)
      PROVE  PathInv'
  BY <1>1 DEF PathInv, Request
<1>2. ASSUME NEW s \in Station, Timeout(s)
      PROVE  PathInv'
  <2>1. ASSUME NEW q
        PROVE  LET d == [to |-> OwnAddr[s], payload |-> FirstPayload(q)]
               IN  Simple(d.payload) /\ Fresh(d)
    <3>1. Host[OwnAddr[s]] = s
      BY RelayAssumption
    <3>2. FirstPayload(q).hops = 0
      BY DEF FirstPayload
    <3>3. QED
      BY <3>1, <3>2 DEF Simple, Fresh
  <2>2. QED
    BY <1>2, <2>1 DEF Timeout, PathInv
<1>3. ASSUME NEW m \in net, Lose(m)
      PROVE  PathInv'
  BY <1>3 DEF PathInv, Lose
<1>4. CASE UNCHANGED vars
  BY <1>4 DEF PathInv, vars
<1>5. QED
  BY <1>1, <1>2, <1>3, <1>4

\* Where stations know each other by one name, the paths are always simple.
THEOREM PathInvariant ==
  ASSUME Canonical
  PROVE  Spec => [](RouteInv /\ PathInv)
<1>1. Init => PathInv
  BY DEF Init, PathInv
<1>2. RouteInv /\ PathInv /\ [Next]_vars => PathInv'
  <2> SUFFICES ASSUME RouteInv, PathInv, [Next]_vars
               PROVE  PathInv'
    OBVIOUS
  <2>1. \/ \E s \in Station, m \in net : Handle(s, m)
        \/ \E q \in Query : Request(q)
        \/ \E s \in Station : Timeout(s)
        \/ \E m \in net : Lose(m)
        \/ UNCHANGED vars
    BY DEF Next
  <2>2. QED
    BY <2>1, HandlePathInv, OthersPathInv
<1>3. QED
  BY <1>1, <1>2, RouteInvariant, PTL DEF Spec

(***************************************************************************)
(* The loop check of the flood works: no payload is sent on to a station   *)
(* that is already on its route.                                           *)
(***************************************************************************)
THEOREM FloodFreshness ==
  ASSUME Canonical
  PROVE  Spec => []FloodIsFresh
<1>1. PathInv => FloodIsFresh
  BY DEF PathInv, Fresh, FloodIsFresh
<1>2. QED
  BY <1>1, PathInvariant, PTL

(***************************************************************************)
(* Every route in flight or in an answer is a simple path of the network   *)
(* from the source, and once found it ends at the destination.             *)
(***************************************************************************)
THEOREM SimplePaths ==
  ASSUME Canonical
  PROVE  Spec => []RoutesAreSimplePaths
<1>1. ASSUME NEW p \in Payload, Shape(p), Simple(p)
      PROVE  IsRoute(p) /\ (p.found > 0 => p.hops > 0 /\ p.stations[p.hops] = p.destination)
  <2>1. p.hops \in Nat
    BY <1>1 DEF Payload
  <2>2. QED
    BY <1>1, <2>1 DEF Shape, Simple, IsRoute
<1>2. RouteInv /\ PathInv => RoutesAreSimplePaths
  BY <1>1 DEF RouteInv, PathInv, Good, Datagram, RoutesAreSimplePaths
<1>3. QED
  BY <1>2, PathInvariant, PTL

\* A route without repetitions has at most as many hops as there are stations.
LEMMA SimpleIsShort ==
  ASSUME IsFiniteSet(Station), NEW p \in Payload, Shape(p), Simple(p)
  PROVE  p.hops <= Cardinality(Station)
<1> DEFINE f == [i \in 1..p.hops |-> p.stations[i]]
<1>1. /\ p.hops \in Nat /\ p.stations \in Seq(Station)
      /\ Len(p.stations) = p.hops
  BY DEF Shape, Payload
<1>2. f \in Injection(1..p.hops, Station)
  BY <1>1 DEF Injection, IsInjective, Simple
<1>3. Cardinality(1..p.hops) <= Cardinality(Station)
  <2> HIDE DEF f
  <2> QED BY <1>2, FS_Injection
<1>4. Cardinality(1..p.hops) = p.hops
  BY <1>1, FS_Interval
<1>5. QED
  BY <1>3, <1>4

\* Where every simple route fits the buffer, no start_time is ever torn.
Whole == \A m \in net : m.payload.start_time # Torn

RoutesFit == IsFiniteSet(Station) /\ Cardinality(Station) <= MaxHops

LEMMA GoodFits ==
  ASSUME RoutesFit, NEW m, Good(m), Simple(m.payload)
  PROVE  m.payload.hops \in Nat /\ m.payload.hops <= MaxHops
<1>1. m.payload \in Payload /\ Shape(m.payload)
  BY DEF Good, Datagram
<1>2. m.payload.hops <= Cardinality(Station)
  BY <1>1, SimpleIsShort DEF RoutesFit
<1>3. /\ m.payload.hops \in Nat /\ MaxHops \in Nat
      /\ Cardinality(Station) \in Nat
  BY <1>1, RelayAssumption, FS_CardinalityType DEF Payload, RoutesFit
<1>4. QED
  BY <1>2, <1>3 DEF RoutesFit

\* A time of day is not a torn one.
LEMMA ClockIsWhole == \A t \in Clock : t # Torn
<1>1. Torn[1] = -2
  BY DEF Torn
<1>2. \A t \in Clock : t[1] \in 0..23
  BY DEF Clock
<1>3. QED
  BY <1>1, <1>2

\* What a step forth from p, or from a departure of p, is about.
LEMMA StartTimeStays ==
  ASSUME NEW p \in Payload, NEW s \in Station
  PROVE  /\ \A d \in StepsForth(p, s) : d.payload.start_time = p.start_time
         /\ Shape(p) /\ p.found = 1 =>
              \A q \in Departures(p, s) : \A d \in StepsForth(q, s) :
                d.payload.start_time = p.start_time
         /\ StepBack(p).payload.start_time = p.start_time
<1>1. ASSUME NEW q \in Payload, NEW d \in StepsForth(q, s)
      PROVE  d.payload.start_time = q.start_time
  BY StepsForthRoute DEF SameRoute
<1>2. ASSUME Shape(p), p.found = 1, NEW q \in Departures(p, s),
             NEW d \in StepsForth(q, s)
      PROVE  d.payload.start_time = p.start_time
  <2>1. q \in Payload /\ q.start_time = p.start_time
    BY <1>2, DeparturesFacts DEF SameRoute
  <2>2. QED
    BY <1>1, <1>2, <2>1
<1>3. StepBack(p).payload.start_time = p.start_time
  BY StepBackRoute DEF SameRoute
<1>4. QED
  BY <1>1, <1>2, <1>3

\* Every path through the UDP handler passes start_time on as it was read.
LEMMA StartTimeKept ==
  ASSUME NEW s \in Station, NEW m, Good(m), Handle(s, m), ~ Tear(s, m)
  PROVE  \E sent : /\ Replace(m, sent)
                   /\ \A d \in sent : d.payload.start_time = m.payload.start_time
<1> DEFINE p == m.payload
           Goal == \E sent : /\ Replace(m, sent)
                             /\ \A d \in sent : d.payload.start_time = p.start_time
<1>1. p \in Payload /\ Shape(p)
  BY DEF Good, Datagram
<1>2. ASSUME NEW sent, \A d \in sent : d.payload.start_time = p.start_time,
             Replace(m, sent)
      PROVE  Goal
  BY <1>2
<1>3. CASE Flood(s, m)
  <2> DEFINE q == AddHop(p, s, Unknown, Dots)
             sent == {[to |-> a, payload |-> q] : a \in Unvisited(s, p)}
  <2>1. Replace(m, sent)
    BY <1>3 DEF Flood
  <2>2. q.start_time = p.start_time
    BY <1>1 DEF AddHop, Payload
  <2>3. \A d \in sent : d.payload.start_time = p.start_time
    <3> HIDE DEF q
    <3> QED BY <2>2
  <2> HIDE DEF sent
  <2>4. QED
    BY <1>2, <2>1, <2>3
<1>4. CASE Found(s, m)
  <2> DEFINE e == Timetables[s][1]
             q == [AddHop(p, s, e.route_name, e.arrival_time) EXCEPT !.found = 1]
             d == StepBack(q)
  <2>1. Replace(m, {d})
    BY <1>4 DEF Found
  <2>2. d.payload = [q EXCEPT !.current = @ - 1]
    BY DEF StepBack, ToCurrent
  <2>3. q.start_time = p.start_time
    BY <1>1 DEF AddHop, Payload
  <2>4. d.payload.start_time = p.start_time
    <3> HIDE DEF d
    <3>1. d.payload.start_time = q.start_time
      BY <1>1, <2>2 DEF AddHop, Payload
    <3>2. QED
      BY <2>3, <3>1
  <2> HIDE DEF d
  <2>5. QED
    BY <1>2, <2>1, <2>4
<1>5. CASE Backtrace(s, m) \/ Return(s, m)
  <2>1. Replace(m, {StepBack(p)})
    BY <1>5 DEF Backtrace, Return
  <2>2. QED
    BY <1>1, <1>2, <2>1, StartTimeStays
<1>6. CASE TurnAround(s, m)
  <2>1. p.found = 1
    BY <1>6 DEF TurnAround
  <2>2. PICK q \in Departures(p, s) : \E d \in StepsForth(q, s) : Replace(m, {d})
    BY <1>6 DEF TurnAround
  <2>3. PICK d \in StepsForth(q, s) : Replace(m, {d})
    BY <2>2
  <2>4. d.payload.start_time = p.start_time
    BY <1>1, <2>1, StartTimeStays
  <2>5. QED
    BY <1>2, <2>3, <2>4
<1>7. CASE Annotate(s, m)
  <2>1. PICK d \in StepsForth(p, s) : Replace(m, {d})
    BY <1>7 DEF Annotate
  <2>2. d.payload.start_time = p.start_time
    BY <1>1, StartTimeStays
  <2>3. QED
    BY <1>2, <2>1, <2>2
<1>8. CASE Complete(s, m)
  <2> DEFINE q == [p EXCEPT !.found = 3]
  <2>1. Replace(m, {StepBack(q)})
    BY <1>8 DEF Complete
  <2>2. q \in Payload /\ q.start_time = p.start_time
    <3>1. 3 \in 0..4
      OBVIOUS
    <3>2. q \in Payload /\ SameRoute(p, q)
      BY <1>1, <3>1, SetFoundFacts, Zenon
    <3>3. QED
      BY <3>2 DEF SameRoute
  <2> HIDE DEF q
  <2>3. StepBack(q).payload.start_time = p.start_time
    BY <2>2, StartTimeStays
  <2>4. QED
    BY <1>2, <2>1, <2>3
<1>9. CASE Finish(s, m) \/ FinishTorn(s, m) \/ Misread(s, m) \/ Overrun(s, m)
  <2>1. Replace(m, {})
    BY <1>9 DEF Finish, FinishTorn, Misread, Overrun
  <2>2. QED
    BY <1>2, <2>1
<1>10. QED
  BY <1>3, <1>4, <1>5, <1>6, <1>7, <1>8, <1>9 DEF Handle

\* Where routes fit, nothing is torn, and so everything stays whole.
LEMMA HandleWhole ==
  ASSUME RoutesFit, RouteInv, PathInv, Whole,
         NEW s \in Station, NEW m \in net, Handle(s, m)
  PROVE  Whole'
<1>1. /\ Good(m) /\ m.payload.start_time # Torn
      /\ m.payload.hops \in Nat /\ m.payload.hops <= MaxHops /\ MaxHops \in Nat
  BY GoodFits, RelayAssumption DEF RouteInv, PathInv, Whole
<1>2. ~ Tear(s, m)
  BY <1>1 DEF Tear
<1>3. PICK sent : /\ Replace(m, sent)
                  /\ \A d \in sent : d.payload.start_time = m.payload.start_time
  BY <1>1, <1>2, StartTimeKept
<1>4. QED
  BY <1>1, <1>3 DEF Whole, Replace

\* Queries are about a time of day, so the first payloads are whole.
LEMMA OthersWhole ==
  ASSUME RouteInv, Whole,
         \/ \E q \in Query : Request(q)
         \/ \E s \in Station : Timeout(s)
         \/ \E m \in net : Lose(m)
         \/ UNCHANGED vars
  PROVE  Whole'
<1>1. ASSUME NEW q \in Query, Request(q) PROVE Whole'
  BY <1>1 DEF Whole, Request
<1>2. ASSUME NEW s \in Station, Timeout(s) PROVE Whole'
  <2>1. \A q \in waiting : FirstPayload(q).start_time # Torn
    <3> SUFFICES ASSUME NEW q \in waiting PROVE FirstPayload(q).start_time # Torn
      OBVIOUS
    <3>1. q.start_time \in Clock
      BY RelayAssumption DEF RouteInv, QueryType
    <3>2. QED
      BY <3>1, ClockIsWhole DEF FirstPayload
  <2>2. QED
    BY <1>2, <2>1 DEF Timeout, Whole
<1>3. ASSUME NEW m \in net, Lose(m) PROVE Whole'
  BY <1>3 DEF Whole, Lose
<1>4. CASE UNCHANGED vars
  BY <1>4 DEF Whole, vars
<1>5. QED
  BY <1>1, <1>2, <1>3, <1>4

(***************************************************************************)
(* If a payload with one hop for every station fits the receive buffer, no *)
(* station is ever taken down by a datagram that is too long, neither at   *)
(* once nor with a start_time that was torn on the way (and none at all,   *)
(* where what lies in front of the timetables can be printed).             *)
(***************************************************************************)
THEOREM NobodyGoesDown ==
  ASSUME Canonical, RoutesFit, ~ MayMisread
  PROVE  Spec => []NobodyDown
<1>1. Init => Whole /\ NobodyDown
  BY DEF Init, NobodyDown, Whole
<1>2. RouteInv /\ PathInv /\ Whole /\ [Next]_vars => Whole'
  <2> SUFFICES ASSUME RouteInv, PathInv, Whole, [Next]_vars
               PROVE  Whole'
    OBVIOUS
  <2>1. \/ \E s \in Station, m \in net : Handle(s, m)
        \/ \E q \in Query : Request(q)
        \/ \E s \in Station : Timeout(s)
        \/ \E m \in net : Lose(m)
        \/ UNCHANGED vars
    BY DEF Next
  <2>2. QED
    BY <2>1, HandleWhole, OthersWhole
<1>3. RouteInv /\ PathInv /\ Whole /\ NobodyDown /\ [Next]_vars => NobodyDown'
  <2> SUFFICES ASSUME RouteInv, PathInv, Whole, NobodyDown, [Next]_vars, down' # down
               PROVE  FALSE
    BY DEF NobodyDown
  <2>1. PICK s \in Station, m \in net :
          Overrun(s, m) \/ FinishTorn(s, m) \/ Misread(s, m)
    BY DEF Next, Handle, Flood, Found, Backtrace, TurnAround, Annotate,
           Complete, Return, Finish, Tear, Request, Timeout, Lose, vars
  <2>2. /\ m.payload.start_time # Torn
        /\ m.payload.hops \in Nat /\ m.payload.hops <= MaxHops /\ MaxHops \in Nat
    BY GoodFits, RelayAssumption DEF RouteInv, PathInv, Whole
  <2>3. ~ Overrun(s, m)
    BY <2>2 DEF Overrun
  <2>4. ~ FinishTorn(s, m)
    BY <2>2 DEF FinishTorn
  <2>5. ~ Misread(s, m)
    BY Zenon DEF Misread
  <2>6. QED
    BY <2>1, <2>3, <2>4, <2>5
<1>4. QED
  BY <1>1, <1>2, <1>3, PathInvariant, PTL DEF Spec
=============================================================================
