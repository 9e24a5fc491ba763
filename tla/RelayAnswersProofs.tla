------------------------- MODULE RelayAnswersProofs -------------------------
(***************************************************************************)
(* What the answers of module Relay are worth, for every network in which  *)
(* stations know each other by one name: theorems about the annotations of *)
(* the second round trip.                                                  *)
(***************************************************************************)
EXTENDS RelayProofs

-----------------------------------------------------------------------------
(* Times and searches *)

\* A time of day is a number of minutes below a day, and no placeholder.
LEMMA ClockMinutes ==
  ASSUME NEW t \in Clock
  PROVE  timeToMinutes(t) \in 0..1439 /\ t # TooLate /\ t # Dots /\ t # Torn
<1>1. t[1] \in 0..23 /\ t[2] \in 0..59
  BY DEF Clock
<1>2. timeToMinutes(t) \in 0..1439
  BY <1>1 DEF timeToMinutes
<1>3. TooLate[1] = 99 /\ Dots[1] = -1 /\ Torn[1] = -2
  BY DEF TooLate, Dots, Torn
<1>4. QED
  BY <1>1, <1>2, <1>3

\* A time of day is not before itself.
LEMMA ClockReflexive ==
  ASSUME NEW t \in Clock
  PROVE  timeToMinutes(t) <= timeToMinutes(t)
<1>1. timeToMinutes(t) \in 0..1439
  BY ClockMinutes
<1>2. QED
  BY <1>1

\* "99:99" is beyond the day, and can be read.
LEMMA TooLateMinutes ==
  timeToMinutes(TooLate) = 6039 /\ TooLate # Dots /\ TooLate # Torn
<1>1. TooLate[1] = 99 /\ TooLate[2] = 99 /\ Dots[1] = -1 /\ Torn[1] = -2
  BY DEF TooLate, Dots, Torn
<1>2. QED
  BY <1>1 DEF timeToMinutes

\* Times that can be read are in order, "99:99" the last of them.
LEMMA ReadableTransitive ==
  ASSUME NEW t \in Clock \cup {TooLate}, NEW u \in Clock, NEW v \in Clock,
         timeToMinutes(t) <= timeToMinutes(u), timeToMinutes(u) <= timeToMinutes(v)
  PROVE  timeToMinutes(t) <= timeToMinutes(v)
<1> DEFINE x == timeToMinutes(t)
           y == timeToMinutes(u)
           z == timeToMinutes(v)
<1>1. y \in 0..1439 /\ z \in 0..1439
  BY ClockMinutes
<1>2. x \in 0..6039
  <2>1. CASE t \in Clock
    <3>1. x \in 0..1439
      BY <2>1, ClockMinutes
    <3> HIDE DEF x
    <3>2. QED
      BY <3>1
  <2>2. CASE t = TooLate
    BY <2>2, TooLateMinutes
  <2>3. QED
    BY <2>1, <2>2
<1>3. x <= y /\ y <= z
  BY Zenon
<1>4. x <= z
  <2> HIDE DEF x, y, z
  <2> QED BY <1>1, <1>2, <1>3
<1>5. QED
  BY <1>4, Zenon

\* The lines that a search of tt looks at.
Lines(tt) == {tt[i] : i \in Searched(tt)}

\* They are services, and depart and arrive at times of day.
LEMMA LineTypes ==
  ASSUME NEW tt \in Seq(Service), NEW i \in Searched(tt)
  PROVE  /\ tt[i] \in Service /\ i \in 1..Len(tt)
         /\ tt[i].departure_time \in Clock /\ tt[i].arrival_time \in Clock
         /\ tt[i].route_name \in Route
<1>1. i \in 1..Len(tt)
  BY LenProperties DEF Searched
<1>2. tt[i] \in Service
  BY <1>1
<1>3. QED
  BY <1>1, <1>2 DEF Service

\* Nothing can be caught at "99:99".
LEMMA TooLateIsTooLate ==
  ASSUME NEW e, e.departure_time \in Clock, NEW to
  PROVE  ~ Catches(e, TooLate, to)
<1>1. timeToMinutes(e.departure_time) \in 0..1439
  BY ClockMinutes
<1>2. QED
  BY <1>1, TooLateMinutes DEF Catches

\* The service a search comes to is the one that arrives first, where the
\* timetable is in order.
LEMMA FirstArrivesFirst ==
  ASSUME NEW tt \in Seq(Service), InOrder(tt), NEW t, NEW to,
         NEW i \in Searched(tt), Catches(tt[i], t, to),
         \A j \in Searched(tt) : Catches(tt[j], t, to) => i <= j,
         NEW e \in Lines(tt), Catches(e, t, to)
  PROVE  timeToMinutes(tt[i].arrival_time) <= timeToMinutes(e.arrival_time)
<1>1. PICK j \in Searched(tt) : e = tt[j]
  BY DEF Lines
<1>2. i <= j /\ i \in 1..Len(tt) /\ j \in 1..Len(tt)
  BY <1>1, LineTypes
<1>3. CASE i = j
  <2>1. tt[i].arrival_time \in Clock
    BY LineTypes
  <2>2. timeToMinutes(tt[i].arrival_time) <= timeToMinutes(tt[i].arrival_time)
    BY <2>1, ClockReflexive, Zenon
  <2>3. QED
    BY <1>1, <1>3, <2>2, Zenon
<1>4. CASE i # j
  <2>1. i < j
    BY <1>2, <1>4
  <2>2. tt[i].arrival_station = tt[j].arrival_station
    BY <1>1 DEF Catches
  <2>3. QED
    BY <1>1, <1>2, <2>1, <2>2 DEF InOrder
<1>5. QED
  BY <1>3, <1>4

\* Line i of tt is what a search from time t comes to.
Found1st(tt, t, to, i) ==
  \/ i = NoEntry /\ \A e \in Lines(tt) : ~ Catches(e, t, to)
  \/ /\ i \in Searched(tt) /\ Catches(tt[i], t, to)
     /\ \A j \in Searched(tt) : Catches(tt[j], t, to) => i <= j

\* The search for a leg, from a time that can be read.
LEMMA SearchLeg ==
  ASSUME NEW tt \in Seq(Service), NEW t \in Clock \cup {TooLate}, NEW to,
         NEW i \in SearchResults(tt, t, to)
  PROVE  Found1st(tt, t, to, i)
<1>1. t \notin {Dots, Torn}
  BY ClockMinutes, TooLateMinutes
<1>2. i = search_timetable(tt, t, to)
  BY <1>1 DEF SearchResults
<1>3. QED
  BY <1>2, SearchFindsFirst DEF Lines, Found1st

-----------------------------------------------------------------------------
(* The legs of a payload that have been looked up *)

Ordered == \A s \in Station : InOrder(Timetables[s])

\* When one is at station i of the route, ready to go on.
From(p, i) == IF i = 1 THEN p.start_time ELSE p.time[i]

\* Leg i is annotated with the service e.
Takes(p, i, e) ==
  /\ Catches(e, From(p, i), p.stations[i + 1])
  /\ p.time[i + 1] = e.arrival_time /\ p.routes[i + 1] = e.route_name
  /\ i = 1 => p.time[1] = e.departure_time

Taken(p, i) == \E e \in Searchable[p.stations[i]] : Takes(p, i, e)

\* There is no service for leg i, and its annotation says so.
Missing(p, i) ==
  /\ p.time[i + 1] = TooLate /\ p.routes[i + 1] = NOTFOUND
  /\ i = 1 => p.time[1] = TooLate
  /\ \A e \in Searchable[p.stations[i]] :
       ~ Catches(e, From(p, i), p.stations[i + 1])

\* No service for leg i arrives before the one it is annotated with.
Foremost(p, i) ==
  \A e \in Searchable[p.stations[i]] :
    Catches(e, From(p, i), p.stations[i + 1])
      => timeToMinutes(p.time[i + 1]) <= timeToMinutes(e.arrival_time)

LegDone(p, i) ==
  /\ Taken(p, i) \/ Missing(p, i)
  /\ Ordered => Foremost(p, i)

\* The legs up to station n are done.
Done(p, n) == \A i \in 1..n - 1 : LegDone(p, i)

(***************************************************************************)
(* The annotations: on the way forth those up to the cursor are done, on   *)
(* the way back and in the answers all of them.  This is local to the      *)
(* legs, so that a station that writes one has nothing to say about the    *)
(* others; that the legs make up a journey follows by induction.  Nothing  *)
(* is said of a payload whose start_time is torn: none becomes an answer.  *)
(***************************************************************************)
Annotated(m) ==
  m.payload.start_time # Torn =>
    /\ m.payload.found = 2 =>
         m.payload.current > 1 /\ Done(m.payload, m.payload.current)
    /\ m.payload.found = 3 => Done(m.payload, m.payload.hops)

AnswerInv ==
  /\ \A m \in net : Annotated(m)
  /\ \A p \in answered : p.hops > 1 /\ Done(p, p.hops)

\* A leg that is done leaves a time that can be read.
LEMMA DoneTime ==
  ASSUME NEW p \in Payload, Shape(p), NEW i \in 1..p.hops - 1, LegDone(p, i)
  PROVE  p.time[i + 1] \in Clock \cup {TooLate}
<1>1. CASE Missing(p, i)
  BY <1>1 DEF Missing
<1>2. CASE Taken(p, i)
  <2>1. p.stations[i] \in Station
    BY DEF Shape, Payload
  <2>2. PICK j \in Searched(Timetables[p.stations[i]]) :
           Takes(p, i, Timetables[p.stations[i]][j])
    BY <1>2, <2>1 DEF Taken, Searchable
  <2>3. Timetables[p.stations[i]] \in Seq(Service)
    BY <2>1, RelayAssumption
  <2>4. QED
    BY <2>2, <2>3, LineTypes DEF Takes
<1>3. QED
  BY <1>1, <1>2 DEF LegDone

\* The lines of a station.
LEMMA SearchableLines ==
  ASSUME NEW s \in Station
  PROVE  /\ Timetables[s] \in Seq(Service)
         /\ Searchable[s] = Lines(Timetables[s])
BY RelayAssumption DEF Searchable, Lines

\* A payload with the annotations of p up to station n has its legs done.
LEMMA SameAnnotations ==
  ASSUME NEW p \in Payload, NEW q \in Payload, SameRoute(p, q), NEW n \in Nat,
         \A i \in 1..n : q.time[i] = p.time[i] /\ q.routes[i] = p.routes[i],
         Done(p, n)
  PROVE  Done(q, n)
<1> SUFFICES ASSUME NEW i \in 1..n - 1 PROVE LegDone(q, i)
  BY DEF Done
<1>1. i \in 1..n /\ i + 1 \in 1..n /\ 1 \in 1..n
  OBVIOUS
<1>2. LegDone(p, i)
  BY DEF Done
<1>3. /\ q.stations = p.stations /\ From(q, i) = From(p, i)
      /\ q.time[i + 1] = p.time[i + 1] /\ q.routes[i + 1] = p.routes[i + 1]
      /\ q.time[1] = p.time[1]
  BY <1>1 DEF SameRoute, From
<1>4. \A e : Takes(p, i, e) => Takes(q, i, e)
  BY <1>3 DEF Takes
<1>5. Taken(p, i) => Taken(q, i)
  BY <1>3, <1>4 DEF Taken
<1>6. Missing(p, i) => Missing(q, i)
  BY <1>3 DEF Missing
<1>7. Foremost(p, i) => Foremost(q, i)
  BY <1>3 DEF Foremost
<1>8. QED
  BY <1>2, <1>5, <1>6, <1>7 DEF LegDone

\* A leg is done once it is annotated with what the search came to.
LEMMA LegIsDone ==
  ASSUME NEW q, NEW c \in Nat, NEW s \in Station, q.stations[c] = s,
         NEW i, Found1st(Timetables[s], From(q, c), q.stations[c + 1], i),
         q.time[c + 1] = LegTime(Timetables[s], i),
         q.routes[c + 1] = LegRoute(Timetables[s], i),
         c = 1 => q.time[1] = IF i = NoEntry THEN TooLate
                              ELSE Timetables[s][i].departure_time
  PROVE  LegDone(q, c)
<1> DEFINE tt == Timetables[s]
<1>1. tt \in Seq(Service) /\ Searchable[s] = Lines(tt)
  BY SearchableLines
<1>2. CASE i = NoEntry
  <2>1. \A e \in Lines(tt) : ~ Catches(e, From(q, c), q.stations[c + 1])
    BY <1>1, <1>2, LineTypes DEF Found1st, Searched, NoEntry
  <2>2. Missing(q, c)
    BY <1>1, <1>2, <2>1 DEF Missing, LegTime, LegRoute
  <2>3. Foremost(q, c)
    BY <1>1, <2>1 DEF Foremost
  <2>4. QED
    BY <2>2, <2>3 DEF LegDone
<1>3. CASE i # NoEntry
  <2>1. /\ i \in Searched(tt) /\ Catches(tt[i], From(q, c), q.stations[c + 1])
        /\ \A j \in Searched(tt) : Catches(tt[j], From(q, c), q.stations[c + 1]) => i <= j
    BY <1>3 DEF Found1st
  <2>2. /\ q.time[c + 1] = tt[i].arrival_time /\ q.routes[c + 1] = tt[i].route_name
        /\ c = 1 => q.time[1] = tt[i].departure_time
    BY <1>3 DEF LegTime, LegRoute
  <2>3. tt[i] \in Searchable[s]
    BY <1>1, <2>1 DEF Lines
  <2>4. Takes(q, c, tt[i])
    BY <2>1, <2>2 DEF Takes
  <2>5. Taken(q, c)
    BY <2>3, <2>4 DEF Taken
  <2>6. ASSUME Ordered PROVE Foremost(q, c)
    <3> SUFFICES ASSUME NEW e \in Lines(tt), Catches(e, From(q, c), q.stations[c + 1])
                 PROVE  timeToMinutes(q.time[c + 1]) <= timeToMinutes(e.arrival_time)
      BY <1>1 DEF Foremost
    <3>1. InOrder(tt)
      BY <2>6 DEF Ordered
    <3>2. timeToMinutes(tt[i].arrival_time) <= timeToMinutes(e.arrival_time)
      <4> HIDE DEF tt
      <4> QED BY <1>1, <2>1, <3>1, FirstArrivesFirst, Zenon
    <3>3. QED
      BY <2>2, <3>2, Zenon
  <2>7. QED
    BY <2>5, <2>6 DEF LegDone
<1>4. QED
  BY <1>2, <1>3

\* What WriteLeg leaves in the arrays, position by position.
LEMMA WrittenPositions ==
  ASSUME NEW p \in Payload, Shape(p), p.found = 2, p.current # p.hops,
         NEW s \in Station, NEW d \in StepsForth(p, s)
  PROVE  LET q == d.payload
             n == p.current + 1
         IN  /\ q \in Payload /\ q.found = 2 /\ q.current = n /\ n \in 2..p.hops
             /\ SameRoute(p, q)
             /\ \A k \in 1..p.hops : k # n => /\ q.time[k] = p.time[k]
                                              /\ q.routes[k] = p.routes[k]
             /\ \E i \in SearchResults(Timetables[s], p.time[p.current], p.stations[n]) :
                  /\ q.time[n] = LegTime(Timetables[s], i)
                  /\ q.routes[n] = LegRoute(Timetables[s], i)
<1> DEFINE q == d.payload
           n == p.current + 1
<1>1. Timetables[s] \in Seq(Service)
  BY RelayAssumption
<1>2. PICK i \in SearchResults(Timetables[s], p.time[p.current], p.stations[n]) :
        d = WriteLeg(p, Timetables[s], i)
  BY DEF StepsForth
<1>3. i = NoEntry \/ i \in 1..Len(Timetables[s])
  BY <1>1, SearchRange
<1>4. /\ q \in Payload /\ q.found = 2 /\ q.current = n /\ n \in 2..p.hops
      /\ SameRoute(p, q)
      /\ Writes(p, q, n, LegTime(Timetables[s], i), LegRoute(Timetables[s], i))
  BY <1>1, <1>2, <1>3, WriteLegFacts
<1> DEFINE x == LegTime(Timetables[s], i)
           r == LegRoute(Timetables[s], i)
<1>5. p.time \in Seq(Time) /\ p.routes \in Seq(RouteName) /\ p.hops \in Nat
      /\ Len(p.time) = p.hops /\ Len(p.routes) = p.hops
  BY DEF Payload, Shape, RouteName
<1> HIDE DEF q, n, x, r
<1>6. q.time = [p.time EXCEPT ![n] = x] /\ q.routes = [p.routes EXCEPT ![n] = r]
  BY <1>4 DEF Writes, x, r
<1>7. q.time[n] = x /\ q.routes[n] = r
  BY <1>4, <1>5, <1>6
<1>8. \A k \in 1..p.hops : k # n => q.time[k] = p.time[k] /\ q.routes[k] = p.routes[k]
  BY <1>4, <1>5, <1>6
<1>9. QED
  BY <1>2, <1>4, <1>7, <1>8 DEF q, n, x, r

\* A station on the way forth adds a leg that is done to those before.
LEMMA ForthIsDone ==
  ASSUME NEW p \in Payload, Shape(p), p.found = 2, p.current # p.hops, p.current > 1,
         Done(p, p.current), NEW s \in Station, s = p.stations[p.current],
         NEW d \in StepsForth(p, s)
  PROVE  d.payload.current > 1 /\ Done(d.payload, d.payload.current)
<1> DEFINE q == d.payload
           c == p.current
           n == c + 1
<1>1. /\ q \in Payload /\ q.found = 2 /\ q.current = n /\ n \in 2..p.hops
      /\ SameRoute(p, q)
      /\ \A k \in 1..p.hops : k # n => q.time[k] = p.time[k] /\ q.routes[k] = p.routes[k]
  BY WrittenPositions
<1>2. PICK i \in SearchResults(Timetables[s], p.time[c], p.stations[n]) :
           /\ q.time[n] = LegTime(Timetables[s], i)
           /\ q.routes[n] = LegRoute(Timetables[s], i)
  BY WrittenPositions
<1>3. c \in Nat /\ p.hops \in Nat /\ c \in 2..p.hops /\ c - 1 \in 1..p.hops - 1
      /\ c - 1 \in 1..c - 1
  <2>1. c \in Nat /\ p.hops \in Nat
    BY DEF Payload
  <2>2. c > 1 /\ c + 1 \in 2..p.hops
    BY <1>1
  <2> HIDE DEF c
  <2>3. QED
    BY <2>1, <2>2
<1> HIDE DEF q, c
<1>4. LegDone(p, c - 1)
  BY <1>3 DEF Done, c
<1>5. p.time[(c - 1) + 1] \in Clock \cup {TooLate}
  BY <1>3, <1>4, DoneTime
<1>6. p.time[c] \in Clock \cup {TooLate}
  BY <1>3, <1>5
<1>7. Timetables[s] \in Seq(Service)
  BY RelayAssumption
<1>8. Found1st(Timetables[s], p.time[c], p.stations[n], i)
  BY <1>2, <1>6, <1>7, SearchLeg
<1>9. From(q, c) = p.time[c] /\ q.stations = p.stations
  BY <1>1, <1>3 DEF From, SameRoute
<1>10. LegDone(q, c)
  <2>1. q.stations[c] = s /\ c # 1
    BY <1>3, <1>9 DEF c
  <2>2. Found1st(Timetables[s], From(q, c), q.stations[c + 1], i)
    BY <1>8, <1>9
  <2>3. QED
    BY <1>2, <1>3, <2>1, <2>2, LegIsDone
<1>11. Done(q, c)
  <2>1. \A k \in 1..c : q.time[k] = p.time[k] /\ q.routes[k] = p.routes[k]
    BY <1>1, <1>3
  <2>2. Done(p, c)
    BY DEF c
  <2>3. QED
    BY <1>1, <1>3, <2>1, <2>2, SameAnnotations
<1>12. Done(q, n)
  <2> SUFFICES ASSUME NEW k \in 1..n - 1 PROVE LegDone(q, k)
    BY DEF Done
  <2>1. k = c \/ k \in 1..c - 1
    BY <1>3
  <2>2. QED
    BY <1>10, <1>11, <2>1 DEF Done
<1>13. QED
  BY <1>1, <1>3, <1>12 DEF q

\* The source looks up the first leg twice, for its departure and then from
\* that departure on: both searches come to the same line.
LEMMA SearchTwice ==
  ASSUME NEW tt \in Seq(Service), NEW t \in Clock, NEW to, NEW i, NEW j,
         Found1st(tt, t, to, i),
         Found1st(tt, IF i = NoEntry THEN TooLate ELSE tt[i].departure_time, to, j)
  PROVE  i = j
<1>1. CASE i = NoEntry
  <2>1. \A k \in Searched(tt) : ~ Catches(tt[k], TooLate, to)
    BY LineTypes, TooLateIsTooLate
  <2>2. QED
    BY <1>1, <2>1 DEF Found1st
<1>2. CASE i # NoEntry
  <2> DEFINE t1 == tt[i].departure_time
  <2>1. /\ i \in Searched(tt) /\ Catches(tt[i], t, to)
        /\ \A k \in Searched(tt) : Catches(tt[k], t, to) => i <= k
    BY <1>2 DEF Found1st
  <2>2. t1 \in Clock /\ tt[i] \in Lines(tt)
    BY <2>1, LineTypes DEF Lines
  <2>3. Catches(tt[i], t1, to)
    <3>1. timeToMinutes(t1) <= timeToMinutes(t1)
      BY <2>2, ClockReflexive, Zenon
    <3>2. QED
      BY <2>1, <3>1, Zenon DEF Catches
  <2>4. Found1st(tt, t1, to, j)
    BY <1>2, Zenon
  <2>5. /\ j \in Searched(tt) /\ Catches(tt[j], t1, to) /\ j <= i
    BY <2>1, <2>2, <2>3, <2>4 DEF Found1st
  <2>6. Catches(tt[j], t, to)
    <3>1. tt[j].departure_time \in Clock
      BY <2>5, LineTypes
    <3>2. timeToMinutes(t) <= timeToMinutes(t1)
      BY <2>1, Zenon DEF Catches
    <3>3. timeToMinutes(t1) <= timeToMinutes(tt[j].departure_time)
      BY <2>5, Zenon DEF Catches
    <3>4. timeToMinutes(t) <= timeToMinutes(tt[j].departure_time)
      BY <2>2, <3>1, <3>2, <3>3, t \in Clock \cup {TooLate}, ReadableTransitive, Zenon
    <3>5. QED
      BY <2>5, <3>4, Zenon DEF Catches
  <2>7. i <= j
    BY <2>1, <2>5, <2>6
  <2>8. i \in Int /\ j \in Int
    BY <2>1, <2>5, LineTypes
  <2>9. QED
    BY <2>5, <2>7, <2>8
<1>3. QED
  BY <1>1, <1>2

\* The source opens the way forth with its first leg done.
LEMMA TurnIsDone ==
  ASSUME NEW p \in Payload, Shape(p), p.found = 1, p.current = 1,
         p.start_time # Torn, NEW s \in Station, s = p.stations[1],
         NEW q \in Departures(p, s), NEW d \in StepsForth(q, s)
  PROVE  d.payload.current > 1 /\ Done(d.payload, d.payload.current)
<1> DEFINE r  == d.payload
           tt == Timetables[s]
           D(i) == IF i = NoEntry THEN TooLate ELSE tt[i].departure_time
<1>1. p.hops \in Nat /\ p.hops > 1 /\ p.time \in Seq(Time) /\ Len(p.time) = p.hops
      /\ p.start_time \in Clock
  BY DEF Shape, Payload
<1>2. /\ q \in Payload /\ q.found = 2 /\ q.current = 1
      /\ SameRoute(p, q) /\ q.routes = p.routes /\ Len(q.time) = p.hops
  BY DeparturesFacts
<1>3. PICK i \in SearchResults(tt, p.start_time, p.stations[2]) :
           q.time = [p.time EXCEPT ![1] = D(i)]
  <2>1. p.current + 1 = 2
    OBVIOUS
  <2>2. QED
    BY <2>1, DeparturesFacts
<1>4. q.time[1] = D(i)
  BY <1>1, <1>3
<1>5. Shape(q) /\ q.current # q.hops
  BY <1>1, <1>2 DEF Shape, SameRoute
<1>6. /\ r \in Payload /\ r.current = 2 /\ SameRoute(q, r)
      /\ \A k \in 1..q.hops : k # 2 => r.time[k] = q.time[k] /\ r.routes[k] = q.routes[k]
  BY <1>2, <1>5, WrittenPositions
<1>7. PICK j \in SearchResults(tt, q.time[1], q.stations[2]) :
           r.time[2] = LegTime(tt, j) /\ r.routes[2] = LegRoute(tt, j)
  <2>1. q.current + 1 = 2
    BY <1>2
  <2>2. QED
    BY <1>2, <1>5, <2>1, WrittenPositions
<1>8. tt \in Seq(Service)
  BY RelayAssumption
<1>9. Found1st(tt, p.start_time, p.stations[2], i)
  BY <1>1, <1>8, SearchLeg
<1>10. D(i) \in Clock \cup {TooLate}
  BY <1>8, <1>9, LineTypes DEF Found1st
<1>11. q.stations = p.stations /\ r.stations = p.stations /\ r.start_time = p.start_time
       /\ q.hops = p.hops
  BY <1>2, <1>6 DEF SameRoute
<1>12. Found1st(tt, D(i), p.stations[2], j)
  <2> HIDE DEF D, tt, r
  <2>1. j \in SearchResults(tt, D(i), p.stations[2])
    BY <1>4, <1>7, <1>11, Zenon
  <2>2. QED
    BY <1>8, <1>10, <2>1, SearchLeg, Zenon
<1>13. i = j
  <2> HIDE DEF tt, r
  <2>1. QED
    BY <1>1, <1>8, <1>9, <1>12, SearchTwice, Zenon
<1>14. LegDone(r, 1)
  <2>1. r.stations[1] = s /\ From(r, 1) = p.start_time
    BY <1>11 DEF From
  <2>2. Found1st(tt, From(r, 1), r.stations[1 + 1], j)
    BY <1>9, <1>11, <1>13, <2>1
  <2>3. r.time[1] = q.time[1]
    BY <1>1, <1>6, <1>11
  <2>4. r.time[1] = D(j)
    BY <1>4, <1>13, <2>3
  <2>5. r.time[1 + 1] = LegTime(tt, j) /\ r.routes[1 + 1] = LegRoute(tt, j)
    BY <1>7
  <2> HIDE DEF r
  <2>6. QED
    BY <2>1, <2>2, <2>4, <2>5, LegIsDone
<1> HIDE DEF r
<1>15. Done(r, 2)
  BY <1>14 DEF Done
<1>16. QED
  BY <1>6, <1>15 DEF r

-----------------------------------------------------------------------------
(* AnswerInv is an invariant *)

\* A step back leaves the annotations alone.
LEMMA StepBackAnnotations ==
  ASSUME NEW p \in Payload, Shape(p), p.found = 3, Done(p, p.hops), p.current # 1
  PROVE  Annotated(StepBack(p))
<1> DEFINE q == StepBack(p).payload
<1>1. /\ SameRoute(p, q) /\ q.found = 3
      /\ q.time = p.time /\ q.routes = p.routes
  BY DEF StepBack, ToCurrent, SameRoute, Payload
<1>2. p.hops \in Nat
  BY DEF Payload
<1>3. Good(StepBack(p))
  BY StepBackGood
<1>4. q \in Payload
  BY <1>3 DEF Good, Datagram
<1> HIDE DEF q
<1>5. Done(q, p.hops)
  BY <1>1, <1>2, <1>4, SameAnnotations
<1>6. QED
  BY <1>1, <1>5 DEF Annotated, SameRoute, q

\* A change of phase leaves them alone, too.
LEMMA SetFoundAnnotations ==
  ASSUME NEW p \in Payload, NEW f \in 0..4, Done(p, p.hops)
  PROVE  LET q == [p EXCEPT !.found = f] IN Done(q, q.hops)
<1> DEFINE q == [p EXCEPT !.found = f]
<1>1. /\ q \in Payload /\ SameRoute(p, q) /\ q.routes = p.routes /\ q.time = p.time
  BY SetFoundFacts
<1>2. p.hops \in Nat
  BY DEF Payload
<1> HIDE DEF q
<1>3. Done(q, p.hops)
  BY <1>1, <1>2, SameAnnotations
<1>4. q.hops = p.hops
  BY <1>1 DEF SameRoute
<1>5. QED
  BY <1>3, <1>4 DEF q

\* On a simple path the source is at the first position only, and the
\* destination at the last.
LEMMA EndsAreEnds ==
  ASSUME NEW m, Good(m), Simple(m.payload), m.payload.found > 0
  PROVE  /\ Host[m.to] = m.payload.source => m.payload.current = 1
         /\ Host[m.to] = m.payload.destination => m.payload.current = m.payload.hops
<1> DEFINE p == m.payload
<1>1. /\ p \in Payload /\ Shape(p) /\ p.hops \in Nat
      /\ p.current \in 1..p.hops /\ p.stations[p.current] = Host[m.to]
  BY AtCursor
<1>2. /\ p.hops > 1 /\ p.stations[1] = p.source /\ p.stations[p.hops] = p.destination
  BY <1>1 DEF Shape
<1>3. 1 \in 1..p.hops /\ p.hops \in 1..p.hops
  BY <1>1, <1>2
<1>4. QED
  BY <1>1, <1>2, <1>3 DEF Simple

\* Every path through the UDP handler keeps the annotations right.
LEMMA HandleAnswerInv ==
  ASSUME RouteInv, PathInv, AnswerInv, NEW s \in Station, NEW m \in net, Handle(s, m)
  PROVE  AnswerInv'
<1> DEFINE p == m.payload
<1>1. Good(m) /\ p \in Payload /\ Shape(p) /\ Simple(p) /\ Annotated(m)
  BY DEF RouteInv, PathInv, AnswerInv, Good, Datagram, Annotated
<1>2. ASSUME NEW sent, \A d \in sent : Annotated(d), Replace(m, sent), answered' = answered
      PROVE  AnswerInv'
  BY <1>2 DEF AnswerInv, Replace, Annotated
<1>3. ASSUME NEW d, Annotated(d), Replace(m, {d}), answered' = answered
      PROVE  AnswerInv'
  BY <1>2, <1>3
<1>4. ASSUME p.start_time = Torn PROVE AnswerInv'
  <2>1. ~ Tear(s, m) /\ answered' = answered
    BY <1>4 DEF Handle, Tear, Flood, Found, Backtrace, TurnAround, Annotate,
                Complete, Return, Finish, FinishTorn, Misread, Overrun
  <2>2. PICK sent : Replace(m, sent) /\ \A d \in sent : d.payload.start_time = Torn
    BY <1>1, <1>4, <2>1, StartTimeKept
  <2>3. \A d \in sent : Annotated(d)
    BY <2>2 DEF Annotated
  <2>4. QED
    BY <1>2, <2>1, <2>2, <2>3
<1> SUFFICES ASSUME p.start_time # Torn PROVE AnswerInv'
  BY <1>4
<1>5. CASE Flood(s, m)
  <2> DEFINE q == AddHop(p, s, Unknown, Dots)
             sent == {[to |-> a, payload |-> q] : a \in Unvisited(s, p)}
  <2>1. s = Host[m.to] /\ p.found = 0 /\ Replace(m, sent) /\ answered' = answered
    BY <1>5 DEF Flood, Reads, Receives
  <2>2. q.found = 0
    BY <1>1, <2>1 DEF AddHop, Payload
  <2> HIDE DEF q
  <2>3. \A d \in sent : Annotated(d)
    BY <2>2 DEF Annotated
  <2> HIDE DEF sent
  <2>4. QED
    BY <1>2, <2>1, <2>3
<1>6. CASE Found(s, m)
  <2> DEFINE e == Timetables[s][1]
             q == AddHop(p, s, e.route_name, e.arrival_time)
             z == [q EXCEPT !.found = 1]
             d == StepBack(z)
  <2>1. s = Host[m.to] /\ Replace(m, {d}) /\ answered' = answered
    BY <1>6 DEF Found, Reads, Receives
  <2>2. e.route_name \in RouteName /\ e.arrival_time \in Time
    <3>1. e \in Service
      BY RelayAssumption
    <3>2. QED
      BY <3>1 DEF Service, RouteName, Time
  <2> HIDE DEF e
  <2>3. q \in Payload
    BY <1>1, <2>2, AddHopFacts
  <2> HIDE DEF q
  <2>4. z \in Payload /\ z.found = 1
    <3>1. 1 \in 0..4
      OBVIOUS
    <3>2. QED
      BY <2>3, <3>1, SetFoundFacts, Zenon
  <2> HIDE DEF z
  <2>5. d.payload.found = 1
    BY <2>4, StepBackRoute
  <2> HIDE DEF d
  <2>6. QED
    BY <1>3, <2>1, <2>5 DEF Annotated
<1>7. CASE Backtrace(s, m)
  <2>1. p.found = 1 /\ Replace(m, {StepBack(p)}) /\ answered' = answered
    BY <1>7 DEF Backtrace
  <2>2. StepBack(p).payload.found = 1
    BY <1>1, <2>1, StepBackRoute
  <2>3. QED
    BY <1>3, <2>1, <2>2 DEF Annotated
<1>8. CASE Return(s, m)
  <2>1. /\ s = Host[m.to] /\ p.found = 3 /\ p.source # s
        /\ Replace(m, {StepBack(p)}) /\ answered' = answered
    BY <1>8 DEF Return, Reads, Receives
  <2>2. p.current # 1
    <3>1. p.found > 0
      BY <2>1
    <3>2. QED
      BY <1>1, <2>1, <3>1, AtCursor
  <2>3. Annotated(StepBack(p))
    BY <1>1, <2>1, <2>2, StepBackAnnotations DEF Annotated
  <2>4. QED
    BY <1>3, <2>1, <2>3
<1>9. CASE TurnAround(s, m)
  <2>1. s = Host[m.to] /\ p.found = 1 /\ p.source = s /\ answered' = answered
    BY <1>9 DEF TurnAround, Reads, Receives
  <2>2. PICK q \in Departures(p, s) : \E d \in StepsForth(q, s) : Replace(m, {d})
    BY <1>9 DEF TurnAround
  <2>3. PICK d \in StepsForth(q, s) : Replace(m, {d})
    BY <2>2
  <2>4. p.current = 1 /\ p.stations[1] = s
    <3>1. p.found > 0
      BY <2>1
    <3>2. p.current = 1
      BY <1>1, <2>1, <3>1, EndsAreEnds
    <3>3. QED
      BY <1>1, <2>1, <3>1, <3>2, AtCursor
  <2>5. d.payload.current > 1 /\ Done(d.payload, d.payload.current)
    BY <1>1, <2>1, <2>4, TurnIsDone
  <2>6. d.payload.found = 2
    <3>1. q \in Payload /\ q.found = 2
      BY <1>1, <2>1, DeparturesFacts
    <3>2. QED
      BY <3>1, StepsForthRoute
  <2>7. Annotated(d)
    BY <2>5, <2>6 DEF Annotated
  <2>8. QED
    BY <1>3, <2>1, <2>3, <2>7
<1>10. CASE Annotate(s, m)
  <2>1. s = Host[m.to] /\ p.found = 2 /\ p.destination # s /\ answered' = answered
    BY <1>10 DEF Annotate, Reads, Receives
  <2>2. PICK d \in StepsForth(p, s) : Replace(m, {d})
    BY <1>10 DEF Annotate
  <2>3. p.current # p.hops /\ p.stations[p.current] = s
    <3>1. p.found > 0
      BY <2>1
    <3>2. QED
      BY <1>1, <2>1, <3>1, AtCursor
  <2>4. d.payload.current > 1 /\ Done(d.payload, d.payload.current)
    BY <1>1, <2>1, <2>3, ForthIsDone DEF Annotated
  <2>5. d.payload.found = 2
    BY <1>1, <2>1, StepsForthRoute
  <2>6. Annotated(d)
    BY <2>4, <2>5 DEF Annotated
  <2>7. QED
    BY <1>3, <2>1, <2>2, <2>6
<1>11. CASE Complete(s, m)
  <2> DEFINE q == [p EXCEPT !.found = 3]
  <2>1. /\ s = Host[m.to] /\ p.found = 2 /\ p.destination = s
        /\ Replace(m, {StepBack(q)}) /\ answered' = answered
    BY <1>11 DEF Complete, Reads, Receives
  <2>2. p.found > 0 /\ 3 \in 0..4
    BY <2>1
  <2>3. p.current # 1 /\ p.current = p.hops
    BY <1>1, <2>1, <2>2, AtCursor, EndsAreEnds
  <2>4. Done(p, p.hops)
    BY <1>1, <2>1, <2>3 DEF Annotated
  <2>5. Done(q, q.hops)
    BY <1>1, <2>2, <2>4, SetFoundAnnotations, Zenon
  <2>6. q \in Payload /\ q.found = 3 /\ q.current = p.current
    BY <1>1, <2>2, SetFoundFacts, Zenon
  <2>7. Shape(q)
    BY <1>1, <2>2, SetFoundShape, Zenon
  <2> HIDE DEF q
  <2>8. Annotated(StepBack(q))
    BY <2>3, <2>5, <2>6, <2>7, StepBackAnnotations
  <2>9. QED
    BY <1>3, <2>1, <2>8
<1>12. CASE Finish(s, m)
  <2> DEFINE q == [p EXCEPT !.found = 4]
  <2>1. /\ p.found = 3 /\ Replace(m, {})
        /\ answered' = answered \cup {x \in {q} : QueryOf(q) \in waiting}
    BY <1>12 DEF Finish
  <2>2. Done(p, p.hops) /\ p.hops > 1 /\ 4 \in 0..4
    BY <1>1, <2>1 DEF Annotated, Shape
  <2>3. Done(q, q.hops)
    BY <1>1, <2>2, SetFoundAnnotations, Zenon
  <2>4. q.hops = p.hops
    BY <1>1 DEF Payload
  <2> HIDE DEF q
  <2>5. q.hops > 1
    BY <2>2, <2>4
  <2>6. \A x \in net' : x \in net
    BY <2>1 DEF Replace
  <2>7. QED
    BY <2>1, <2>3, <2>5, <2>6 DEF AnswerInv
<1>13. CASE Overrun(s, m) \/ FinishTorn(s, m) \/ Misread(s, m)
  <2>1. Replace(m, {}) /\ answered' = answered
    BY <1>13 DEF Overrun, FinishTorn, Misread
  <2>2. QED
    BY <1>2, <2>1
<1>14. CASE Tear(s, m)
  <2> DEFINE d == [m EXCEPT !.payload.start_time = Torn]
  <2>1. Replace(m, {d}) /\ answered' = answered
    BY <1>14 DEF Tear
  <2>2. d.payload.start_time = Torn
    BY <1>1, TearFacts
  <2> HIDE DEF d
  <2>3. QED
    BY <1>3, <2>1, <2>2 DEF Annotated
<1>15. QED
  BY <1>5, <1>6, <1>7, <1>8, <1>9, <1>10, <1>11, <1>12, <1>13, <1>14 DEF Handle

\* So do the clients, the timeouts and the network.
LEMMA OthersAnswerInv ==
  ASSUME AnswerInv,
         \/ \E q \in Query : Request(q)
         \/ \E s \in Station : Timeout(s)
         \/ \E m \in net : Lose(m)
         \/ UNCHANGED vars
  PROVE  AnswerInv'
<1>1. ASSUME NEW q \in Query, Request(q) PROVE AnswerInv'
  BY <1>1 DEF AnswerInv, Request
<1>2. ASSUME NEW s \in Station, Timeout(s) PROVE AnswerInv'
  <2>1. \A q : FirstPayload(q).found = 0
    BY DEF FirstPayload
  <2>2. \A q : Annotated([to |-> OwnAddr[s], payload |-> FirstPayload(q)])
    BY <2>1 DEF Annotated
  <2>3. QED
    BY <1>2, <2>2 DEF Timeout, AnswerInv
<1>3. ASSUME NEW m \in net, Lose(m) PROVE AnswerInv'
  BY <1>3 DEF AnswerInv, Lose
<1>4. CASE UNCHANGED vars
  BY <1>4 DEF AnswerInv, vars
<1>5. QED
  BY <1>1, <1>2, <1>3, <1>4

(***************************************************************************)
(* In every reachable state, the legs that a payload has been annotated    *)
(* for are annotated with the first service that can be caught, or with    *)
(* the fact that there is none.                                            *)
(***************************************************************************)
THEOREM AnswerInvariant ==
  ASSUME Canonical
  PROVE  Spec => []AnswerInv
<1>1. Init => AnswerInv
  BY DEF Init, AnswerInv
<1>2. RouteInv /\ PathInv /\ AnswerInv /\ [Next]_vars => AnswerInv'
  <2> SUFFICES ASSUME RouteInv, PathInv, AnswerInv, [Next]_vars
               PROVE  AnswerInv'
    OBVIOUS
  <2>1. \/ \E s \in Station, m \in net : Handle(s, m)
        \/ \E q \in Query : Request(q)
        \/ \E s \in Station : Timeout(s)
        \/ \E m \in net : Lose(m)
        \/ UNCHANGED vars
    BY DEF Next
  <2>2. QED
    BY <2>1, HandleAnswerInv, OthersAnswerInv
<1>3. QED
  BY <1>1, <1>2, PathInvariant, PTL DEF Spec

-----------------------------------------------------------------------------
(* From legs to journeys *)

\* A service taken later on is caught at a time at which there still are any.
LEMMA TakenFacts ==
  ASSUME NEW p \in Payload, Shape(p), NEW i \in 1..p.hops - 1, Taken(p, i), i # 1
  PROVE  p.time[i] # TooLate
<1>1. p.stations[i] \in Station
  BY DEF Shape, Payload
<1> DEFINE tt == Timetables[p.stations[i]]
<1>2. tt \in Seq(Service) /\ Searchable[p.stations[i]] = Lines(tt)
  BY <1>1, SearchableLines
<1>3. PICK j \in Searched(tt) : Takes(p, i, tt[j])
  BY <1>2 DEF Taken, Lines
<1>4. tt[j].departure_time \in Clock
  BY <1>2, LineTypes
<1>5. QED
  BY <1>3, <1>4, TooLateIsTooLate DEF Takes, From

\* Once a leg is missing, so are all the later ones.
LEMMA MissingStays ==
  ASSUME NEW p \in Payload, Shape(p), Done(p, p.hops),
         NEW k \in 1..p.hops - 1, Missing(p, k)
  PROVE  \A i \in k..p.hops - 1 : Missing(p, i)
<1> DEFINE Out == {i \in k..p.hops - 1 : ~ Missing(p, i)}
<1>1. p.hops \in Nat /\ k \in Nat
  BY DEF Payload
<1> SUFFICES ASSUME Out # {} PROVE FALSE
  OBVIOUS
<1>2. PICK i \in Out : \A j \in Out : i <= j
  <2>1. Out \in SUBSET Nat
    BY <1>1
  <2> HIDE DEF Out
  <2> QED BY <2>1, LeastNatural
<1>3. i # k /\ i \in 1..p.hops - 1 /\ i - 1 \in k..p.hops - 1 /\ i # 1
  BY <1>1
<1>4. Missing(p, i - 1)
  BY <1>1, <1>2, <1>3
<1>5. p.time[i] = TooLate
  <2>1. (i - 1) + 1 = i
    BY <1>1, <1>3
  <2>2. QED
    BY <1>4, <2>1 DEF Missing
<1>6. Taken(p, i)
  BY <1>3 DEF Done, LegDone
<1>7. QED
  BY <1>3, <1>5, <1>6, TakenFacts

\* As far as every leg is taken, the annotations are those of an itinerary.
LEMMA TakenIsJourney ==
  ASSUME NEW p \in Payload, Shape(p), NEW n \in 1..p.hops,
         \A i \in 1..n - 1 : Taken(p, i)
  PROVE  \E it \in Itineraries(p, n, Searchable) : Shows(p, n, it)
<1> DEFINE E(i) == CHOOSE e \in Searchable[p.stations[i]] : Takes(p, i, e)
           it   == [i \in 1..n - 1 |-> E(i)]
           All  == UNION {Searchable[s] : s \in Station}
<1>1. \A i \in 1..n - 1 : E(i) \in Searchable[p.stations[i]] /\ Takes(p, i, E(i))
  BY DEF Taken
<1>2. p.hops \in Nat /\ n \in Nat /\ \A i \in 1..n - 1 : p.stations[i] \in Station
  BY DEF Payload, Shape
<1> HIDE DEF E
<1>3. it \in [1..n - 1 -> All]
  BY <1>1, <1>2
<1>4. \A i \in 1..n - 1 : it[i] \in Searchable[p.stations[i]] /\ Takes(p, i, it[i])
  BY <1>1
<1> HIDE DEF it, All
<1>5. ASSUME NEW i \in 1..n - 1
      PROVE  Catches(it[i], IF i = 1 THEN p.start_time ELSE it[i - 1].arrival_time,
                     p.stations[i + 1])
  <2>1. Catches(it[i], From(p, i), p.stations[i + 1])
    BY <1>4 DEF Takes
  <2>2. i # 1 => p.time[i] = it[i - 1].arrival_time
    <3> SUFFICES ASSUME i # 1 PROVE p.time[i] = it[i - 1].arrival_time
      OBVIOUS
    <3>1. i - 1 \in 1..n - 1 /\ (i - 1) + 1 = i
      BY <1>2
    <3>2. QED
      BY <1>4, <3>1 DEF Takes
  <2>3. From(p, i) = IF i = 1 THEN p.start_time ELSE it[i - 1].arrival_time
    BY <2>2 DEF From
  <2>4. QED
    BY <2>1, <2>3
<1>6. it \in Itineraries(p, n, Searchable)
  BY <1>3, <1>4, <1>5 DEF Itineraries, All
<1>7. n > 1 => p.time[1] = it[1].departure_time
  <2>1. n > 1 => 1 \in 1..n - 1
    BY <1>2
  <2>2. QED
    BY <1>4, <2>1 DEF Takes
<1>8. Shows(p, n, it)
  BY <1>4, <1>7 DEF Shows, Takes
<1>9. QED
  BY <1>6, <1>8

\* Where the legs up to station n are taken and the next one is missing, the
\* itinerary shown ends there.
LEMMA MissingIsStuck ==
  ASSUME NEW p \in Payload, Shape(p), Done(p, p.hops),
         NEW n \in 1..p.hops - 1, Missing(p, n), NEW it, Shows(p, n, it)
  PROVE  Stuck(p, n, it)
<1>1. p.hops \in Nat
  BY DEF Payload
<1>2. From(p, n) = IF n = 1 THEN p.start_time ELSE it[n - 1].arrival_time
  <2>1. CASE n = 1
    BY <2>1 DEF From
  <2>2. CASE n # 1
    <3>1. n - 1 \in 1..n - 1 /\ (n - 1) + 1 = n
      BY <1>1, <2>2
    <3>2. p.time[n] = it[n - 1].arrival_time
      BY <3>1 DEF Shows
    <3>3. QED
      BY <2>2, <3>2 DEF From
  <2>3. QED
    BY <2>1, <2>2
<1>3. \A e \in Searchable[p.stations[n]] :
        ~ Catches(e, IF n = 1 THEN p.start_time ELSE it[n - 1].arrival_time,
                  p.stations[n + 1])
  BY <1>2, Zenon DEF Missing
<1>4. n = 1 => p.time[1] = TooLate
  BY DEF Missing
<1>5. \A i \in n..p.hops - 1 : Missing(p, i)
  BY MissingStays
<1>6. ASSUME NEW i \in n + 1..p.hops
      PROVE  p.time[i] = TooLate /\ p.routes[i] = NOTFOUND
  <2>1. i - 1 \in n..p.hops - 1 /\ (i - 1) + 1 = i
    BY <1>1
  <2>2. QED
    BY <1>5, <2>1 DEF Missing
<1>7. QED
  BY <1>3, <1>4, <1>6 DEF Stuck

(***************************************************************************)
(* An answer whose legs are done is a journey to the destination, or one   *)
(* to the first station without a service on, of which it says so.         *)
(***************************************************************************)
LEMMA DoneIsJourney ==
  ASSUME NEW p \in Payload, Shape(p), p.hops > 1, Done(p, p.hops)
  PROVE  \E n \in 1..p.hops : \E it \in Itineraries(p, n, Searchable) :
           Shows(p, n, it) /\ (n < p.hops => Stuck(p, n, it))
<1>1. p.hops \in Nat /\ p.hops \in 1..p.hops
  BY DEF Payload
<1>2. CASE \A i \in 1..p.hops - 1 : Taken(p, i)
  <2>1. PICK it \in Itineraries(p, p.hops, Searchable) : Shows(p, p.hops, it)
    BY <1>1, <1>2, TakenIsJourney
  <2>2. ~ (p.hops < p.hops)
    BY <1>1
  <2>3. QED
    BY <1>1, <2>1, <2>2
<1>3. CASE ~ \A i \in 1..p.hops - 1 : Taken(p, i)
  <2> DEFINE Out == {i \in 1..p.hops - 1 : ~ Taken(p, i)}
  <2>1. PICK k \in Out : \A j \in Out : k <= j
    <3>1. Out \in SUBSET Nat /\ Out # {}
      BY <1>3
    <3> HIDE DEF Out
    <3> QED BY <3>1, LeastNatural
  <2>2. k \in 1..p.hops - 1 /\ k \in 1..p.hops /\ Missing(p, k)
    BY <1>1 DEF Done, LegDone
  <2>3. \A i \in 1..k - 1 : Taken(p, i)
    BY <1>1, <2>1, <2>2
  <2>4. PICK it \in Itineraries(p, k, Searchable) : Shows(p, k, it)
    BY <2>2, <2>3, TakenIsJourney
  <2>5. Stuck(p, k, it)
    BY <2>2, <2>4, MissingIsStuck
  <2>6. QED
    BY <2>2, <2>4, <2>5
<1>4. QED
  BY <1>2, <1>3

(***************************************************************************)
(* Every answer is a journey one can make to the destination, or to a      *)
(* station from which none of the services searched goes on in time, and   *)
(* then it says so from that leg on: whatever the timetables are, and      *)
(* however datagrams are lost, duplicated, delayed or torn.                *)
(***************************************************************************)
THEOREM JourneysCanBeMade ==
  ASSUME Canonical
  PROVE  Spec => []AnswersAreJourneys
<1>1. RouteInv /\ AnswerInv => AnswersAreJourneys
  <2> SUFFICES ASSUME RouteInv, AnswerInv, NEW p \in answered
               PROVE  \E n \in 1..p.hops : \E it \in Itineraries(p, n, Searchable) :
                        Shows(p, n, it) /\ (n < p.hops => Stuck(p, n, it))
    BY DEF AnswersAreJourneys
  <2>1. p \in Payload /\ Shape(p) /\ p.hops > 1 /\ Done(p, p.hops)
    BY DEF RouteInv, AnswerInv
  <2>2. QED
    BY <2>1, DoneIsJourney
<1>2. QED
  BY <1>1, RouteInvariant, AnswerInvariant, PTL

-----------------------------------------------------------------------------
(* Earliest arrivals *)

\* The services of an itinerary depart and arrive at times of day.
LEMMA ItineraryTypes ==
  ASSUME NEW p \in Payload, Shape(p), NEW it \in Itineraries(p, p.hops, Searchable),
         NEW i \in 1..p.hops - 1
  PROVE  /\ it[i] \in Searchable[p.stations[i]]
         /\ it[i].departure_time \in Clock /\ it[i].arrival_time \in Clock
         /\ Catches(it[i], IF i = 1 THEN p.start_time ELSE it[i - 1].arrival_time,
                    p.stations[i + 1])
<1>1. p.stations[i] \in Station
  BY DEF Shape, Payload
<1> DEFINE tt == Timetables[p.stations[i]]
<1>2. tt \in Seq(Service) /\ Searchable[p.stations[i]] = Lines(tt)
  BY <1>1, SearchableLines
<1>3. /\ it[i] \in Searchable[p.stations[i]]
      /\ Catches(it[i], IF i = 1 THEN p.start_time ELSE it[i - 1].arrival_time,
                 p.stations[i + 1])
  BY DEF Itineraries
<1>4. PICK j \in Searched(tt) : it[i] = tt[j]
  BY <1>2, <1>3 DEF Lines
<1>5. it[i].departure_time \in Clock /\ it[i].arrival_time \in Clock
  BY <1>2, <1>4, LineTypes
<1>6. QED
  BY <1>3, <1>5

(***************************************************************************)
(* An exchange argument, leg by leg: who is at a station no later than the *)
(* itinerary can catch the service that the itinerary takes, and the one   *)
(* taken in its place arrives no later.                                    *)
(***************************************************************************)
LEMMA NeverBehind ==
  ASSUME NEW p \in Payload, Shape(p), Done(p, p.hops), Ordered,
         NEW it \in Itineraries(p, p.hops, Searchable)
  PROVE  \A i \in 1..p.hops - 1 :
           timeToMinutes(p.time[i + 1]) <= timeToMinutes(it[i].arrival_time)
<1> DEFINE Ahead(i) == timeToMinutes(p.time[i + 1]) <= timeToMinutes(it[i].arrival_time)
           Out      == {i \in 1..p.hops - 1 : ~ Ahead(i)}
<1>1. p.hops \in Nat
  BY DEF Payload
<1>2. ASSUME NEW i \in 1..p.hops - 1,
             i # 1 => timeToMinutes(p.time[i]) <= timeToMinutes(it[i - 1].arrival_time)
      PROVE  Ahead(i)
  <2>1. /\ it[i] \in Searchable[p.stations[i]]
        /\ it[i].departure_time \in Clock /\ it[i].arrival_time \in Clock
        /\ Catches(it[i], IF i = 1 THEN p.start_time ELSE it[i - 1].arrival_time,
                   p.stations[i + 1])
    BY ItineraryTypes
  <2>2. Foremost(p, i)
    BY DEF Done, LegDone
  <2>3. Catches(it[i], From(p, i), p.stations[i + 1])
    <3>1. CASE i = 1
      BY <2>1, <3>1 DEF From
    <3>2. CASE i # 1
      <4>1. i - 1 \in 1..p.hops - 1 /\ (i - 1) + 1 = i
        BY <1>1, <3>2
      <4>2. it[i - 1].arrival_time \in Clock
        BY <4>1, ItineraryTypes
      <4>3. p.time[i] \in Clock \cup {TooLate}
        <5>1. LegDone(p, i - 1)
          BY <4>1 DEF Done
        <5>2. p.time[(i - 1) + 1] \in Clock \cup {TooLate}
          BY <4>1, <5>1, DoneTime
        <5>3. QED
          BY <4>1, <5>2
      <4>4. Catches(it[i], it[i - 1].arrival_time, p.stations[i + 1])
        BY <2>1, <3>2, Zenon
      <4>5. timeToMinutes(it[i - 1].arrival_time) <= timeToMinutes(it[i].departure_time)
        BY <4>4, Zenon DEF Catches
      <4>6. timeToMinutes(p.time[i]) <= timeToMinutes(it[i - 1].arrival_time)
        BY <1>2, <3>2, Zenon
      <4>7. timeToMinutes(p.time[i]) <= timeToMinutes(it[i].departure_time)
        BY <2>1, <4>2, <4>3, <4>5, <4>6, ReadableTransitive, Zenon
      <4>8. From(p, i) = p.time[i]
        BY <3>2 DEF From
      <4>9. QED
        BY <4>4, <4>7, <4>8, Zenon DEF Catches
    <3>3. QED
      BY <3>1, <3>2
  <2>4. QED
    BY <2>1, <2>2, <2>3, Zenon DEF Foremost
<1> HIDE DEF Ahead
<1> SUFFICES ASSUME Out # {} PROVE FALSE
  BY DEF Ahead
<1>3. PICK i \in Out : \A j \in Out : i <= j
  <2>1. Out \in SUBSET Nat
    BY <1>1
  <2> HIDE DEF Out
  <2> QED BY <2>1, LeastNatural
<1>4. i \in 1..p.hops - 1 /\ ~ Ahead(i)
  OBVIOUS
<1>5. CASE i = 1
  BY <1>2, <1>4, <1>5
<1>6. CASE i # 1
  <2>1. i - 1 \in 1..p.hops - 1 /\ i - 1 < i /\ (i - 1) + 1 = i
    BY <1>1, <1>4, <1>6
  <2>2. Ahead(i - 1)
    BY <1>1, <1>3, <1>4, <2>1
  <2>3. timeToMinutes(p.time[i]) <= timeToMinutes(it[i - 1].arrival_time)
    BY <2>1, <2>2 DEF Ahead
  <2>4. QED
    BY <1>2, <1>4, <2>3, Zenon
<1>7. QED
  BY <1>5, <1>6

(***************************************************************************)
(* Where the timetables are in order, as the generator writes them, taking *)
(* the first service of every leg cannot be beaten along the same route.   *)
(***************************************************************************)
THEOREM AnswersCannotBeBeaten ==
  ASSUME Canonical, Ordered
  PROVE  Spec => []AnswersAreEarliest
<1>1. RouteInv /\ AnswerInv => AnswersAreEarliest
  <2> SUFFICES ASSUME RouteInv, AnswerInv, NEW p \in answered,
                      NEW it \in Itineraries(p, p.hops, Searchable)
               PROVE  timeToMinutes(p.time[p.hops])
                        <= timeToMinutes(it[p.hops - 1].arrival_time)
    BY DEF AnswersAreEarliest, NoneBeats
  <2>1. p \in Payload /\ Shape(p) /\ p.hops > 1 /\ Done(p, p.hops) /\ p.hops \in Nat
    BY DEF RouteInv, AnswerInv, Payload
  <2>2. p.hops - 1 \in 1..p.hops - 1 /\ (p.hops - 1) + 1 = p.hops
    BY <2>1
  <2>3. \A i \in 1..p.hops - 1 :
          timeToMinutes(p.time[i + 1]) <= timeToMinutes(it[i].arrival_time)
    BY <2>1, NeverBehind, Zenon
  <2>4. timeToMinutes(p.time[(p.hops - 1) + 1])
          <= timeToMinutes(it[p.hops - 1].arrival_time)
    BY <2>2, <2>3, Zenon
  <2>5. QED
    BY <2>2, <2>4
<1>2. QED
  BY <1>1, RouteInvariant, AnswerInvariant, PTL
=============================================================================
