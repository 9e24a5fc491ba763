------------------------------- MODULE Relay --------------------------------
(***************************************************************************)
(* The station-to-station protocol: what the stations of main.c do with    *)
(* the UDP datagrams that answer a client's query.  A payload goes         *)
(* through five phases, kept in its field found:                           *)
(*                                                                         *)
(*   0  it floods from the source, every station adding itself to the      *)
(*      route it carries, until a copy reaches the destination;            *)
(*   1  it travels back along its route to the source;                     *)
(*   2  it travels forth again, every station writing the service that     *)
(*      leaves for the next station of the route;                          *)
(*   3  it travels back once more, complete;                               *)
(*   4  it is at the source, which sends it to the waiting clients.        *)
(*                                                                         *)
(* The stations keep no state about a payload.  What they know of the      *)
(* clients is reduced here to the set of queries that have a client        *)
(* waiting; module Clients has the tables behind that set.                 *)
(***************************************************************************)
EXTENDS Timetable, FiniteSets

CONSTANTS
  Name,          \* what a client may ask for; the stations, perhaps more
  Addr,          \* "ip:port" strings
  OwnAddr,       \* the string a station writes into payloads for itself
  Host,          \* the station that a datagram sent to a string arrives at
  Neighbours,    \* the strings on a station's command line
  Timetables,    \* the timetable each station has read
  Query,         \* the queries clients make
  MaxHops,       \* longest route whose payload fits the receive buffer
  Overlap,       \* bound: datagrams in flight while a new flood may start
  MayDelay,      \* datagrams may be under way for longer than select waits
  MayLose,       \* datagrams may be lost
  MayDuplicate,  \* datagrams may be delivered more than once
  MayMisread     \* a read in front of the timetable may end the process

(***************************************************************************)
(* A query names its source by being sent to it.  The forms that           *)
(* makewebpage.sh writes never offer a station as its own destination.     *)
(***************************************************************************)
QueryType == [source : Station, destination : Name, start_time : Clock]

ASSUME RelayAssumption ==
  /\ Station \subseteq Name
  /\ OwnAddr \in [Station -> Addr]
  /\ Host \in [Addr -> Station]
  /\ \A s \in Station : Host[OwnAddr[s]] = s
  /\ Neighbours \in [Station -> SUBSET Addr]
  /\ Timetables \in [Station -> Seq(Service)]
  /\ \A s \in Station : Len(Timetables[s]) >= 1
  /\ Query \subseteq QueryType
  /\ \A q \in Query : q.source # q.destination
  /\ MaxHops \in Nat /\ Overlap \in Nat
  /\ {MayDelay, MayLose, MayDuplicate, MayMisread} \subseteq BOOLEAN

VARIABLES
  net,        \* datagrams in flight, in no order
  waiting,    \* queries with at least one client waiting at their source
  answered,   \* payloads sent to clients, until they are asked for again
  down        \* stations whose process has died

vars == <<net, waiting, answered, down>>

Payload == [found : 0..4, hops : Nat, current : Nat,
            stations : Seq(Station), address : Seq(Addr),
            routes : Seq(Route \cup {Unknown, NOTFOUND}), time : Seq(Time),
            destination : Name, source : Station,
            start_time : Clock \cup {Torn}]

Datagram == [to : Addr, payload : Payload]

\* The query that p is about.
QueryOf(p) == [source |-> p.source, destination |-> p.destination,
               start_time |-> p.start_time]

-----------------------------------------------------------------------------
(* What a station does to a payload *)

\* Mutant: a request without a time is flooded with the time "...".
FirstPayloadUntimed(q) ==
  [found |-> 0, hops |-> 0, current |-> 0,
   stations |-> <<>>, address |-> <<>>, routes |-> <<>>, time |-> <<>>,
   destination |-> q.destination, source |-> q.source, start_time |-> Dots]

\* The string "0 0 0 destination source time;" as load_payload reads it.
FirstPayload(q) ==
  [found |-> 0, hops |-> 0, current |-> 0,
   stations |-> <<>>, address |-> <<>>, routes |-> <<>>, time |-> <<>>,
   destination |-> q.destination, source |-> q.source,
   start_time |-> q.start_time]

\* Station s adds itself to the route, with r and t as placeholders.
AddHop(p, s, r, t) ==
  [p EXCEPT !.address = Append(@, OwnAddr[s]), !.stations = Append(@, s),
            !.routes = Append(@, r), !.time = Append(@, t),
            !.hops = @ + 1, !.current = p.hops + 1]

\* get_ip_port and talk_to: p goes to the station its cursor points at.
ToCurrent(p) == [to |-> p.address[p.current], payload |-> p]

\* Mutant: current - 1 is passed to get_ip_port, but current stays.
StepBackUnmoved(p) == [to |-> p.address[p.current - 1], payload |-> p]

\* One station back along the route.
StepBack(p) == ToCurrent([p EXCEPT !.current = @ - 1])

\* Mutant: the loop over the stations already visited ends one too early.
UnvisitedButLast(s, p) ==
  {a \in Neighbours[s] : \A k \in 1..p.hops - 1 : a # p.address[k]}

\* Neighbours that the payload, as it was received, has not been at.
Unvisited(s, p) == {a \in Neighbours[s] : \A k \in 1..p.hops : a # p.address[k]}

\* What a leg is annotated with: line i, or 99:99 and NOTFOUND without one.
LegTime(tt, i)  == IF i = NoEntry THEN TooLate ELSE tt[i].arrival_time
LegRoute(tt, i) == IF i = NoEntry THEN NOTFOUND ELSE tt[i].route_name

\* One station forth along the route, with line i written for this leg.
WriteLeg(p, tt, i) ==
  LET next == p.current + 1
  IN  ToCurrent([p EXCEPT !.time[next] = LegTime(tt, i),
                          !.routes[next] = LegRoute(tt, i),
                          !.current = next])

\* Mutant: every leg is looked up from the time the journey starts.
StepsForthFromStart(p, s) ==
  {WriteLeg(p, Timetables[s], i) :
     i \in SearchResults(Timetables[s], p.start_time, p.stations[p.current + 1])}

StepsForth(p, s) ==
  {WriteLeg(p, Timetables[s], i) :
     i \in SearchResults(Timetables[s], p.time[p.current],
                         p.stations[p.current + 1])}

\* The source writes when the first service leaves and opens phase 2.
Departures(p, s) ==
  {[p EXCEPT !.found = 2,
             !.time[1] = IF i = NoEntry THEN TooLate
                         ELSE Timetables[s][i].departure_time] :
     i \in SearchResults(Timetables[s], p.start_time,
                         p.stations[p.current + 1])}

-----------------------------------------------------------------------------
(* The UDP handler, one action per path through it *)

Receives(s, m) ==
  /\ m \in net
  /\ s = Host[m.to]
  /\ s \notin down

\* recvfrom hands over the whole datagram only if it fits the buffer.  The
\* shortest one that does not fit does so once its start_time is torn.
Reads(s, m) ==
  /\ Receives(s, m)
  /\ \/ m.payload.hops <= MaxHops
     \/ m.payload.hops = MaxHops + 1 /\ m.payload.start_time = Torn

\* m is taken from the network, unless UDP has another copy of it in store.
Replace(m, sent) ==
  \E copy \in IF MayDuplicate THEN {{}, {m}} ELSE {{}} :
    net' = (net \ {m}) \cup copy \cup sent

Flood(s, m) ==
  /\ Reads(s, m)
  /\ m.payload.found = 0 /\ m.payload.destination # s
  /\ Replace(m, {[to |-> a, payload |-> AddHop(m.payload, s, Unknown, Dots)] :
                   a \in Unvisited(s, m.payload)})
  /\ UNCHANGED <<waiting, answered, down>>

\* Mutant: the destination turns the payload round without adding itself.
FoundUnlisted(s, m) ==
  /\ Reads(s, m)
  /\ m.payload.found = 0 /\ m.payload.destination = s
  /\ Replace(m, {ToCurrent([m.payload EXCEPT !.found = 1])})
  /\ UNCHANGED <<waiting, answered, down>>

\* The destination adds the first line of its timetable, to be overwritten.
Found(s, m) ==
  /\ Reads(s, m)
  /\ m.payload.found = 0 /\ m.payload.destination = s
  /\ LET e == Timetables[s][1]
         p == AddHop(m.payload, s, e.route_name, e.arrival_time)
     IN  Replace(m, {StepBack([p EXCEPT !.found = 1])})
  /\ UNCHANGED <<waiting, answered, down>>

Backtrace(s, m) ==
  /\ Reads(s, m)
  /\ m.payload.found = 1 /\ m.payload.source # s
  /\ Replace(m, {StepBack(m.payload)})
  /\ UNCHANGED <<waiting, answered, down>>

TurnAround(s, m) ==
  /\ Reads(s, m)
  /\ m.payload.found = 1 /\ m.payload.source = s
  /\ \E p \in Departures(m.payload, s) :
       \E d \in StepsForth(p, s) : Replace(m, {d})
  /\ UNCHANGED <<waiting, answered, down>>

Annotate(s, m) ==
  /\ Reads(s, m)
  /\ m.payload.found = 2 /\ m.payload.destination # s
  /\ \E d \in StepsForth(m.payload, s) : Replace(m, {d})
  /\ UNCHANGED <<waiting, answered, down>>

\* Mutant: the complete payload is sent back as if it had just been found.
CompleteRestarts(s, m) ==
  /\ Reads(s, m)
  /\ m.payload.found = 2 /\ m.payload.destination = s
  /\ Replace(m, {StepBack([m.payload EXCEPT !.found = 1])})
  /\ UNCHANGED <<waiting, answered, down>>

Complete(s, m) ==
  /\ Reads(s, m)
  /\ m.payload.found = 2 /\ m.payload.destination = s
  /\ Replace(m, {StepBack([m.payload EXCEPT !.found = 3])})
  /\ UNCHANGED <<waiting, answered, down>>

Return(s, m) ==
  /\ Reads(s, m)
  /\ m.payload.found = 3 /\ m.payload.source # s
  /\ Replace(m, {StepBack(m.payload)})
  /\ UNCHANGED <<waiting, answered, down>>

\* The answer goes to every client that waits for this query, if any does.
Finish(s, m) ==
  /\ Reads(s, m)
  /\ m.payload.found = 3 /\ m.payload.source = s
  /\ m.payload.start_time # Torn
  /\ LET p == [m.payload EXCEPT !.found = 4]
     IN  /\ answered' = answered \cup {x \in {p} : QueryOf(p) \in waiting}
         /\ waiting' = waiting \ {QueryOf(p)}
  /\ Replace(m, {})
  /\ UNCHANGED down

\* Mutant: search_query compares the destinations and not the times.
FinishTornMatched(s, m) ==
  /\ Reads(s, m)
  /\ m.payload.found = 3 /\ m.payload.source = s
  /\ m.payload.start_time = Torn
  /\ LET asked == {q \in waiting : /\ q.source = s
                                  /\ q.destination = m.payload.destination}
     IN  /\ answered' = answered \cup {[m.payload EXCEPT !.found = 4] : q \in asked}
         /\ waiting' = waiting \ asked
  /\ Replace(m, {})
  /\ UNCHANGED down

\* A torn start_time is that of no query: search_query returns NULL, which
\* is read through.
FinishTorn(s, m) ==
  /\ Reads(s, m)
  /\ m.payload.found = 3 /\ m.payload.source = s
  /\ m.payload.start_time = Torn
  /\ down' = down \cup {s}
  /\ Replace(m, {})
  /\ UNCHANGED <<waiting, answered>>

\* Station s is about to write NOTFOUND for the leg that p leaves on.
FindsNone(p, s) ==
  \E d \in StepsForth(p, s) : d.payload.routes[d.payload.current] = NOTFOUND

(***************************************************************************)
(* After a search without a result the code prints Timetable[-1].  What    *)
(* lies in front of the array may be printable, and the leg is written     *)
(* (TurnAround, Annotate); or reading it ends the process.                 *)
(***************************************************************************)
Misread(s, m) ==
  /\ MayMisread
  /\ Reads(s, m)
  /\ \/ /\ m.payload.found = 1 /\ m.payload.source = s
        /\ \E p \in Departures(m.payload, s) : FindsNone(p, s)
     \/ /\ m.payload.found = 2 /\ m.payload.destination # s
        /\ FindsNone(m.payload, s)
  /\ down' = down \cup {s}
  /\ Replace(m, {})
  /\ UNCHANGED <<waiting, answered>>

(***************************************************************************)
(* A payload that is longer than the buffer by a few bytes is cut inside   *)
(* its last word.  strtok takes what is left for start_time, and the       *)
(* payload is handled with that.                                           *)
(***************************************************************************)
Tear(s, m) ==
  /\ Receives(s, m)
  /\ m.payload.hops = MaxHops + 1 /\ m.payload.start_time # Torn
  /\ Replace(m, {[m EXCEPT !.payload.start_time = Torn]})
  /\ UNCHANGED <<waiting, answered, down>>

\* Mutant: the last byte of the buffer is kept free.
OverrunTight(s, m) ==
  /\ Receives(s, m)
  /\ m.payload.hops >= MaxHops
  /\ down' = down \cup {s}
  /\ Replace(m, {})
  /\ UNCHANGED <<waiting, answered>>

\* Cut off before start_time, load_payload copies from a NULL token.
Overrun(s, m) ==
  /\ Receives(s, m)
  /\ m.payload.hops > MaxHops
  /\ down' = down \cup {s}
  /\ Replace(m, {})
  /\ UNCHANGED <<waiting, answered>>

Handle(s, m) ==
  \/ Flood(s, m) \/ Found(s, m) \/ Backtrace(s, m) \/ TurnAround(s, m)
  \/ Annotate(s, m) \/ Complete(s, m) \/ Return(s, m) \/ Finish(s, m)
  \/ FinishTorn(s, m) \/ Misread(s, m) \/ Tear(s, m) \/ Overrun(s, m)

-----------------------------------------------------------------------------
(* Clients, timeouts and the network *)

\* A client asks.  The first flood waits for a timeout of select.
Request(q) ==
  /\ q.source \notin down
  /\ waiting' = waiting \cup {q}
  /\ answered' = {p \in answered : QueryOf(p) # q}
  /\ UNCHANGED <<net, down>>

\* Mutant: the handler waits for the next select without sending anything.
TimeoutIdle(s) ==
  /\ s \notin down
  /\ UNCHANGED vars

\* select times out: every query with a waiting client is sent again.
Timeout(s) ==
  /\ s \notin down
  /\ MayDelay \/ \A m \in net : Host[m.to] # s
  /\ Cardinality(net) <= Overlap
  /\ net' = net \cup {[to |-> OwnAddr[s], payload |-> FirstPayload(q)] :
                        q \in {w \in waiting : w.source = s}}
  /\ UNCHANGED <<waiting, answered, down>>

\* A datagram is dropped on the way, or because nobody has its port open.
Lose(m) ==
  /\ MayLose \/ Host[m.to] \in down
  /\ net' = net \ {m}
  /\ UNCHANGED <<waiting, answered, down>>

Init ==
  /\ net = {}
  /\ waiting = {}
  /\ answered = {}
  /\ down = {}

Next ==
  \/ \E s \in Station : Timeout(s) \/ (\E m \in net : Handle(s, m))
  \/ \E q \in Query : Request(q)
  \/ \E m \in net : Lose(m)

Spec == Init /\ [][Next]_vars

-----------------------------------------------------------------------------
(* Fairness *)

\* Station s handles a datagram of phase f.
HandleOf(s, f) == \E m \in net : m.payload.found = f /\ Handle(s, m)

(***************************************************************************)
(* select returns for every datagram that arrives, and it times out when   *)
(* none arrives for long enough.  A station that is interrupted again and  *)
(* again is not promised a timeout: its select starts anew every time.     *)
(***************************************************************************)
Fairness ==
  \A s \in Station :
    WF_vars(Timeout(s)) /\ \A f \in 0..3 : WF_vars(HandleOf(s, f))

FairSpec == Spec /\ Fairness

-----------------------------------------------------------------------------
(* Properties *)

\* Types of the datagrams in flight and of the answers given.
TypeOK ==
  /\ net \in SUBSET Datagram
  /\ waiting \in SUBSET Query
  /\ answered \in SUBSET Payload
  /\ down \in SUBSET Station

(***************************************************************************)
(* Stations know each other by one name: the string on a neighbour's       *)
(* command line is the one that the station itself writes into payloads.   *)
(***************************************************************************)
Canonical ==
  \A s \in Station : Neighbours[s] \subseteq {OwnAddr[n] : n \in Station \ {s}}

(***************************************************************************)
(* A payload that still looks for its destination is only sent to a        *)
(* station it has not been at (the check of main.c before each talk_to).   *)
(***************************************************************************)
FloodIsFresh ==
  \A m \in net : m.payload.found = 0 =>
    \A k \in 1..m.payload.hops : m.payload.stations[k] # Host[m.to]

\* A route: it leaves the source, every leg joins neighbours, no station twice.
IsRoute(p) ==
  /\ Len(p.stations) = p.hops /\ Len(p.address) = p.hops
  /\ Len(p.routes) = p.hops /\ Len(p.time) = p.hops
  /\ p.hops > 0 => p.stations[1] = p.source
  /\ \A i \in 1..p.hops : p.address[i] = OwnAddr[p.stations[i]]
  /\ \A i \in 1..p.hops - 1 :
       p.address[i + 1] \in Neighbours[p.stations[i]]
  /\ \A i, j \in 1..p.hops : p.stations[i] = p.stations[j] => i = j

(***************************************************************************)
(* The route every payload carries is a simple path of the network from    *)
(* its source, in flight and in the answers, and it ends at the            *)
(* destination once that has been found.                                   *)
(***************************************************************************)
RoutesAreSimplePaths ==
  \A p \in {m.payload : m \in net} \cup answered :
    /\ IsRoute(p)
    /\ p.found > 0 => p.hops > 0 /\ p.stations[p.hops] = p.destination

(***************************************************************************)
(* On its way along the route, backwards or forwards, a payload is always  *)
(* addressed to the station its cursor points at, so that the station      *)
(* which edits position current of the arrays is the one listed there.     *)
(***************************************************************************)
CursorIsAddressee ==
  \A m \in net : m.payload.found > 0 =>
    /\ m.payload.current \in 1..m.payload.hops
    /\ m.payload.stations[m.payload.current] = Host[m.to]

\* No payload ever outgrows the receive buffer and takes a station down, be
\* it at once (Overrun) or with the time that was left of it (FinishTorn).
NobodyDown == down = {}

-----------------------------------------------------------------------------
(* What the answers are worth *)

Searchable == [s \in Station |-> {Timetables[s][i] : i \in Searched(Timetables[s])}]

(***************************************************************************)
(* The ways to travel along the first n stations of the route of p with    *)
(* services from lines: each leaves from the station where the one before  *)
(* arrived, and not before it arrived there.                               *)
(***************************************************************************)
Itineraries(p, n, lines) ==
  {it \in [1..n - 1 -> UNION {lines[s] : s \in Station}] :
     \A i \in 1..n - 1 :
       /\ it[i] \in lines[p.stations[i]]
       /\ Catches(it[i], IF i = 1 THEN p.start_time ELSE it[i - 1].arrival_time,
                  p.stations[i + 1])}

\* Up to station n, p is annotated with the services of itinerary it.
Shows(p, n, it) ==
  /\ n > 1 => p.time[1] = it[1].departure_time
  /\ \A i \in 1..n - 1 : /\ p.time[i + 1] = it[i].arrival_time
                         /\ p.routes[i + 1] = it[i].route_name

(***************************************************************************)
(* Itinerary it ends at station n because there is no service on, and p    *)
(* says so for this leg and all the later ones.                            *)
(***************************************************************************)
Stuck(p, n, it) ==
  /\ \A e \in Searchable[p.stations[n]] :
       ~ Catches(e, IF n = 1 THEN p.start_time ELSE it[n - 1].arrival_time,
                 p.stations[n + 1])
  /\ n = 1 => p.time[1] = TooLate
  /\ \A i \in n + 1..p.hops : p.time[i] = TooLate /\ p.routes[i] = NOTFOUND

(***************************************************************************)
(* An answer is a journey one can make: every connection in it is caught,  *)
(* to the destination or to a station from which no searched service is    *)
(* left to the next, which it then says from there on.  No placeholder and *)
(* no time written on another leg is left in it.                           *)
(***************************************************************************)
AnswersAreJourneys ==
  \A p \in answered :
    \E n \in 1..p.hops : \E it \in Itineraries(p, n, Searchable) :
      Shows(p, n, it) /\ (n < p.hops => Stuck(p, n, it))

\* No itinerary along the route of p, with services from lines, beats p.
NoneBeats(p, lines) ==
  \A it \in Itineraries(p, p.hops, lines) :
    timeToMinutes(p.time[p.hops]) <= timeToMinutes(it[p.hops - 1].arrival_time)

(***************************************************************************)
(* Taking the first service of every leg is right: along its own route,    *)
(* no answer can be beaten by any choice of the services the search looks  *)
(* at, provided the timetables are in order.                               *)
(***************************************************************************)
AnswersAreEarliest == \A p \in answered : NoneBeats(p, Searchable)

-----------------------------------------------------------------------------
(* Liveness *)

\* From some time on the network drops no datagram, and no client asks.
LossesStop ==
  <>[][\A m \in net : Lose(m) => \E s \in Station : Handle(s, m)]_vars
RequestsStop == <>[][\A q \in Query : ~ Request(q)]_vars

\* The station d can be reached from s.
Reachable(s, d) ==
  \E n \in 1..Cardinality(Station) : \E path \in [1..n -> Station] :
    /\ path[1] = s /\ path[n] = d
    /\ \A i \in 1..n - 1 : OwnAddr[path[i + 1]] \in Neighbours[path[i]]

(***************************************************************************)
(* The resends of the timeout handler are enough, as long as the timeouts  *)
(* come: once the network stops losing datagrams, no new requests come in  *)
(* and nobody is left waiting for a query that has no answer, a client     *)
(* that asks for a reachable station gets one, in a network that no        *)
(* station leaves.  With an unanswerable query it is not true: its resends *)
(* keep starting the select of the neighbours anew (UnansweredAreFlooded). *)
(***************************************************************************)
Answerable(q) == q.destination \in Station /\ Reachable(q.source, q.destination)

ClientsAreAnswered ==
  /\ LossesStop /\ RequestsStop /\ []NobodyDown
  /\ <>[](\A q \in waiting : Answerable(q))
  => \A q \in Query : Answerable(q) => (q \in waiting ~> q \notin waiting)

(***************************************************************************)
(* What README.md says of the timeouts: a request that has not been        *)
(* answered is flooded, whatever other stations do meanwhile.              *)
(***************************************************************************)
UnansweredAreFlooded ==
  RequestsStop =>
    \A q \in Query :
      q \in waiting ~> \/ q \notin waiting
                       \/ \E m \in net : QueryOf(m.payload) = q

(***************************************************************************)
(* The flood burns out: when no station times out any more (and none has   *)
(* died on a datagram), every payload comes to its end and the network     *)
(* falls silent for good.                                                  *)
(***************************************************************************)
FloodsEnd ==
  <>[][\A s \in Station : ~ Timeout(s)]_vars /\ []NobodyDown => <>[](net = {})
=============================================================================
