# A TLA+ verification of the transport stations

The repository is a network of *stations*. Each is a process (`main.c`, or
`server.py` as a second implementation) that has read a timetable, knows the
UDP addresses of its neighbours, and takes requests from browsers over TCP:
"how do I get to X, leaving at T". No station knows the network. The stations
find a route together, by passing datagrams that carry the route found so far,
and the station that was asked sends the result to its browser.

This directory models the protocol between the stations, the search in a
timetable, the text of the payloads, the tables in which a station of either
kind keeps its browsers, the life of a station's process and of its timetable
file, and the generators of networks and timetables.

## Inventory

| Component | State | Operations | Interacts with |
|---|---|---|---|
| Select loop, UDP handler (`main.c` 163-324) | none of its own: everything is in the datagram | found, backtrace, turn around, annotate, complete, return, finish, flood | other stations (datagrams), timetable, client tables |
| Select loop, timeout handler (`main.c` 138-162) | the 15 s timer of `select` | resend every unanswered query, drop dead clients | client list, own UDP port |
| Select loop, TCP handler (`main.c` 325-408) | the descriptors of the process | accept, parse, register, ignore | browsers, client tables |
| Client list, query ring (`client/`) | linked list, array of `MAX_QUERIES`, `query_index` | `add_client`, `find_client`, `remove_client`, `add_query`, `search_query` | all three handlers |
| Timetable (`timetable/`) | array of services, its length, modification time | `readtimetable`, `search_timetable`, `check_update_timetable` | files, UDP handler |
| Payload codec (`payload/`) | none | `craft_payload`, `load_payload`, `get_ip_port` | UDP handler |
| Sockets (`server/`) | listening and UDP socket | `setup_TCP`, `setup_UDP`, `new_connection`, `talk_to` | operating system |
| Start and end (`main.c` 31-36, 79-127) | ports, `NUM_TIMETABLES`, `latest_time` | start, read, bind, `signal_handler` | another process of the same station, editors of the file |
| Python station (`server.py`) | `ClientList`, `QueryManager`, local variables that its handlers share | the same three handlers | browsers, stations of both kinds |
| Generators (`files/build*timetables.c`) | adjacency matrix, closure | `build_routes`, `Warshall`, `build_timetables` | write the `tt-` and `adjacency` files |
| Scripts (`files/*.sh`) | ports | assign ports, start stations, write the web page | write command lines and the form |

What is hard here: stations run concurrently over UDP, which loses, repeats and
reorders; they keep no state about a query, so everything that keeps a flood
from circling is inside the datagram; the only retry is a timer that any
traffic starts anew; descriptors are reused while numbers of them are kept in a
list; the ring, the receive buffer and the table of descriptors are finite; the
timetable file is edited while it is read, and a station is started again while
answers to its last process are under way. The hazards are listed in `PROJECT.json`, each at the line where
it bites.

What makes the parts correct:

- protocol: a flood never returns to a station its copy has seen and burns out;
  the routes are simple paths; the station that edits an entry of a payload is
  the one the entry is about; an answer is a journey one can make, and the
  earliest along its route; whoever waits is answered when the network lets it;
- tables: a connection gets at most one answer, to its own question; no stale
  descriptor stays in the list; none leaks but those of ignored requests; no
  query is in the ring twice; a process does not die without a cause that can
  be named; whoever asks is served;
- search: the first service that can be caught;
- codec: each kind of station reads what either has written, and of a text that
  was cut off takes at most the start time for another one;
- process: at most one serves a station; a start gives way to the living only,
  and comes to an end; an edit of the file is seen, and never leaves the search
  with a table it overruns;
- generators: a symmetric, connected network, and buses that do not overtake.

## Modules

- `Timetable` - the timetable of a station and `search_timetable`. Times are the
  pairs of numbers that `sscanf` reads; `99:99` and `...`, which travel in
  payloads as well, are values of their own. The loop of the code stops before
  the last line (`Searched`). A time that cannot be parsed leaves the variables
  of `timeToMinutes` uninitialised: `SearchResults` then allows every outcome,
  and so it does for `Torn`, a start time of which the receive buffer has kept
  the beginning only.
- `Relay` - the stations and the network between them. A payload is the record
  that `load_payload` fills, with its four parallel arrays as sequences, so that
  index `current - 1` of the code is position `current` of a sequence. The
  datagrams in flight are a set. Each path through the UDP handler is an action:

  | action | `found` on arrival | at |
  |---|---|---|
  | `Flood` | 0 | a station that is not the destination |
  | `Found` | 0 | the destination: becomes 1, the walk back begins |
  | `Backtrace` | 1 | between |
  | `TurnAround` | 1 | the source: becomes 2, the first leg is written |
  | `Annotate` | 2 | between: the next leg is written |
  | `Complete` | 2 | the destination: becomes 3 |
  | `Return` | 3 | between |
  | `Finish` | 3 | the source: becomes 4, the clients are answered |
  | `FinishTorn` | 3 | the source, of a torn start time: no query has it, the process dies |
  | `Misread` | 1, 2 | where a leg has no service: `Timetable[-1]` is printed, the process dies |
  | `Tear` | 0 to 3 | the payload was cut inside `start_time`, and is read with what is left |
  | `Overrun` | 0 to 3 | the payload was cut off before that, the process dies |

  `Request` and `Timeout` are the other two handlers, reduced to the set of
  queries that somebody waits for. `Lose`, and the copy in `Replace`, are the
  network. A flood starts at a timeout only, as in the code, where the
  `talk_to` of the TCP handler is commented out.
- `Codec` - payloads as texts: `craft_payload` and `load_payload` of C,
  `serialize` and `deserialize` of Python. A text is a sequence of words, blanks
  and the semicolon at the end; the readers are functions from a text to the
  payload they get out of it, or none. A cut falls between two words or inside
  one (`CutInside`), of which another word is left.
- `Wire` - the payloads of `Relay` as texts of `Codec`: what holds of every text
  that the protocol ever sends.
- `Desk` - the promise to the browsers: at most one answer per connection, to
  its own question.
- `Clients` - one station's tables, with the handlers that touch them, over a
  finite table of descriptors in which `accept` takes the lowest free number.
  `asked` and `got` are history variables, for `Desk`. What the network does
  with a query is reduced to `coming`, the number of answers under way; what it
  brings of other stations' queries is `foreign`, a datagram that has to be
  passed on before `select` can time out. The loop
  that gives an answer to all its clients is one step per client
  (`SendAnswer`), because it may die in the middle (`SendFails`).
  `Restart` starts the process again, with empty tables, while answers to what
  it asked before are still coming; `Desk` allows for it. `before`, the
  connections of the processes before, is a history variable.
- `PyStation` - the same for `server.py`. Nodes hold socket objects, so no
  numbers are reused; answers are stored with the queries; a full list of
  queries stays as it is; a request is flooded at once; an answer goes to one
  client. `message` and `client_socket` are variables of the function that
  handlers leave to one another, and are variables of the model; `before` is a
  history variable as in `Clients`. A timeout with
  somebody in the list is where the process stays (`hung`): the loop never
  assigns `current`.
- `Process` - processes of one station, from `main` up to its loop, the
  check of the file at the top of the loop, and the end: reading the file and
  taking its time are two steps, as are opening and closing the two sockets.
  The file is a number of rows with a version and a time in seconds, which an
  editor empties and writes row by row, or replaces, or removes. `Grown` is the
  array of `readtimetable`; `count` is `NUM_TIMETABLES`, which a reload does not
  change. `stamp` and `whole` are history variables. The handlers themselves
  are a single `Turn`; that they may die on a table they cannot use is
  `TurnFails`.
- `Network` - the two generators: one step per random draw of `build_routes`
  with Warshall's test after it, or the line of option `-l`; then one step per
  line of every timetable. A row of the matrix is the set of its true columns;
  `Turn`, `Columns`, `Rows` and `Closure` are the body of Warshall's innermost
  loop and the three loops around it, which update the matrix in place.
  `file` is the timetable being written. `Relay` gets
  its symmetric, connected networks and the order of the lines from here.
- `MCRelay`, `MCClients`, `MCPyStation`, `MCNetwork` - the instances for TLC.
  `Process` is run as it is.
- `RelayProofs`, `RelayAnswersProofs`, `WireProofs`, `ClientsProofs`,
  `ProcessProofs`, `PyStationProofs`, `NetworkProofs` - the theorems, each module
  about the one it is named for (`RelayAnswersProofs`: about the answers of
  `Relay`). `NatLemmas` has least elements, induction and recursion over the
  natural numbers, stated with sets and functions instead of operators.

`Clients` refines the `waiting` of `Relay` and takes from it that floods are
answered; `Relay` takes from `Clients` that an answer reaches everyone who
waits for its query. `Timetables` of `Relay` is what `Process` keeps in `table`:
`SoundWhileWhole` says when the search may rely on it. `Network` makes the
files.

### What the models abstract

Strings are atoms; in particular the words of a payload are, none of which may
contain a blank. In `Relay` what a station sends is what the next one loads
(which is `PayloadsSurviveTheWire`), unless it is longer than the receive
buffer (`CutsTearTheTimeOnly` says what is loaded then), which `MaxHops` expresses in hops (with generated names an entry takes 40 to 50
bytes, so that 1024 bytes hold little more than 20 of them; the network in
`files/` has 20 stations). `Addr` keeps the difference
between the strings of one address: `OwnAddr` is what a station writes about
itself, `Neighbours` what its command line says, `Host` where a datagram sent
to a string arrives. A request for the station itself is excluded, as the
forms of `makewebpage.sh` do not offer it. Timetables have at least one line.
A cut before the third word, where `load_payload` would go
on with uninitialised numbers, counts as noticed: no buffer is that small.
Printing, HTML and memory that is never freed are left out. Bytes are not
counted: a payload of `MaxHops + 1` entries may be too long by a few of them
(`Tear`) or by more (`Overrun`), and a longer one is too long by more. What a
torn start time is read as is left open (`Torn`).
The generators compute arrivals as doubles that are truncated when they are
stored; all the other terms are integers, so that it is the same to
truncate the distance first, which is what `Distance` of `Network` is.

Where the C code has undefined behaviour the model has its outcomes:

- the lookup of a time that cannot be parsed, or of a torn one: any line to the
  station, or none (`SearchResults`);
- the destination of a request without `time=`, which is the whole rest of the
  request and may overrun its array (`RegisterFails`), and what `load_payload`
  does with such a destination (`LoadMangled`);
- `search_query` returning NULL, which is read through: the process dies
  (`FinishUnrecorded`, `FinishTorn`, `Crash`);
- `Timetable[-1]`, printed after a search without a result: the leg is written
  as intended, or the process dies (`Misread`, where `MayMisread` allows it);
- the address that `setup_UDP` returns, read after `freeaddrinfo` has released
  it: either nothing comes of it, or the process dies where the port was just
  taken, which is what `Kill` of `Process` may do at that point as well;
- the freed node that the timeout handler would follow: unreachable, by
  `ListIsSound`.

## Runs

| run | shows |
|---|---|
| `relay_diamond` | Five stations, six edges, four simple routes of three to five stations, the longest of which outgrows the buffer (`MaxHops` 4). All interleavings of the stations; reliable network. Torn start times are looked up and travel on, stations die of them, of longer payloads or of `Timetable[-1]`. Types, freshness, simple paths, cursor; answers are journeys from the time that was asked for, and earliest. Every payload survives both codecs, and of one that is cut off at most the start time is read wrong. |
| `relay_lossy` | A triangle, with a buffer that just holds its longest route. Datagrams are lost, duplicated, delayed and overtaken by resends. Nobody goes down; freshness, simple paths, cursor, journeys, earliest. |
| `relay_live` | A triangle, two clients at two stations, one of them with a query that has no answer; losses. `ClientsAreAnswered` and `FloodsEnd` under fairness. |
| `relay_starved` | violated: a waiting client's query is flooded whatever other stations do |
| `relay_alias` | violated: freshness, with `localhost:port` neighbours as in `startstations.sh` |
| `clients_desk` | Four connections, three descriptors, a ring of two queries, which wraps, five kinds of request, browsers that leave, a restart. The list, the ring, the descriptors, the refinement of `Desk`, and what a process dies of, in its first life and in the next. |
| `clients_served` | Three clients, requests that are no query, datagrams of other stations, three descriptors, a restart, browsers that stay. Everyone is served, once the other stations pause and as long as a descriptor stays free. |
| `clients_slower` | violated: an answer is never slower than one given before |
| `process` | Two processes, a file of up to three rows that changes twice, a UDP port that others may take. One serves at a time; a start gives way to the living only, and ends; the table stays usable while the file is whole; edits are seen. |
| `py_tables` | Three browsers, two queries (one with an unreadable time), a list of one, lost answers, a restart. At most one answer each, to the own question; nobody is dropped from the list unserved; the fastest answer is kept; what the process dies of. |
| `py_hang` | violated: a client that waits at a timeout is served or flooded for |
| `network_built` | Every network of four stations the generators can make. Warshall's closure is reachability; the network is symmetric, connected, without loops; no bus overtakes an earlier one of its leg. |

The violated properties are what comments, a test or the repository's README say;
`findings` in `PROJECT.json` quotes them.

Deadlock is not checked: a station without traffic, or one whose process has
ended, has nothing left to do but wait.

### Bounds

- Stations: three, or five. A cycle, a chord and a side that is longer than the
  other are what tells the visited-check, the cursor and the buffer apart; the
  properties of routes are proved for any network.
- The runs share out what can go wrong, since together it is too much to
  enumerate: losses, duplicates and delays in `relay_lossy`, where the longest
  route just fits; a short buffer in `relay_diamond` (`MaxHops` 4 for a route of
  five stations), and `Timetable[-1]` there too; a second query in `relay_live`.
  The query of `relay_lossy` has a service on the direct route and none on the
  other, so that answers of both kinds are under way. The theorems have all of
  it at once.
- `Overlap`: a timeout starts a new flood only while at most so many datagrams
  are in flight (two, where stations may time out with datagrams under way: a
  resend then meets two copies of the flood before).
- `MayDelay` FALSE: a station only times out when nothing is under way to it,
  which is what 15 seconds mean in a network that delivers within them.
- Timetables: up to five lines per station, with a fast and a slow service per leg, a
  connection that is just caught and one that is just missed, and a last line
  that the search does not look at.
- `Copies`: answers to one query that may be under way at once, one or two: one
  reaches clients, a later one finds nobody or a client that asked meanwhile.
- `MAX_QUERIES`, `MaxFd`: 1 to 4 instead of 100 and the limit of the process, so
  that the ring wraps and the descriptors run out. `MaxTime`: two times of
  day, hence as many queries for the one destination; in `clients_desk` those
  without a time make more of them than the ring of two has entries.
- `MaxStarts`: one restart, the first after which an answer may be late.
- `max_queries` 1 in `py_tables`, so that a query finds no room while its client
  waits; `Arrival`: a faster and a slower one.
- `Proc`: two processes, since only the one before can be in the way of a start.
  `MaxEdits` 2: a change that is seen half done, and the one that completes it.
  `MaxRows` 3: two services, for which the array has grown once. Edits within
  one second, and files with an old time, are among the changes.
- `Spread`, `FirstBus`, `LastBus`: a window of eight minutes around an hour's
  end, and an "hour" of two minutes for the neighbours to share, so that three
  neighbours round the interval between buses down to 0, as more than 60 do in
  the code. Two of the five values of `rand()%5`: larger gaps only move a bus
  away from the one before.
- Connections are symmetric in `clients_desk`; the runs that check liveness use
  no symmetry.

### Fairness

`Relay!Fairness`: a station whose `select` has a datagram handles it (one weak
fairness condition per phase: the socket buffer is a queue, so no datagram waits
for ever), and a station for which nothing is under way times out. It does
*not* say that a station under constant traffic times out - the code sets its
15 seconds anew each time - and `relay_starved` is the consequence. Therefore
`ClientsAreAnswered` has the premise that nobody is left waiting for a query
without an answer, whose resends would never end: without this premise TLC
finds it violated in `relay_live`. Its other premises are that losses and new
requests stop and no station goes down; those of `FloodsEnd` that timeouts stop,
and again that no station goes down.

`Clients!Fairness`: the loop blocks nowhere but in `select`, so a connection in
the backlog is accepted, a client that can be answered is, and a datagram of
another station's query is passed on. `Timeout` is not enabled while there is
one, and each one comes and goes, so that weak fairness promises a timeout only
once the others pause; that they do in the end is a premise of
`ClientsAreServed`. That a flood comes back (`Answers`) is the result of
`relay_live`, and its premises are inherited. The other premise is that a
descriptor stays free; `DescriptorsAreAccounted` says who has the others.

`PyStation!Fairness` is the same without the descriptors, which are Python's.
`Process!Fairness`: the operating system runs every process, and `select` waits
for no more than 15 seconds; nothing is assumed of editors and other programs.
`EditsAreSeen` has the premise that the file comes to rest, `StartsEnd` that no
other program keeps the port.

### What the code does that no run shows as violated

- `search_timetable` stops before the last line (`Searched`), so that the last
  service of a day is never offered; `server.py` searches every line.
- When waiting clients and ignored requests hold every descriptor, `talk_to` has
  none, nothing is flooded and nobody is answered: the premise of
  `ClientsAreServed`.
- A query that is overwritten in the ring while a client waits for it, or a
  restart, lets the next answer dereference NULL: the last two cases of
  `CrashHasACause`, of either kind of station.
- A payload that is too long by a few bytes takes its source down when it comes
  back, as its torn start time is that of no query (`FinishTorn`).
- A request without a time gets the time at which the station was started.
- `check_update_timetable` drops the number of lines that `readtimetable`
  returns (`Reread` leaves `count` alone): a file that has shrunk is searched
  beyond its end (`TurnFails`), and services that are added are never searched.
- A Python station that is asked what it has answered before sends the last
  message that it built, whatever that was about (`Repeat`).
- A change between the first reading of the file and the note of its time is
  missed (an exception in `EditsAreSeen`).

## Proofs

Every invariant and every action property of the passing runs is a theorem, for
all values of the constants that the assumption of its module allows
(`RelayAssumption`, `ClientsAssumption`, `ProcessAssumption`, `PyAssumption`,
`NetworkAssumption`; TLC evaluates each of them on its instances). So is the
refinement of `Desk`. Each theorem is about `Spec`, which has no fairness.

### Routes (`RelayProofs`)

`RelayProofs` proves, for all stations, networks, timetables and queries
allowed by `RelayAssumption`, with or without loss, duplication and delay:

- `TypeCorrectness` and `CursorCorrectness`, without any further assumption;
- `FloodFreshness` and `SimplePaths`, assuming `Canonical`: every neighbour is
  listed under the string it writes into payloads. `relay_alias` shows that the
  assumption is needed, and `startstations.sh` that it is not always met;
- `NobodyGoesDown`, assuming also that the stations are finitely many, the
  buffer has room for a route through all of them, and `Timetable[-1]` does no
  harm. It rests on `Whole`: no start time has been torn.

The types alone are not inductive: `StepBack` and `WriteLeg` index the arrays
with `current`, so that one has to know where on its route a payload is.
`RouteInv` says so: the four arrays are `hops` long (`Shape`); the first entry
is the source, the last, once found, the destination; a datagram that walks is
addressed to the entry its cursor points at, and one that has no entries yet is
at its source (`Placed`). From that, a station that is not the source never
steps back from entry 1, and one that is not the destination never steps
forth from the last. `Host[OwnAddr[s]] = s` then gives `CursorIsAddressee`.

`PathInv` adds that stations along the route are distinct and neighbours
(`Simple`) and that a flooding datagram goes to a new station that is a
neighbour of the last one (`Fresh`). It is preserved because `Unvisited`
compares with every entry the payload *had*, and a station never is its own
neighbour; the walks do not change the route (`SameRoute`). A simple path is
no longer than the number of stations (`SimpleIsShort`), hence no payload is
too long, none is torn, and `NobodyGoesDown`.

`SearchFindsFirst` is the lemma about the search: it returns a line that can be
caught, and none before it can be.

### Answers (`RelayAnswersProofs`)

- `JourneysCanBeMade`, assuming `Canonical`: every answer is a journey one can
  make, to the destination or to a station where none of the services that are
  searched goes on in time (`Stuck`), and then it says so from there on;
- `AnswersCannotBeBeaten`, assuming also `Ordered`, that no bus of a timetable
  overtakes an earlier one of its leg. `NetworkBusesNeverOvertake` says so of
  what the generators write; a file made by hand need not be like that.

`MCRelay` states both assumptions for its instance, and TLC evaluates them.

A journey is a statement about all legs together, but stations write one leg at a
time. `AnswerInv` is therefore local to a leg: on the way forth the legs up to
the cursor are done, on the way back and in an answer all of them are, where a
leg is done when it has the first service that can be caught at the time its
predecessor leaves, or when there is none and it says so. Writing a leg changes
nothing that an earlier one is about. A payload whose start time is torn may
have anything for its legs; the invariant does not speak of it, and `Finish`
gives no such payload to a client. That the local choices make up a
journey, and that under `Ordered` the earliest service of each leg gives the
earliest arrival at the end, follows by induction along the route.

### Texts (`WireProofs`)

- `PayloadsAreUnderstood`: each reader gets out of either writer's text the
  payload that was written, for every payload under way;
- `CutsTearNothingElse`: of a text cut off between two words or inside any of
  them, `deserialize` reads nothing, and `load_payload` nothing, or the payload
  itself when only the semicolon is missing, or the payload with another start
  time when the cut is in its last word.

Of the protocol they need `Shape`, that the four lists are `hops` long: the
readers find the fields by counting. The lemmas are that `Words` distributes
over concatenation and recovers the words from both ways of putting blanks
between them, so that both texts of a payload have the same words (`AllWords`);
where each field is among them; and that a beginning of a text has fewer words
and no semicolon - one that ends in the rest of a word has as many as if the
word were whole, still too few unless it is the last (`TornWordIsSeen`,
`TornTimeIsRead`).

### Tables of the C station (`ClientsProofs`)

- `ClientsTypes`, `ClientsListIsSound`, `ClientsDescriptorsAreAccounted`,
  `ClientsRingHasNoDuplicates`;
- `ClientsKeepThePromise`: every step of `Clients` is one of `Desk` or leaves it
  alone, for any number of connections, descriptors, queries and restarts;
- `ClientsCrashHasACause`.

`ListIsSound` is not inductive, since a descriptor is closed and given out anew
while nodes keep its number. `ConnectionsAreSound` is what it lacks: no
connection has two descriptors, nothing is known of one before it is accepted,
and whoever has had an answer has asked. Both together also give the refinement:
the client of a node still waits, for the query of that node. The last theorem
rests on `RingKeepsUp`, about whichever process runs: as long as it has been
asked no more queries (`Mine`) than the ring has room for, all of them are in
it, below `query_index`, and answers come to nothing but these and what the
processes before were asked; and on `LivesApart`: it has nothing to do with
their connections.

### Processes and files (`ProcessProofs`)

- `ProcessTypes`; `ProcessServesAlone`; `ProcessGivesWay`, that a start gives up
  only while a living process listens or another program has the UDP port,
  whatever dead processes have left in TIME_WAIT; `ProcessTablesAreSound`, that a table is usable as long as
  the file has had, ever since the process started, the lines it had then.

`PortsHeld` says of each process that it has a port *exactly* while its `pc` is
where it has it. That it has the port there is why one serves alone; that nobody
keeps it elsewhere is why one that cannot bind has met somebody who is there to
serve, and one that crashes with the TCP port in hand a process between its two
closes, or another program. `TablesFit` adds to the soundness of the tables that a file
which has been whole since then still has the lines that the process counts on,
and the lemma `GrownExceeds` that the array of `readtimetable` is always larger than the
number of services in it.

### Tables of the Python station (`PyStationProofs`)

- `PyTypes`, with `MessageIsBound`: `message` is assigned before it is read;
- `PyWaitersGetTheirAnswer`, from `WaitInv`: a node of the list has the query
  that its socket asked, and who has got something is closed;
- `PyNobodyIsForgotten`; `PyFastestIsKept`, an action property, from `FastInv`: a
  query is stored once, and no answer sent to a listed client of this process is
  faster than the stored one;
- `PyCrashHasACause`, from `StoreKeepsUp`: in any process an answer is under way
  only to what an earlier one was asked, or this one; and what this one was
  asked is stored, unless the store is full.

### Generators (`NetworkProofs`)

- `NetworkBusesNeverOvertake`, from `FileInv`: the lines are in order, and the
  next bus leaves no earlier than all of them and arrives later on its leg,
  whatever `rand()` returns, for any number of neighbours, and when the
  interval between the buses is rounded down to 0;
- `NetworkClosureIsReachability`: Warshall's algorithm is right for any number of
  stations. The in-place update does no harm since row k and column k do not
  change while k is the intermediate station (`Between`). After round k the
  matrix is closed under journeys with intermediate stations up to k
  (`ClosedBelow`), so at the end it has every path; each of its entries was made
  of two others, so it has nothing else; and a path that is longer than the number
  of stations has a station twice and can be shortened (`FewRides`);
- `NetworkIsAlwaysSound`, from `SoundInv`: routes are symmetric without loops
  from the start, and connect all stations once the test has succeeded, or as
  soon as the line of option `-l` is laid.

### Only model-checked

Liveness under fairness, which is out of the prover's reach: `FloodsEnd`,
`ClientsAreAnswered`, `ClientsAreServed`, `StartsEnd` and `EditsAreSeen`. They
hold on the instances of their runs. The properties of the four runs that are
expected to violate them are of course not theorems.

## Not modelled

- Networks of both kinds of station in `Relay`: the stations there are C ones. A
  Python station edits payloads the same way, apart from searching the last
  line too, placeholders in the destination's entry, and flooding an empty
  payload when it gets a text that was cut off.
- The timetable of the Python station. It is read once: `check_and_update`
  assigns the new one to a local variable. (It also raises an exception when the
  file is gone.)
- `get_local_ip` of both: its result is `OwnAddr`, and `RelayAssumption` takes it
  to be right.
- Names with blanks, which no generator writes and which break the codec.
- Names of stations and coordinates in the generators; files that cannot be
  opened there.
- Scripts, page and data files: what they write is an input of the models.

## Plan

In order of importance; all but the last are done.

1. `Timetable`, `Relay` - protocol over an unreliable network; runs and
   `RelayProofs` up to simple paths.
2. `Clients`, `Desk` - tables and their promise, with restarts.
3. Violation runs for what the repository says and the code does not do.
4. `Network` - the generators, against reachability, over all small graphs.
5. `Process` - start, end and reload, with files that change at any moment.
6. `PyStation`, `Codec`, `Wire` - the second implementation and the common wire
   format.
7. Proofs of all the safety properties that the passing runs check.
8. The step from one component to the next as theorems: that the order of the
   lines which `Network` writes is `Ordered` of `Relay`; the safety half of the
   liveness properties (what a flood uses up with every step).
