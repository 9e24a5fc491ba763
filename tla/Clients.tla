------------------------------ MODULE Clients -------------------------------
(***************************************************************************)
(* How one station of main.c keeps its browsers: the TCP handler and the   *)
(* timeout handler of its select loop, the end of the UDP handler that     *)
(* gives the answers, and the tables of client/client.c between them.      *)
(*                                                                         *)
(* The descriptors are those of the operating system: accept returns the   *)
(* lowest free one, so that a number in the client list may come to mean   *)
(* another connection, and there are only so many of them.  What the other *)
(* stations do with a query (module Relay) is reduced to its result: every *)
(* flood of a query comes back a few times, with any arrival times.        *)
(***************************************************************************)
EXTENDS Integers, Sequences, FiniteSets

CONSTANTS
  Conn,         \* browser connections, each used for one request
  Dest,         \* stations that can be reached
  Arrival,      \* the arrival times that answers may give
  Requests,     \* what the browsers ask for
  MAX_QUERIES,  \* size of the ring of queries
  MaxFd,        \* descriptors the process has left
  MaxTime,      \* times of day are 0..MaxTime
  Copies,       \* bound: answers to one query that may be under way
  MaxStarts,    \* bound: how often the station is started again
  MayLeave,     \* browsers may close their connection at any time
  MayDisturb    \* other stations may send datagrams of queries of theirs

Clock     == 0..MaxTime
StartTime == 0           \* the time when the station was started
NoTime    == -1          \* time= is given, but not as hh-mm
Absent    == -2          \* time= is not given
Mangled   == "mangled"   \* a destination with the rest of the request in it
Empty     == "empty"     \* a name of no characters

Query    == [destination : Dest \cup {Mangled}, start_time : Clock]
None     == [destination |-> Empty, start_time |-> Absent]   \* an empty entry
Request  == [to : Dest, time : Clock \cup {NoTime, Absent}]   \* GET /?to=...
Nonsense == [to |-> Empty, time |-> NoTime]     \* no query at all, or no data
NotSent  == [to |-> Empty, time |-> Absent]     \* not connected yet
Free     == "free"                           \* a closed descriptor
Idle     == <<>>                             \* not giving answers
Fd       == 1..MaxFd
Node     == [fd : Fd, query : Query]

ASSUME ClientsAssumption ==
  /\ MAX_QUERIES \in Nat \ {0} /\ MaxFd \in Nat \ {0}
  /\ MaxTime \in Nat /\ Copies \in Nat \ {0} /\ MaxStarts \in Nat
  /\ Requests \subseteq Request \cup {Nonsense}
  /\ Mangled \notin Dest /\ Empty \notin Dest
  /\ Free \notin Conn
  /\ {MayLeave, MayDisturb} \subseteq BOOLEAN

VARIABLES
  request,      \* what each browser has sent
  backlog,      \* connections that wait for accept
  left,         \* browsers that have closed their end
  open,         \* the connection behind each descriptor
  clients,      \* the client list, from head_client on
  queries,      \* the ring of queries
  query_index,  \* where the next query goes
  coming,       \* answers under way to each query
  serving,      \* the query and the answer that are being given out
  asked,        \* the query of each connection the list has had (history)
  got,          \* the answers sent to each connection (history)
  status,       \* of the process: running, interrupted or crashed
  starts,       \* how often it has been started again
  foreign,      \* a datagram of somebody else's query is in the UDP socket
  before        \* the connections of the processes before (history)

browsers == <<request, backlog, left>>
tables   == <<open, clients, queries, query_index>>
vars     == <<browsers, tables, coming, serving, asked, got, status, starts, foreign,
              before>>

running == status = "running"

-----------------------------------------------------------------------------
(* client.c *)

Nodes == {clients[i] : i \in 1..Len(clients)}

Least(S) == CHOOSE i \in S : \A j \in S : i <= j

add_client(list, fd, q) == <<[fd |-> fd, query |-> q]>> \o list

\* Positions of the nodes that wait for q; find_client returns the first.
Waiting(list, q) == {i \in 1..Len(list) : list[i].query = q}

\* Mutant: the head of the list is taken for the client.
find_client_head(list, q) == list[1]

find_client(list, q) == list[Least(Waiting(list, q))]

\* Mutant: the first node is not unlinked, as nothing points to it.
remove_client_not_head(list, fd) ==
  LET found == {i \in 2..Len(list) : list[i].fd = fd}
  IN  IF found = {} THEN list
      ELSE [i \in 1..Len(list) - 1 |->
              IF i < Least(found) THEN list[i] ELSE list[i + 1]]

\* Unlinks the first node with this descriptor, if there is one.
remove_client(list, fd) ==
  LET found == {i \in 1..Len(list) : list[i].fd = fd}
  IN  IF found = {} THEN list
      ELSE [i \in 1..Len(list) - 1 |->
              IF i < Least(found) THEN list[i] ELSE list[i + 1]]

\* Mutant: the search stops before the last entry of the ring.
RecordedButLast(q) == \E i \in 0..MAX_QUERIES - 2 : queries[i] = q

\* search_query returns a copy, and NULL exactly when q is not in the ring.
Recorded(q) == \E i \in DOMAIN queries : queries[i] = q

\* Mutant: the index is not wrapped.
add_query_unwrapped(q) ==
  /\ queries' = [queries EXCEPT ![query_index % MAX_QUERIES] = q]
  /\ query_index' = query_index + 1

add_query(q) ==
  /\ queries' = [queries EXCEPT ![query_index] = q]
  /\ query_index' = (query_index + 1) % MAX_QUERIES

-----------------------------------------------------------------------------
(* The TCP handler *)

(***************************************************************************)
(* The query in a request.  Without a usable time the code takes the one   *)
(* it formatted when it started.  Without time= the scan for '&' takes all *)
(* the rest of the request for the destination.                            *)
(***************************************************************************)
Parsed(r) ==
  [destination |-> IF r.time = Absent THEN Mangled ELSE r.to,
   start_time  |-> IF r.time \in Clock THEN r.time ELSE StartTime]

\* select reports the listening socket, and accept has a descriptor for c.
\* Without one it fails, the handler does nothing, and select reports again.
Accepts(c) ==
  /\ running /\ serving = Idle
  /\ c \in backlog
  /\ \E fd \in Fd : open[fd] = Free

NextFd == Least({fd \in Fd : open[fd] = Free})

(***************************************************************************)
(* A request that is no query, or a browser that has closed before it sent *)
(* one: the handler goes on with its loop and keeps the descriptor.        *)
(***************************************************************************)
Ignore(c) ==
  /\ Accepts(c)
  /\ request[c] = Nonsense
  /\ backlog' = backlog \ {c}
  /\ open' = [open EXCEPT ![NextFd] = c]
  /\ UNCHANGED <<request, left, clients, queries, query_index, coming,
                 serving, asked, got, status, starts, foreign, before>>

Register(c) ==
  LET q == Parsed(request[c])
  IN  /\ Accepts(c)
      /\ request[c] # Nonsense
      /\ backlog' = backlog \ {c}
      /\ open' = [open EXCEPT ![NextFd] = c]
      /\ IF Recorded(q) THEN UNCHANGED <<queries, query_index>>
                        ELSE add_query(q)
      /\ clients' = add_client(remove_client(clients, NextFd), NextFd, q)
      /\ asked' = [asked EXCEPT ![c] = q]
      /\ UNCHANGED <<request, left, coming, serving, got, status, starts, foreign, before>>

Crash ==
  /\ status' = "crashed"
  /\ UNCHANGED <<browsers, tables, coming, serving, asked, got, starts, foreign, before>>

\* The browser has gone: send may raise SIGPIPE, shutdown may fail.  Or a
\* request without time= is longer than the array for its destination.
RegisterFails(c) ==
  /\ Accepts(c)
  /\ request[c] # Nonsense
  /\ c \in left \/ request[c].time = Absent
  /\ Crash

-----------------------------------------------------------------------------
(* The timeout handler and the end of the UDP handler *)

\* Mutant: the handler waits for the next select without sending anything.
TimeoutIdle ==
  /\ running /\ serving = Idle /\ ~ foreign
  /\ UNCHANGED vars

(***************************************************************************)
(* select reports nothing for 15 seconds.  Every client in the list waits: *)
(* its copy of the query never gets an answer.  talk_to needs a descriptor *)
(* of its own for a moment, and gives up without one.  A node whose        *)
(* descriptor is closed would be removed; ListIsSound excludes it.         *)
(***************************************************************************)
Timeout ==
  /\ running /\ serving = Idle /\ backlog = {} /\ ~ foreign
  /\ \E fd \in Fd : open[fd] = Free
  /\ coming' = [q \in Query |-> IF \E n \in Nodes : n.query = q
                                THEN Copies ELSE coming[q]]
  /\ UNCHANGED <<browsers, tables, serving, asked, got, status, starts, foreign, before>>

(***************************************************************************)
(* An answer arrives.  The copy that search_query returns has an empty     *)
(* answer, which this one replaces.                                        *)
(***************************************************************************)
Finish(q, a) ==
  /\ running /\ serving = Idle
  /\ coming[q] > 0 /\ q.destination \in Dest
  /\ Recorded(q)
  /\ coming' = [coming EXCEPT ![q] = @ - 1]
  /\ serving' = <<q, a>>
  /\ UNCHANGED <<browsers, tables, asked, got, status, starts, foreign, before>>

\* search_query returns NULL, and the handler reads q->answers.
FinishUnrecorded(q) ==
  /\ running /\ serving = Idle
  /\ coming[q] > 0 /\ q.destination \in Dest
  /\ ~ Recorded(q)
  /\ Crash

(***************************************************************************)
(* The flood of a mangled query starts at this station's own port, and     *)
(* load_payload copies the rest of the request into the six bytes of       *)
(* start_time.  If the process survives that, no answer comes of it.       *)
(***************************************************************************)
LoadMangled(q) ==
  /\ running /\ serving = Idle
  /\ coming[q] > 0 /\ q.destination = Mangled
  /\ \/ Crash
     \/ /\ coming' = [coming EXCEPT ![q] = 0]
        /\ UNCHANGED <<browsers, tables, serving, asked, got, status, starts, foreign, before>>

\* Mutant: the socket is not closed.
SendAnswerLeaks ==
  /\ running /\ serving # Idle
  /\ Waiting(clients, serving[1]) # {}
  /\ LET n == find_client(clients, serving[1])
         r == [query |-> serving[1], arrival |-> serving[2]]
     IN  /\ got' = [got EXCEPT ![open[n.fd]] = Append(@, r)]
         /\ clients' = remove_client(clients, n.fd)
  /\ UNCHANGED <<browsers, open, queries, query_index, coming, serving, asked, status,
                 starts, foreign, before>>

\* One turn of the loop over find_client: send, close, remove.
SendAnswer ==
  /\ running /\ serving # Idle
  /\ Waiting(clients, serving[1]) # {}
  /\ LET n == find_client(clients, serving[1])
         r == [query |-> serving[1], arrival |-> serving[2]]
     IN  /\ got' = [got EXCEPT ![open[n.fd]] = Append(@, r)]
         /\ open' = [open EXCEPT ![n.fd] = Free]
         /\ clients' = remove_client(clients, n.fd)
  /\ UNCHANGED <<browsers, queries, query_index, coming, serving, asked, status,
                 starts, foreign, before>>

\* The browser has gone, and send raises SIGPIPE.
SendFails ==
  /\ running /\ serving # Idle
  /\ Waiting(clients, serving[1]) # {}
  /\ open[find_client(clients, serving[1]).fd] \in left
  /\ Crash

AllAnswered ==
  /\ running /\ serving # Idle
  /\ Waiting(clients, serving[1]) = {}
  /\ serving' = Idle
  /\ UNCHANGED <<browsers, tables, coming, asked, got, status, starts, foreign, before>>

\* What another station has asked comes by: the handler edits it and sends it
\* on (module Relay), and select starts its 15 seconds anew.
PassOn ==
  /\ running /\ serving = Idle
  /\ foreign /\ foreign' = FALSE
  /\ UNCHANGED <<browsers, tables, coming, serving, asked, got, status, starts, before>>

\* Control-C: signal_handler closes the sockets and exits.
Interrupt ==
  /\ running
  /\ status' = "interrupted"
  /\ UNCHANGED <<browsers, tables, coming, serving, asked, got, starts, foreign, before>>

\* The station is started again, with empty tables.  Its connections are
\* gone; answers to what it asked before may still be under way.
Restart ==
  /\ ~ running /\ starts < MaxStarts
  /\ starts' = starts + 1
  /\ status' = "running"
  /\ open' = [fd \in Fd |-> Free] /\ clients' = <<>>
  /\ queries' = [i \in 0..MAX_QUERIES - 1 |-> None] /\ query_index' = 0
  /\ serving' = Idle
  /\ backlog' = {}
  /\ left' = {c \in Conn : request[c] # NotSent} /\ before' = left'
  /\ foreign' = FALSE
  /\ asked' = [c \in Conn |-> IF got[c] = <<>> THEN None ELSE asked[c]]
  /\ UNCHANGED <<request, coming, got>>

-----------------------------------------------------------------------------
(* Browsers and other stations *)

Connect(c) ==
  /\ running /\ request[c] = NotSent
  /\ \E r \in Requests : request' = [request EXCEPT ![c] = r]
  /\ backlog' = backlog \cup {c}
  /\ UNCHANGED <<left, tables, coming, serving, asked, got, status, starts, foreign, before>>

Leave(c) ==
  /\ MayLeave /\ request[c] # NotSent /\ c \notin left
  /\ left' = left \cup {c}
  /\ UNCHANGED <<request, backlog, tables, coming, serving, asked,
                 got, status, starts, foreign, before>>

Disturb ==
  /\ MayDisturb /\ running
  /\ ~ foreign /\ foreign' = TRUE
  /\ UNCHANGED <<browsers, tables, coming, serving, asked, got, status, starts, before>>

Init ==
  /\ request = [c \in Conn |-> NotSent] /\ backlog = {} /\ left = {}
  /\ open = [fd \in Fd |-> Free] /\ clients = <<>>
  /\ queries = [i \in 0..MAX_QUERIES - 1 |-> None] /\ query_index = 0
  /\ coming = [q \in Query |-> 0] /\ serving = Idle
  /\ asked = [c \in Conn |-> None] /\ got = [c \in Conn |-> <<>>]
  /\ status = "running" /\ starts = 0 /\ foreign = FALSE /\ before = {}

Answers(q) == \E a \in Arrival : Finish(q, a)

Next ==
  \/ \E c \in Conn : \/ Connect(c) \/ Leave(c)
                     \/ Ignore(c) \/ Register(c) \/ RegisterFails(c)
  \/ \E q \in Query : Answers(q) \/ FinishUnrecorded(q) \/ LoadMangled(q)
  \/ Timeout \/ SendAnswer \/ SendFails \/ AllAnswered
  \/ PassOn \/ Disturb \/ Interrupt \/ Restart

Spec == Init /\ [][Next]_vars

(***************************************************************************)
(* The loop of main.c never blocks but in select, which returns for every  *)
(* connection and datagram, and otherwise after 15 seconds.  As those      *)
(* start anew with every datagram of another station, Timeout may never    *)
(* come: it is enabled only between two of them.  That a flood comes back  *)
(* is what ClientsAreAnswered of module Relay says.                        *)
(***************************************************************************)
Fairness ==
  /\ \A c \in Conn : WF_vars(Register(c)) /\ WF_vars(Ignore(c))
  /\ \A q \in Query : WF_vars(Answers(q))
  /\ WF_vars(Timeout) /\ WF_vars(PassOn)
  /\ WF_vars(SendAnswer) /\ WF_vars(AllAnswered)

FairSpec == Spec /\ Fairness

-----------------------------------------------------------------------------
(* Properties *)

\* Types of the tables, and of what the browsers ask and get.
TypeOK ==
  /\ request \in [Conn -> Requests \cup {NotSent}]
  /\ backlog \subseteq Conn /\ left \subseteq Conn
  /\ open \in [Fd -> Conn \cup {Free}]
  /\ clients \in Seq(Node)
  /\ queries \in [0..MAX_QUERIES - 1 -> Query \cup {None}]
  /\ query_index \in 0..MAX_QUERIES - 1
  /\ coming \in [Query -> 0..Copies]
  /\ serving = Idle \/ serving \in Query \X Arrival
  /\ asked \in [Conn -> Query \cup {None}]
  /\ got \in [Conn -> Seq([query : Query, arrival : Arrival])]
  /\ status \in {"running", "interrupted", "crashed"}
  /\ starts \in 0..MaxStarts
  /\ foreign \in BOOLEAN /\ before \subseteq Conn

(***************************************************************************)
(* The list never has a stale descriptor, although accept hands out the    *)
(* numbers again: each node has an open descriptor of its own, and the     *)
(* connection behind it has asked for the query of the node and has had    *)
(* no answer.  So the timeout handler never removes the node it stands on. *)
(***************************************************************************)
ListIsSound ==
  \A i \in 1..Len(clients) :
    /\ \A j \in 1..Len(clients) : clients[i].fd = clients[j].fd => i = j
    /\ open[clients[i].fd] \in Conn
    /\ asked[open[clients[i].fd]] = clients[i].query
    /\ got[open[clients[i].fd]] = <<>>

(***************************************************************************)
(* Nothing but an ignored request costs a descriptor: every one that is    *)
(* open belongs to a client in the list or to a connection whose request   *)
(* made no sense.                                                          *)
(***************************************************************************)
DescriptorsAreAccounted ==
  \A fd \in Fd : open[fd] # Free =>
    (\E n \in Nodes : n.fd = fd) \/ request[open[fd]] = Nonsense

\* search_query finds what add_query wrote: no query is in the ring twice.
RingHasNoDuplicates ==
  \A i, j \in DOMAIN queries :
    queries[i] = queries[j] /\ queries[i] # None => i = j

(***************************************************************************)
(* The tables implement the promise of module Desk: a connection gets at   *)
(* most one answer, and it is an answer to what that connection asked.     *)
(***************************************************************************)
Promise == INSTANCE Desk
PromiseIsKept == Promise!Spec

\* The queries that the process which runs has in its list, or has had.
Mine == {asked[c] : c \in Conn \ before} \ {None}

(***************************************************************************)
(* What kills the process, whichever start it is: a browser that has gone  *)
(* while it was to be accepted or waited; a request without a time, at     *)
(* accept or by its flood; or an answer to a query that the ring does not  *)
(* have.  And that is a query of a process before it, or this one has      *)
(* itself been asked more queries than the ring has entries.               *)
(***************************************************************************)
CrashHasACause ==
  [][status # "crashed" /\ status' = "crashed" =>
       \/ \E c \in left : c \in backlog \/ \E fd \in Fd : open[fd] = c
       \/ \E c \in Conn : /\ request[c].time = Absent /\ request[c] # NotSent
                          /\ c \in backlog \/ coming[Parsed(request[c])] > 0
       \/ \E q \in Query : /\ coming[q] > 0 /\ ~ Recorded(q)
                           /\ \/ \E c \in before : Parsed(request[c]) = q
                              \/ Cardinality(Mine) > MAX_QUERIES]_vars

(***************************************************************************)
(* Whoever asks for a station that can be reached, and stays, gets an      *)
(* answer, unless the process ends first.  There are two conditions.  The  *)
(* queries of other stations must pause in the end, as select never times  *)
(* out otherwise (UnansweredAreFlooded of module Relay).  And the ignored  *)
(* connections and the waiting clients must not come to hold every         *)
(* descriptor: then talk_to has none to flood with, nobody is answered,    *)
(* and none is ever given back.                                            *)
(***************************************************************************)
ClientsAreServed ==
  <>[](~ foreign /\ \E fd \in Fd : open[fd] = Free) =>
    \A c \in Conn :
      request[c] \in Request /\ request[c].time # Absent
        ~> got[c] # <<>> \/ c \in left \/ ~ running

(***************************************************************************)
(* "update if its faster route (time)": an answer is never slower than an  *)
(* answer that was given to the same query before.                         *)
(***************************************************************************)
FastestIsKept ==
  [][\A c, d \in Conn :
       got'[c] # got[c] /\ got[d] # <<>> /\ asked[c] = asked[d]
         => got'[c][1].arrival <= got[d][1].arrival]_vars
=============================================================================
