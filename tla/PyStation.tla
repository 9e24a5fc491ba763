------------------------------ MODULE PyStation ------------------------------
(***************************************************************************)
(* How a station of server.py keeps its browsers: the loop of run_server   *)
(* over its ClientList and its QueryManager.  It differs from the station  *)
(* of main.c (module Clients) in that answers are stored with the queries, *)
(* a request is flooded at once, an answer goes to one client at a time,   *)
(* and the handlers share local variables: message is the last payload     *)
(* that any of them has built, client_socket the last connection accepted. *)
(*                                                                         *)
(* A node of the list refers to a socket object, so there are no numbers   *)
(* to be reused.  What the other stations do is reduced, as in module      *)
(* Clients, to the answers that are under way to each query.               *)
(***************************************************************************)
EXTENDS Integers, Sequences, FiniteSets

CONSTANTS
  Conn,         \* browser connections, each used for one request
  Query,        \* what may be asked for: a destination and a time
  BadTime,      \* the queries whose time is not two numbers
  Arrival,      \* the arrival times that answers may give
  max_queries,  \* queries the QueryManager keeps
  Copies,       \* bound: answers to one query that may be under way
  MaxStarts,    \* bound: how often the station is started again
  MayLeave      \* browsers may close their connection at any time

Nonsense == "nonsense"   \* a request that parse_query makes nothing of
NotSent  == "not sent"   \* not connected yet
Nobody   == "nobody"     \* no connection accepted yet
Nothing  == -1           \* no answer, in a query and in a payload
Foreign  == "foreign"    \* a query of another station
Unbound  == "unbound"    \* the variable message before its first assignment

ASSUME PyAssumption ==
  /\ max_queries \in Nat \ {0} /\ Copies \in Nat \ {0} /\ MaxStarts \in Nat
  /\ Arrival \subseteq Nat /\ BadTime \subseteq Query
  /\ {Nonsense, NotSent, Foreign, Unbound} \cap Query = {}
  /\ MayLeave \in BOOLEAN

(***************************************************************************)
(* A payload as a browser would see it: the query it is about, and when    *)
(* one arrives, if it is complete.                                         *)
(***************************************************************************)
Text == [query : Query \cup {Foreign}, arrival : Arrival \cup {Nothing}]

VARIABLES
  request,        \* what each browser has sent
  pending,        \* connections that wait for accept
  left,           \* browsers that have closed their end
  closed,         \* sockets that the station has closed
  clients,        \* the ClientList, from head on
  queries,        \* the QueryManager's list, with the answers
  message,        \* the local variable of run_server
  client_socket,  \* the local variable of run_server
  coming,         \* answers under way to each query
  got,            \* what was sent to each connection, whether it had been in
                  \* the list, and after how many starts (history)
  status,         \* running, hung, crashed or interrupted
  starts,         \* how often it has been started again
  before          \* the connections of the processes before (history)

browsers == <<request, pending, left>>
memory   == <<clients, queries, message, client_socket>>
vars     == <<browsers, closed, memory, coming, got, status, starts, before>>

running == status = "running"

-----------------------------------------------------------------------------
(* ClientList and QueryManager *)

Least(S) == CHOOSE i \in S : \A j \in S : i <= j

add_client(c, q) == <<[fd |-> c, query |-> q]>> \o clients

Waiting(q) == {i \in 1..Len(clients) : clients[i].query = q}

\* Mutant: the client asked last is taken for the one.
find_client_last(q) == clients[1]

find_client(q) == clients[Least(Waiting(q))]

\* Mutant: what is behind the removed node is lost.
remove_client_cut(c) ==
  LET i == CHOOSE i \in 1..Len(clients) : clients[i].fd = c
  IN  <<clients[1]>> \o SubSeq(clients, 2, i - 1)

\* The node of c (a socket has one at most) is unlinked if it is behind the
\* head; the head has no predecessor and stays.
remove_client(c) ==
  LET found == {i \in 2..Len(clients) : clients[i].fd = c}
  IN  IF found = {} THEN clients
      ELSE [i \in 1..Len(clients) - 1 |->
              IF i < Least(found) THEN clients[i] ELSE clients[i + 1]]

\* Where q is in the list of queries: {} or one position.
Found(q) == {i \in 1..Len(queries) : queries[i].query = q}

search_query(q) == queries[Least(Found(q))]

\* Mutant: the list is full one query too early.
add_query_early(list, q) ==
  IF Len(list) < max_queries - 1
  THEN Append(list, [query |-> q, answers |-> Nothing]) ELSE list

\* Mutant: the length of the list is not checked.
add_query_always(list, q) == Append(list, [query |-> q, answers |-> Nothing])

\* A full list stays as it is.
add_query(list, q) ==
  IF Len(list) < max_queries
  THEN Append(list, [query |-> q, answers |-> Nothing]) ELSE list

-----------------------------------------------------------------------------
(* The TCP handler *)

\* Sockets that nothing refers to any more are closed by Python; here they
\* are just never used again.
Accepts(c) ==
  /\ running /\ c \in pending
  /\ pending' = pending \ {c}
  /\ client_socket' = c

\* A payload with nothing in it but the query, and its flood.
Init_payload(q) == [query |-> q, arrival |-> Nothing]
Flood(q) == coming' = [coming EXCEPT ![q] = Copies]

\* There is no query in it, or nothing at all.
Ignore(c) ==
  /\ Accepts(c)
  /\ request[c] = Nonsense \/ c \in left
  /\ UNCHANGED <<request, left, closed, clients, queries, message, coming,
                 got, status, starts, before>>

\* recv fails, on a connection that was reset or within the second and a half
\* that the listening socket gives its connections; or the data is no text.
Drop(c) ==
  /\ Accepts(c)
  /\ closed' = closed \cup {c}
  /\ UNCHANGED <<request, left, clients, queries, message, coming, got,
                 status, starts, before>>

\* A query that has no answer yet, asked before or not.
Ask(c) ==
  LET q == request[c]
  IN  /\ Accepts(c)
      /\ q \in Query
      /\ Found(q) # {} => search_query(q).answers = Nothing
      /\ clients' = add_client(c, q)
      /\ queries' = IF Found(q) = {} THEN add_query(queries, q) ELSE queries
      /\ message' = Init_payload(q)
      /\ Flood(q)
      /\ UNCHANGED <<request, left, closed, got, status, starts, before>>

\* What c is sent, unless its socket is closed or its browser has gone.
Send(c, m, listed) ==
  got' = IF c \in closed \cup left THEN got
         ELSE [got EXCEPT ![c] = Append(@, [text |-> m, listed |-> listed,
                                            life |-> starts])]

\* A query with an answer: the browser gets message, which is the last
\* payload that was built, and not the answer.
Repeat(c) ==
  LET q == request[c]
  IN  /\ Accepts(c)
      /\ q \in Query /\ Found(q) # {}
      /\ search_query(q).answers # Nothing
      /\ Send(c, message, FALSE)
      /\ closed' = closed \cup {c}
      /\ UNCHANGED <<request, left, clients, queries, message, coming,
                     status, starts, before>>

-----------------------------------------------------------------------------
(* The UDP handler *)

\* Mutant: the newest answer is stored, slower or not.
BetterNewest(old, a) == a

\* The answer to keep, of the one stored and a new one.
Better(old, a) == IF old = Nothing \/ old > a THEN a ELSE old

\* An answer comes back to the station that asked (found = 4).
Finish(q, a) ==
  /\ running /\ coming[q] > 0 /\ q \notin BadTime
  /\ Found(q) # {}
  /\ LET best == Better(search_query(q).answers, a)
     IN  /\ queries' = [queries EXCEPT ![Least(Found(q))].answers = best]
         /\ IF Waiting(q) = {} THEN UNCHANGED <<clients, closed, got>>
            ELSE LET c == find_client(q).fd
                 IN  /\ Send(c, [query |-> q, arrival |-> best], TRUE)
                     /\ clients' = remove_client(c)
                     /\ closed' = closed \cup {c}
  /\ message' = [query |-> q, arrival |-> a]
  /\ coming' = [coming EXCEPT ![q] = @ - 1]
  /\ UNCHANGED <<browsers, client_socket, status, starts, before>>

(***************************************************************************)
(* An exception that nobody catches: search_query finds no such query, and *)
(* target_query.answers is read; or the payload is back at the source to   *)
(* be annotated, and time_to_minutes cannot read the starting time.        *)
(***************************************************************************)
FinishFails(q) ==
  /\ running /\ coming[q] > 0
  /\ Found(q) = {} \/ q \in BadTime
  /\ status' = "crashed"
  /\ UNCHANGED <<browsers, closed, memory, coming, got, starts, before>>

\* All the other payloads are passed on; they only leave message behind.  Those
\* that are complete are on their way to another station.
PassOn ==
  /\ running
  /\ \E m \in Text : (m.query = Foreign \/ m.arrival = Nothing) /\ message' = m
  /\ UNCHANGED <<browsers, closed, clients, queries, client_socket, coming,
                 got, status, starts, before>>

\* A datagram is lost.
Lose(q) ==
  /\ coming[q] > 0
  /\ coming' = [coming EXCEPT ![q] = @ - 1]
  /\ UNCHANGED <<browsers, closed, memory, got, status, starts, before>>

-----------------------------------------------------------------------------
(* The timeout handler *)

(***************************************************************************)
(* select reports nothing for 15 seconds.  If somebody is in the list, the *)
(* loop over it never goes on from the head: current is not assigned in    *)
(* it.  The head is served, if its answer is there and the socket accepted *)
(* last (not its own) is open, or flooded for, again and again.  A query   *)
(* that found no room in the list of queries finds none now either.        *)
(***************************************************************************)
Timeout ==
  /\ running /\ pending = {} /\ clients # <<>>
  /\ LET n == clients[1]
         a == IF Found(n.query) = {} THEN Nothing
              ELSE search_query(n.query).answers
     IN  /\ queries' = IF Found(n.query) = {} THEN add_query(queries, n.query)
                       ELSE queries
         /\ IF a # Nothing
            THEN /\ IF client_socket \in closed THEN UNCHANGED got
                    ELSE Send(n.fd, [query |-> n.query, arrival |-> a], TRUE)
                 /\ closed' = closed \cup {n.fd}
                 /\ UNCHANGED <<message, coming>>
            ELSE /\ message' = Init_payload(n.query)
                 /\ Flood(n.query)
                 /\ UNCHANGED <<closed, got>>
  /\ status' = "hung"
  /\ UNCHANGED <<browsers, clients, client_socket, starts, before>>

-----------------------------------------------------------------------------
(* Control-C and a new start; browsers *)

Interrupt ==
  /\ status \in {"running", "hung"}
  /\ status' = "interrupted"
  /\ UNCHANGED <<browsers, closed, memory, coming, got, starts, before>>

\* The station is started again.  Its connections are gone; answers to what
\* it asked before may still be under way.
Restart ==
  /\ status \in {"crashed", "interrupted"} /\ starts < MaxStarts
  /\ starts' = starts + 1
  /\ status' = "running"
  /\ clients' = <<>> /\ queries' = <<>>
  /\ message' = Init_payload(Unbound) /\ client_socket' = Nobody
  /\ pending' = {}
  /\ closed' = {c \in Conn : request[c] # NotSent} /\ before' = closed'
  /\ UNCHANGED <<request, left, coming, got>>

Connect(c) ==
  /\ request[c] = NotSent /\ running
  /\ \E r \in Query \cup {Nonsense} : request' = [request EXCEPT ![c] = r]
  /\ pending' = pending \cup {c}
  /\ UNCHANGED <<left, closed, memory, coming, got, status, starts, before>>

Leave(c) ==
  /\ MayLeave /\ request[c] # NotSent /\ c \notin left
  /\ left' = left \cup {c}
  /\ UNCHANGED <<request, pending, closed, memory, coming, got, status, starts, before>>

Init ==
  /\ request = [c \in Conn |-> NotSent] /\ pending = {} /\ left = {}
  /\ closed = {} /\ clients = <<>> /\ queries = <<>>
  /\ message = Init_payload(Unbound) /\ client_socket = Nobody
  /\ coming = [q \in Query |-> 0] /\ got = [c \in Conn |-> <<>>]
  /\ status = "running" /\ starts = 0 /\ before = {}

Answers(q) == \E a \in Arrival : Finish(q, a)

Next ==
  \/ \E c \in Conn : \/ Connect(c) \/ Leave(c)
                     \/ Ignore(c) \/ Drop(c) \/ Ask(c) \/ Repeat(c)
  \/ \E q \in Query : Answers(q) \/ FinishFails(q) \/ Lose(q)
  \/ PassOn \/ Timeout \/ Interrupt \/ Restart

Spec == Init /\ [][Next]_vars

\* select returns for whatever arrives, and otherwise after 15 seconds.
Fairness ==
  /\ \A c \in Conn : WF_vars(Ask(c) \/ Repeat(c) \/ Drop(c) \/ Ignore(c))
  /\ \A q \in Query : WF_vars(Answers(q) \/ FinishFails(q))
  /\ WF_vars(Timeout)

FairSpec == Spec /\ Fairness

-----------------------------------------------------------------------------
(* Properties *)

\* The variables have their types; the QueryManager never keeps more queries
\* than max_queries, however often something is asked or answered.
TypeOK ==
  /\ request \in [Conn -> Query \cup {Nonsense, NotSent}]
  /\ pending \subseteq Conn /\ left \subseteq Conn /\ closed \subseteq Conn
  /\ clients \in Seq([fd : Conn, query : Query])
  /\ queries \in Seq([query : Query, answers : Arrival \cup {Nothing}])
  /\ Len(queries) <= max_queries
  /\ message \in Text \cup {Init_payload(Unbound)}
  /\ client_socket \in Conn \cup {Nobody}
  /\ coming \in [Query -> 0..Copies]
  /\ got \in [Conn -> Seq([text : Text, listed : BOOLEAN, life : 0..MaxStarts])]
  /\ status \in {"running", "hung", "crashed", "interrupted"}
  /\ starts \in 0..MaxStarts /\ before \subseteq Conn

(***************************************************************************)
(* Although remove_client leaves closed sockets in the list, no connection *)
(* gets two answers, and whoever had to wait gets a complete one, to what  *)
(* it asked.  (Who asks what has been answered before gets message.)       *)
(***************************************************************************)
WaitersGetTheirAnswer ==
  \A c \in Conn :
    /\ Len(got[c]) <= 1
    /\ \A i \in 1..Len(got[c]) : got[c][i].listed =>
         got[c][i].text.query = request[c] /\ got[c][i].text.arrival \in Arrival

(***************************************************************************)
(* Nobody who waits is forgotten, although nodes are only ever unlinked    *)
(* behind the head: every connection that has asked a query, and is open   *)
(* and without an answer, is in the list.                                  *)
(***************************************************************************)
NobodyIsForgotten ==
  \A c \in Conn :
    /\ request[c] \in Query /\ c \notin pending \cup closed \cup left
    /\ status \in {"running", "hung"}
    => \E i \in 1..Len(clients) : clients[i] = [fd |-> c, query |-> request[c]]

(***************************************************************************)
(* Of the answers to one query the fastest is kept: among those who had to *)
(* wait, nobody gets a slower one than somebody got before, until the      *)
(* station is started again.  (The station of main.c does not do that.)    *)
(***************************************************************************)
FastestIsKept ==
  [][\A c, d \in Conn :
       got'[c] # got[c] /\ got[d] # <<>> /\ request[c] = request[d] =>
         \/ ~ got'[c][1].listed \/ ~ got[d][1].listed
         \/ got[d][1].life # starts
         \/ got'[c][1].text.arrival <= got[d][1].text.arrival]_vars

\* What the connections in C have asked for.
AskedBy(C) == {request[c] : c \in C} \cap Query

(***************************************************************************)
(* The process only dies of a time it cannot read, or of an answer that it *)
(* knows no query for; and that is an answer to a query of a process       *)
(* before it, or it has itself been asked more queries than it keeps.      *)
(***************************************************************************)
CrashHasACause ==
  [][status # "crashed" /\ status' = "crashed" =>
       \E q \in Query :
         /\ coming[q] > 0
         /\ \/ q \in BadTime
            \/ /\ Found(q) = {}
               /\ \/ q \in AskedBy(before)
                  \/ Cardinality(AskedBy(Conn \ before)) > max_queries]_vars

(***************************************************************************)
(* What README.md says of the timeouts: a client that waits is answered,   *)
(* or its query is flooded again, so that it gets its answer in the end.   *)
(***************************************************************************)
WaitersAreServed ==
  \A c \in Conn :
    c \in {clients[i].fd : i \in 1..Len(clients)} \ left
      ~> got[c] # <<>> \/ c \in left \/ status \in {"crashed", "interrupted"}
=============================================================================
