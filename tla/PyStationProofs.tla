-------------------------- MODULE PyStationProofs ---------------------------
(***************************************************************************)
(* Theorems about module PyStation, for any number of browsers, queries,   *)
(* answers and restarts.                                                   *)
(***************************************************************************)
EXTENDS PyStation, NatLemmas, FiniteSetTheorems

Client == [fd : Conn, query : Query]
Stored == [query : Query, answers : Arrival \cup {Nothing}]

-----------------------------------------------------------------------------
(* The lists *)

\* The least element of a set of natural numbers is one of it.
LEMMA LeastIsIn ==
  ASSUME NEW S \in SUBSET Nat, S # {}
  PROVE  Least(S) \in S
<1>1. \E i \in S : \A j \in S : i <= j
  BY LeastNatural
<1>2. QED
  BY <1>1 DEF Least

\* A node of the list: where it comes from is one of the old positions.
LEMMA RemoveClient ==
  ASSUME clients \in Seq(Client), NEW c
  PROVE  LET r == remove_client(c)
         IN  /\ r \in Seq(Client)
             /\ \A i \in 1..Len(r) : \E j \in 1..Len(clients) : r[i] = clients[j]
             /\ \A j \in 1..Len(clients) : clients[j].fd # c =>
                  \E i \in 1..Len(r) : r[i] = clients[j]
<1> DEFINE found == {i \in 2..Len(clients) : clients[i].fd = c}
           k == Least(found)
           r == [i \in 1..Len(clients) - 1 |-> IF i < k THEN clients[i] ELSE clients[i + 1]]
<1>1. CASE found = {}
  BY <1>1 DEF remove_client
<1>2. CASE found # {}
  <2>1. k \in found
    <3>1. found \in SUBSET Nat
      OBVIOUS
    <3> HIDE DEF found
    <3>2. QED
      BY <1>2, <3>1, LeastIsIn
  <2>2. remove_client(c) = r
    BY <1>2 DEF remove_client
  <2>3. k \in 2..Len(clients) /\ clients[k].fd = c /\ Len(clients) \in Nat
    BY <2>1
  <2> HIDE DEF k, found
  <2>4. \A i \in 1..Len(clients) - 1 : i \in 1..Len(clients) /\ i + 1 \in 1..Len(clients)
    BY <2>3
  <2>5. r \in Seq(Client) /\ Len(r) = Len(clients) - 1
    BY <2>3, <2>4
  <2>6. \A i \in 1..Len(r) : \E j \in 1..Len(clients) : r[i] = clients[j]
    BY <2>3, <2>4, <2>5
  <2>7. ASSUME NEW j \in 1..Len(clients), clients[j].fd # c
        PROVE  \E i \in 1..Len(r) : r[i] = clients[j]
    <3>1. CASE j < k
      <4>1. j \in 1..Len(r) /\ r[j] = clients[j]
        BY <2>3, <2>5, <3>1
      <4>2. QED
        BY <4>1
    <3>2. CASE j > k
      <4>1. j - 1 \in 1..Len(r) /\ r[j - 1] = clients[j]
        BY <2>3, <2>5, <3>2
      <4>2. QED
        BY <4>1
    <3>3. j < k \/ j > k
      BY <2>3, <2>7
    <3>4. QED
      BY <3>1, <3>2, <3>3, Zenon
  <2>8. QED
    BY <2>2, <2>5, <2>6, <2>7
<1>3. QED
  BY <1>1, <1>2

\* find_client returns a node that waits for the query.
LEMMA FindClient ==
  ASSUME NEW q, Waiting(q) # {}
  PROVE  \E k \in 1..Len(clients) : find_client(q) = clients[k] /\ clients[k].query = q
<1>1. Waiting(q) \in SUBSET Nat
  BY DEF Waiting
<1>2. Least(Waiting(q)) \in Waiting(q)
  BY <1>1, LeastIsIn
<1>3. QED
  BY <1>2 DEF find_client, Waiting

\* search_query returns a query of the list.
LEMMA SearchQuery ==
  ASSUME NEW q, Found(q) # {}
  PROVE  /\ Least(Found(q)) \in 1..Len(queries)
         /\ queries[Least(Found(q))].query = q
         /\ search_query(q) = queries[Least(Found(q))]
<1>1. Found(q) \in SUBSET Nat
  BY DEF Found
<1>2. Least(Found(q)) \in Found(q)
  BY <1>1, LeastIsIn
<1>3. QED
  BY <1>2 DEF search_query, Found

\* add_client puts the node in front of the others.
LEMMA AddClient ==
  ASSUME clients \in Seq(Client), NEW c \in Conn, NEW q \in Query
  PROVE  LET r == add_client(c, q)
         IN  /\ r \in Seq(Client) /\ Len(r) = Len(clients) + 1
             /\ r[1] = [fd |-> c, query |-> q]
             /\ \A i \in 1..Len(clients) : r[i + 1] = clients[i]
<1> DEFINE n == [fd |-> c, query |-> q]
<1>1. n \in Client
  BY DEF Client
<1> HIDE DEF n
<1>2. <<n>> \o clients \in Seq(Client) /\ Len(<<n>> \o clients) = Len(clients) + 1
  BY <1>1
<1>3. (<<n>> \o clients)[1] = n /\ \A i \in 1..Len(clients) : (<<n>> \o clients)[i + 1] = clients[i]
  BY <1>1
<1>4. QED
  BY <1>2, <1>3 DEF add_client, n

\* add_query appends the query, or leaves a full list alone.
LEMMA AddQuery ==
  ASSUME queries \in Seq(Stored), Len(queries) <= max_queries, NEW q \in Query
  PROVE  LET r == add_query(queries, q)
         IN  /\ r \in Seq(Stored) /\ Len(r) <= max_queries
             /\ \/ r = queries /\ Len(queries) = max_queries
                \/ /\ Len(r) = Len(queries) + 1
                   /\ r[Len(r)] = [query |-> q, answers |-> Nothing]
             /\ \A i \in 1..Len(queries) : i \in 1..Len(r) /\ r[i] = queries[i]
<1> DEFINE n == [query |-> q, answers |-> Nothing]
<1>1. n \in Stored
  BY DEF Stored
<1>2. max_queries \in Nat
  BY PyAssumption
<1> HIDE DEF n
<1>3. Len(queries) < max_queries => add_query(queries, q) = Append(queries, n)
  BY DEF add_query, n
<1>4. ~ (Len(queries) < max_queries) => add_query(queries, q) = queries
  BY DEF add_query
<1>5. QED
  BY <1>1, <1>2, <1>3, <1>4 DEF n

-----------------------------------------------------------------------------
(* Types *)

Sent == [text : Text, listed : BOOLEAN, life : 0..MaxStarts]

\* run_server reads message only after it was assigned.
MessageIsBound == clients # <<>> \/ queries # <<>> => message \in Text

TypeInv == TypeOK /\ MessageIsBound

\* What Send does: a connection that is open at both ends gets one text more,
\* and nobody else gets anything.
LEMMA SendFacts ==
  ASSUME TypeOK, NEW c \in Conn, NEW m \in Text, NEW l \in BOOLEAN, Send(c, m, l)
  PROVE  /\ got' \in [Conn -> Seq(Sent)]
         /\ \A d \in Conn : d # c => got'[d] = got[d]
         /\ c \in closed \cup left => got' = got
         /\ c \notin closed \cup left =>
              got'[c] = Append(got[c], [text |-> m, listed |-> l, life |-> starts])
<1> DEFINE n == [text |-> m, listed |-> l, life |-> starts]
<1>1. n \in Sent
  BY DEF Sent, TypeOK
<1>2. got \in [Conn -> Seq(Sent)]
  BY DEF TypeOK, Sent
<1>3. got' = IF c \in closed \cup left THEN got ELSE [got EXCEPT ![c] = Append(@, n)]
  BY DEF Send
<1> HIDE DEF n
<1>4. Append(got[c], n) \in Seq(Sent)
  BY <1>1, <1>2
<1>5. QED
  BY <1>2, <1>3, <1>4 DEF n

\* The nodes of the lists and what is in them.
LEMMA NodeTypes ==
  ASSUME TypeOK
  PROVE  /\ \A i \in 1..Len(clients) : clients[i].fd \in Conn /\ clients[i].query \in Query
         /\ \A i \in 1..Len(queries) : /\ queries[i] \in Stored
                                       /\ queries[i].query \in Query
                                       /\ queries[i].answers \in Arrival \cup {Nothing}
<1>1. clients \in Seq(Client) /\ queries \in Seq(Stored)
  BY DEF TypeOK, Client, Stored
<1>2. /\ \A i \in 1..Len(clients) : clients[i] \in Client
      /\ \A i \in 1..Len(queries) : queries[i] \in Stored
  BY <1>1
<1>3. QED
  BY <1>2 DEF Client, Stored

\* An empty payload is a text.
LEMMA InitPayloadIsText == \A q \in Query : Init_payload(q) \in Text
BY DEF Init_payload, Text

\* The connections: accept, a browser that comes, one that goes.
LEMMA ConnTypes ==
  ASSUME TypeInv, NEW c \in Conn, Connect(c) \/ Leave(c) \/ Ignore(c) \/ Drop(c)
  PROVE  TypeInv'
<1>1. UNCHANGED <<clients, queries, message, coming, got, status, starts, before>>
  BY DEF Connect, Leave, Ignore, Drop, memory
<1>2. /\ request' \in [Conn -> Query \cup {Nonsense, NotSent}]
      /\ pending' \subseteq Conn /\ left' \subseteq Conn /\ closed' \subseteq Conn
      /\ client_socket' \in Conn \cup {Nobody}
  BY DEF TypeInv, TypeOK, Connect, Leave, Ignore, Drop, Accepts, memory
<1>3. QED
  BY <1>1, <1>2 DEF TypeInv, TypeOK, MessageIsBound

\* A query is asked.
LEMMA AskTypes ==
  ASSUME TypeInv, NEW c \in Conn, Ask(c)
  PROVE  TypeInv'
<1> DEFINE q == request[c]
<1>1. /\ q \in Query /\ clients' = add_client(c, q) /\ message' = Init_payload(q)
      /\ queries' = IF Found(q) = {} THEN add_query(queries, q) ELSE queries
      /\ coming' = [coming EXCEPT ![q] = Copies]
      /\ pending' = pending \ {c} /\ client_socket' = c
      /\ UNCHANGED <<request, left, closed, got, status, starts, before>>
  BY DEF Ask, Accepts, Flood
<1> HIDE DEF q
<1>2. clients \in Seq(Client) /\ queries \in Seq(Stored) /\ Len(queries) <= max_queries
  BY DEF TypeInv, TypeOK, Client, Stored
<1>3. clients' \in Seq(Client)
  BY <1>1, <1>2, AddClient
<1>4. queries' \in Seq(Stored) /\ Len(queries') <= max_queries
  BY <1>1, <1>2, AddQuery
<1>5. message' \in Text
  BY <1>1, InitPayloadIsText
<1>6. coming' \in [Query -> 0..Copies]
  BY <1>1, PyAssumption DEF TypeInv, TypeOK
<1>7. QED
  BY <1>1, <1>3, <1>4, <1>5, <1>6 DEF TypeInv, TypeOK, MessageIsBound, Client, Stored

\* A query is asked again.
LEMMA RepeatTypes ==
  ASSUME TypeInv, NEW c \in Conn, Repeat(c)
  PROVE  TypeInv'
<1> DEFINE q == request[c]
<1>1. /\ Found(q) # {} /\ Send(c, message, FALSE) /\ closed' = closed \cup {c}
      /\ pending' = pending \ {c} /\ client_socket' = c
      /\ UNCHANGED <<request, left, clients, queries, message, coming, status, starts, before>>
  BY DEF Repeat, Accepts
<1>2. message \in Text
  BY <1>1, SearchQuery DEF TypeInv, MessageIsBound, Found
<1>3. got' \in [Conn -> Seq(Sent)]
  BY <1>1, <1>2, SendFacts DEF TypeInv
<1>4. QED
  BY <1>1, <1>3 DEF TypeInv, TypeOK, MessageIsBound, Sent

\* The answer that is kept is an answer.
LEMMA BetterIsArrival ==
  ASSUME NEW old \in Arrival \cup {Nothing}, NEW a \in Arrival
  PROVE  /\ Better(old, a) \in Arrival
         /\ Better(old, a) <= a /\ (old # Nothing => Better(old, a) <= old)
BY PyAssumption DEF Better, Nothing

\* An answer is stored at the position of its query.
LEMMA FinishStores ==
  ASSUME TypeOK, NEW q \in Query, NEW a \in Arrival, Finish(q, a)
  PROVE  LET k    == Least(Found(q))
             best == Better(queries[k].answers, a)
         IN  /\ k \in 1..Len(queries) /\ queries[k].query = q
             /\ best \in Arrival /\ best <= a
             /\ queries[k].answers # Nothing => best <= queries[k].answers
             /\ queries' \in Seq(Stored) /\ Len(queries') = Len(queries)
             /\ queries'[k] = [query |-> q, answers |-> best]
             /\ \A i \in 1..Len(queries) : i # k => queries'[i] = queries[i]
<1> DEFINE k    == Least(Found(q))
           best == Better(queries[k].answers, a)
<1>1. queries \in Seq(Stored)
  BY DEF TypeOK, Stored
<1>2. Found(q) # {}
  BY DEF Finish
<1>3. k \in 1..Len(queries) /\ queries[k].query = q /\ search_query(q) = queries[k]
  BY <1>2, SearchQuery
<1> HIDE DEF k
<1>4. queries' = [queries EXCEPT ![k].answers = best]
  BY <1>3 DEF Finish, k
<1>5. queries[k] \in Stored /\ queries[k].answers \in Arrival \cup {Nothing}
  BY <1>3, NodeTypes
<1>6. /\ best \in Arrival /\ best <= a
      /\ queries[k].answers # Nothing => best <= queries[k].answers
  BY <1>5, BetterIsArrival
<1> HIDE DEF best
<1>7. [query |-> q, answers |-> best] \in Stored
  BY <1>6 DEF Stored
<1>8. [queries[k] EXCEPT !.answers = best] = [query |-> q, answers |-> best]
  BY <1>3, <1>5 DEF Stored
<1>9. queries' = [queries EXCEPT ![k] = [query |-> q, answers |-> best]]
  BY <1>4, <1>8
<1> DEFINE n == [query |-> q, answers |-> best]
<1> HIDE DEF n
<1>10. /\ queries' \in Seq(Stored) /\ Len(queries') = Len(queries)
       /\ queries'[k] = n /\ \A i \in 1..Len(queries) : i # k => queries'[i] = queries[i]
  BY <1>1, <1>3, <1>7, <1>9 DEF n
<1>11. QED
  BY <1>3, <1>6, <1>10 DEF n, k, best

\* Whom an answer goes to, and what is left of the list.
LEMMA FinishServes ==
  ASSUME TypeOK, NEW q \in Query, NEW a \in Arrival, Finish(q, a)
  PROVE  LET best == Better(queries[Least(Found(q))].answers, a)
         IN  \/ UNCHANGED <<clients, closed, got>>
             \/ \E k \in 1..Len(clients) :
                  /\ clients[k].query = q /\ clients[k].fd \in Conn
                  /\ Send(clients[k].fd, [query |-> q, arrival |-> best], TRUE)
                  /\ clients' = remove_client(clients[k].fd)
                  /\ closed' = closed \cup {clients[k].fd}
<1> DEFINE best == Better(queries[Least(Found(q))].answers, a)
<1>1. Found(q) # {}
  BY DEF Finish
<1>2. search_query(q) = queries[Least(Found(q))]
  BY <1>1, SearchQuery
<1>3. CASE Waiting(q) = {}
  BY <1>3 DEF Finish
<1>4. CASE Waiting(q) # {}
  <2>1. PICK k \in 1..Len(clients) : find_client(q) = clients[k] /\ clients[k].query = q
    BY <1>4, FindClient
  <2>2. clients[k].fd \in Conn
    BY NodeTypes
  <2>3. /\ Send(clients[k].fd, [query |-> q, arrival |-> best], TRUE)
        /\ clients' = remove_client(clients[k].fd)
        /\ closed' = closed \cup {clients[k].fd}
    BY <1>2, <1>4, <2>1 DEF Finish
  <2>4. QED
    BY <2>1, <2>2, <2>3
<1>5. QED
  BY <1>3, <1>4

\* An answer comes back.
LEMMA FinishTypes ==
  ASSUME TypeInv, NEW q \in Query, NEW a \in Arrival, Finish(q, a)
  PROVE  TypeInv'
<1> DEFINE best == Better(queries[Least(Found(q))].answers, a)
           m == [query |-> q, arrival |-> best]
<1>1. TypeOK
  BY DEF TypeInv
<1>2. best \in Arrival /\ queries' \in Seq(Stored) /\ Len(queries') = Len(queries)
  BY <1>1, FinishStores
<1>3. m \in Text
  BY <1>2 DEF Text
<1>4. /\ clients' \in Seq(Client) /\ closed' \subseteq Conn
      /\ got' \in [Conn -> Seq(Sent)]
  <2>1. clients \in Seq(Client)
    BY <1>1 DEF TypeOK, Client
  <2>2. CASE UNCHANGED <<clients, closed, got>>
    BY <1>1, <2>2 DEF TypeOK, Client, Sent
  <2>3. ASSUME NEW k \in 1..Len(clients), clients[k].fd \in Conn,
               Send(clients[k].fd, m, TRUE),
               clients' = remove_client(clients[k].fd),
               closed' = closed \cup {clients[k].fd}
        PROVE  /\ clients' \in Seq(Client) /\ closed' \subseteq Conn
               /\ got' \in [Conn -> Seq(Sent)]
    <3>1. clients' \in Seq(Client)
      BY <2>1, <2>3, RemoveClient
    <3>2. closed' \subseteq Conn
      BY <1>1, <2>3 DEF TypeOK
    <3>3. got' \in [Conn -> Seq(Sent)]
      BY <1>1, <1>3, <2>3, SendFacts
    <3>4. QED
      BY <3>1, <3>2, <3>3
  <2>4. QED
    BY <1>1, <2>2, <2>3, FinishServes
<1>5. message' \in Text
  BY DEF Finish, Text
<1>6. coming' \in [Query -> 0..Copies]
  <2>1. coming[q] \in 0..Copies /\ coming[q] > 0 /\ Copies \in Nat
    BY <1>1, PyAssumption DEF Finish, TypeOK
  <2>2. coming' = [coming EXCEPT ![q] = coming[q] - 1]
    BY DEF Finish
  <2>3. QED
    BY <1>1, <2>1, <2>2 DEF TypeOK
<1>7. UNCHANGED <<request, pending, left, client_socket, status, starts, before>>
  BY DEF Finish, browsers
<1>8. QED
  BY <1>1, <1>2, <1>4, <1>5, <1>6, <1>7
  DEF TypeInv, TypeOK, MessageIsBound, Client, Stored, Sent

\* The head of the list is served from the store, or flooded for.
LEMMA TimeoutStep ==
  ASSUME TypeOK, Timeout
  PROVE  LET n == clients[1]
         IN  /\ 1 \in 1..Len(clients) /\ n.fd \in Conn /\ n.query \in Query
             /\ UNCHANGED <<request, pending, left, clients, client_socket, starts, before>>
             /\ status = "running" /\ status' = "hung"
             /\ \/ /\ Found(n.query) # {}
                   /\ queries[Least(Found(n.query))].answers \in Arrival
                   /\ \/ UNCHANGED got
                      \/ Send(n.fd, [query |-> n.query,
                                     arrival |-> queries[Least(Found(n.query))].answers], TRUE)
                   /\ closed' = closed \cup {n.fd}
                   /\ queries' = queries /\ UNCHANGED <<message, coming>>
                \/ /\ queries' = IF Found(n.query) = {} THEN add_query(queries, n.query)
                                 ELSE queries
                   /\ message' = Init_payload(n.query)
                   /\ coming' = [coming EXCEPT ![n.query] = Copies]
                   /\ UNCHANGED <<closed, got>>
<1> DEFINE n == clients[1]
           k == Least(Found(n.query))
           a == IF Found(n.query) = {} THEN Nothing ELSE search_query(n.query).answers
<1>1. clients \in Seq(Client) /\ clients # <<>>
  BY DEF TypeOK, Timeout, Client
<1>2. 1 \in 1..Len(clients)
  BY <1>1
<1>3. n.fd \in Conn /\ n.query \in Query
  BY <1>2, NodeTypes
<1>4. /\ UNCHANGED <<request, pending, left, clients, client_socket, starts, before>>
      /\ status = "running" /\ status' = "hung"
      /\ queries' = IF Found(n.query) = {} THEN add_query(queries, n.query) ELSE queries
      /\ IF a # Nothing
         THEN /\ IF client_socket \in closed THEN UNCHANGED got
                 ELSE Send(n.fd, [query |-> n.query, arrival |-> a], TRUE)
              /\ closed' = closed \cup {n.fd}
              /\ UNCHANGED <<message, coming>>
         ELSE /\ message' = Init_payload(n.query)
              /\ coming' = [coming EXCEPT ![n.query] = Copies]
              /\ UNCHANGED <<closed, got>>
  BY DEF Timeout, running, browsers, Flood
<1> HIDE DEF n
<1>5. CASE a = Nothing
  BY <1>2, <1>3, <1>4, <1>5 DEF n
<1>6. CASE a # Nothing
  <2>1. Found(n.query) # {} /\ a = search_query(n.query).answers
    BY <1>6
  <2>2. k \in 1..Len(queries) /\ search_query(n.query) = queries[k]
    BY <2>1, SearchQuery
  <2>3. a = queries[k].answers /\ queries[k].answers \in Arrival
    BY <1>6, <2>1, <2>2, NodeTypes
  <2> HIDE DEF a, k
  <2>4. QED
    BY <1>2, <1>3, <1>4, <1>6, <2>1, <2>3 DEF n, k
<1>7. QED
  BY <1>5, <1>6

\* select times out.
LEMMA TimeoutTypes ==
  ASSUME TypeInv, Timeout
  PROVE  TypeInv'
<1> DEFINE n == clients[1]
           q == n.query
           best == queries[Least(Found(q))].answers
           m == [query |-> q, arrival |-> best]
<1>1. TypeOK
  BY DEF TypeInv
<1>2. /\ n.fd \in Conn /\ q \in Query /\ 1 \in 1..Len(clients)
      /\ UNCHANGED <<request, pending, left, clients, client_socket, starts, before>>
      /\ status' = "hung"
  BY <1>1, TimeoutStep
<1>3. message \in Text
  BY <1>2 DEF TypeInv, MessageIsBound
<1>4. ASSUME best \in Arrival, UNCHANGED got \/ Send(n.fd, m, TRUE),
             closed' = closed \cup {n.fd}, UNCHANGED <<queries, message, coming>>
      PROVE  TypeInv'
  <2>1. m \in Text
    BY <1>2, <1>4 DEF Text
  <2>2. got' \in [Conn -> Seq(Sent)]
    <3>1. CASE UNCHANGED got
      BY <1>1, <3>1 DEF TypeOK, Sent
    <3>2. CASE Send(n.fd, m, TRUE)
      BY <1>1, <1>2, <2>1, <3>2, SendFacts
    <3>3. QED
      BY <1>4, <3>1, <3>2
  <2>3. QED
    BY <1>1, <1>2, <1>3, <1>4, <2>2 DEF TypeInv, TypeOK, MessageIsBound, Sent
<1>5. ASSUME queries' = (IF Found(q) = {} THEN add_query(queries, q) ELSE queries),
             message' = Init_payload(q), coming' = [coming EXCEPT ![q] = Copies],
             UNCHANGED <<closed, got>>
      PROVE  TypeInv'
  <2>1. queries \in Seq(Stored) /\ Len(queries) <= max_queries
    BY <1>1 DEF TypeOK, Stored
  <2>2. queries' \in Seq(Stored) /\ Len(queries') <= max_queries
    BY <1>2, <1>5, <2>1, AddQuery
  <2>3. message' \in Text
    BY <1>2, <1>5, InitPayloadIsText
  <2>4. coming' \in [Query -> 0..Copies]
    BY <1>1, <1>2, <1>5, PyAssumption DEF TypeOK
  <2>5. QED
    BY <1>1, <1>2, <1>5, <2>2, <2>3, <2>4 DEF TypeInv, TypeOK, MessageIsBound, Stored
<1>6. QED
  BY <1>1, <1>4, <1>5, TimeoutStep

\* Everything else.
LEMMA OtherTypes ==
  ASSUME TypeInv,
         \/ \E q \in Query : FinishFails(q) \/ Lose(q)
         \/ PassOn \/ Interrupt \/ Restart \/ UNCHANGED vars
  PROVE  TypeInv'
<1>1. TypeOK
  BY DEF TypeInv
<1>2. ASSUME NEW q \in Query, FinishFails(q) PROVE TypeInv'
  BY <1>2 DEF FinishFails, TypeInv, TypeOK, MessageIsBound, browsers, memory
<1>3. ASSUME NEW q \in Query, Lose(q) PROVE TypeInv'
  <2>1. coming[q] \in 0..Copies /\ coming[q] > 0 /\ Copies \in Nat
    BY <1>1, <1>3, PyAssumption DEF Lose, TypeOK
  <2>2. coming' = [coming EXCEPT ![q] = coming[q] - 1]
    BY <1>3 DEF Lose
  <2>3. coming' \in [Query -> 0..Copies]
    BY <1>1, <2>1, <2>2 DEF TypeOK
  <2>4. QED
    BY <1>3, <2>3 DEF Lose, TypeInv, TypeOK, MessageIsBound, browsers, memory
<1>4. CASE PassOn
  BY <1>4 DEF PassOn, TypeInv, TypeOK, MessageIsBound, browsers
<1>5. CASE Interrupt
  BY <1>5 DEF Interrupt, TypeInv, TypeOK, MessageIsBound, browsers, memory
<1>6. CASE Restart
  <2>1. starts \in 0..MaxStarts /\ starts < MaxStarts /\ MaxStarts \in Nat
    BY <1>1, <1>6, PyAssumption DEF Restart, TypeOK
  <2>2. starts' \in 0..MaxStarts
    BY <1>6, <2>1 DEF Restart
  <2>3. /\ clients' = <<>> /\ queries' = <<>> /\ Len(queries') <= max_queries
        /\ message' = Init_payload(Unbound)
    BY <1>6, PyAssumption DEF Restart
  <2>4. /\ UNCHANGED <<request, left, coming, got>> /\ pending' = {}
        /\ closed' \subseteq Conn /\ before' \subseteq Conn
        /\ client_socket' = Nobody /\ status' = "running"
    BY <1>6 DEF Restart
  <2>5. clients' \in Seq(Client) /\ queries' \in Seq(Stored)
    BY <2>3
  <2>6. closed' \in SUBSET Conn /\ client_socket' \in Conn \cup {Nobody}
    BY <2>4
  <2>7. TypeOK'
    BY <1>1, <2>2, <2>3, <2>4, <2>5, <2>6 DEF TypeOK, Client, Stored
  <2>8. QED
    BY <2>3, <2>7 DEF TypeInv, MessageIsBound
<1>7. CASE UNCHANGED vars
  BY <1>7 DEF TypeInv, TypeOK, MessageIsBound, vars, browsers, memory
<1>8. QED
  BY <1>2, <1>3, <1>4, <1>5, <1>6, <1>7

\* The variables of the Python station keep their types, the QueryManager its
\* limit, and message is never read before it was assigned.
THEOREM PyTypeInvariant == Spec => []TypeInv
<1>1. Init => TypeInv
  BY PyAssumption DEF Init, TypeInv, TypeOK, MessageIsBound
<1>2. TypeInv /\ [Next]_vars => TypeInv'
  BY ConnTypes, AskTypes, RepeatTypes, FinishTypes, TimeoutTypes, OtherTypes
  DEF Next, Answers
<1>3. QED
  BY <1>1, <1>2, PTL DEF Spec

\* The variables have their types, and no more than max_queries are kept.
THEOREM PyTypes == Spec => []TypeOK
<1>1. TypeInv => TypeOK
  BY DEF TypeInv
<1>2. QED
  BY <1>1, PyTypeInvariant, PTL

-----------------------------------------------------------------------------
(* Answers *)

(***************************************************************************)
(* A node of the list has the query of its connection.  A connection that  *)
(* was sent something is closed by the station, and that is why a node     *)
(* that remove_client leaves in the list does no harm.                     *)
(***************************************************************************)
WaitInv ==
  /\ \A c \in pending \cup closed : request[c] # NotSent
  /\ \A i \in 1..Len(clients) : clients[i].query = request[clients[i].fd]
  /\ \A c \in Conn : got[c] # <<>> => c \in closed
  /\ WaitersGetTheirAnswer

\* In this step c gets its first text, and if it was in the list that is the
\* answer in store for its query.
Delivers(c) ==
  /\ got[c] = <<>> /\ c \in closed' /\ request' = request /\ starts' = starts
  /\ \A d \in Conn : d # c => got'[d] = got[d]
  /\ \E n \in Sent :
       /\ got'[c] = <<n>> /\ n.life = starts
       /\ n.listed =>
            /\ n.text.query = request[c] /\ n.text.arrival \in Arrival
            /\ \E k \in 1..Len(queries') : /\ queries'[k].query = request[c]
                                           /\ queries'[k].answers = n.text.arrival

\* Send is a delivery, or does nothing.
LEMMA SendDelivers ==
  ASSUME TypeOK, WaitInv, NEW c \in Conn, NEW m \in Text, NEW l \in BOOLEAN,
         Send(c, m, l), c \in closed', request' = request, starts' = starts,
         l => /\ m.query = request[c] /\ m.arrival \in Arrival
              /\ \E k \in 1..Len(queries') : /\ queries'[k].query = request[c]
                                             /\ queries'[k].answers = m.arrival
  PROVE  got' = got \/ Delivers(c)
<1> DEFINE n == [text |-> m, listed |-> l, life |-> starts]
<1>1. CASE c \in closed \cup left
  BY <1>1, SendFacts
<1>2. CASE c \notin closed \cup left
  <2>1. got[c] = <<>>
    BY <1>2 DEF WaitInv
  <2>2. n \in Sent /\ n.text = m /\ n.listed = l /\ n.life = starts
    BY DEF Sent, TypeOK
  <2>3. got'[c] = Append(got[c], n) /\ \A d \in Conn : d # c => got'[d] = got[d]
    BY <1>2, SendFacts
  <2> HIDE DEF n
  <2>4. got'[c] = <<n>>
    BY <2>1, <2>2, <2>3
  <2>5. QED
    BY <2>1, <2>2, <2>3, <2>4 DEF Delivers
<1>3. QED
  BY <1>1, <1>2

\* In every step one connection is served at most.
LEMMA Deliveries ==
  ASSUME TypeInv, WaitInv, [Next]_vars
  PROVE  got' = got \/ \E c \in Conn : Delivers(c)
<1>1. TypeOK
  BY DEF TypeInv
<1>2. ASSUME NEW c \in Conn, Connect(c) \/ Leave(c) \/ Ignore(c) \/ Drop(c) \/ Ask(c)
      PROVE  got' = got
  BY <1>2 DEF Connect, Leave, Ignore, Drop, Ask
<1>3. ASSUME NEW c \in Conn, Repeat(c) PROVE got' = got \/ Delivers(c)
  <2>1. /\ Found(request[c]) # {} /\ Send(c, message, FALSE) /\ c \in closed'
        /\ request' = request /\ starts' = starts
    BY <1>3 DEF Repeat
  <2>2. message \in Text
    BY <2>1, SearchQuery DEF TypeInv, MessageIsBound, Found
  <2>3. QED
    BY <1>1, <2>1, <2>2, SendDelivers
<1>4. ASSUME NEW q \in Query, NEW a \in Arrival, Finish(q, a)
      PROVE  got' = got \/ \E c \in Conn : Delivers(c)
  <2> DEFINE best == Better(queries[Least(Found(q))].answers, a)
             m == [query |-> q, arrival |-> best]
             k == Least(Found(q))
  <2>1. /\ best \in Arrival /\ k \in 1..Len(queries')
        /\ queries'[k].query = q /\ queries'[k].answers = best
    <3>1. /\ best \in Arrival /\ k \in 1..Len(queries) /\ Len(queries') = Len(queries)
          /\ queries'[k] = [query |-> q, answers |-> best]
      BY <1>1, <1>4, FinishStores, Zenon
    <3> HIDE DEF best, k
    <3>2. QED
      BY <3>1
  <2>2. m \in Text /\ m.query = q /\ m.arrival = best
    BY <2>1 DEF Text
  <2>3. request' = request /\ starts' = starts
    BY <1>4 DEF Finish, browsers
  <2>4. CASE UNCHANGED got
    BY <2>4
  <2>5. ASSUME NEW j \in 1..Len(clients), clients[j].query = q, clients[j].fd \in Conn,
               Send(clients[j].fd, m, TRUE), closed' = closed \cup {clients[j].fd}
        PROVE  got' = got \/ Delivers(clients[j].fd)
    <3> DEFINE c == clients[j].fd
    <3>1. request[c] = q /\ c \in closed' /\ c \in Conn
      BY <2>5 DEF WaitInv
    <3> HIDE DEF c, m, best, k
    <3>2. Send(c, m, TRUE)
      BY <2>5 DEF c
    <3>3. got' = got \/ Delivers(c)
      BY <1>1, <2>1, <2>2, <2>3, <3>1, <3>2, SendDelivers
    <3>4. QED
      BY <3>3 DEF c
  <2> HIDE DEF m, best, k
  <2>6. \/ UNCHANGED got
        \/ \E j \in 1..Len(clients) :
             /\ clients[j].query = q /\ clients[j].fd \in Conn
             /\ Send(clients[j].fd, m, TRUE) /\ closed' = closed \cup {clients[j].fd}
    BY <1>1, <1>4, FinishServes DEF m, best
  <2>7. QED
    BY <2>4, <2>5, <2>6
<1>5. ASSUME Timeout PROVE got' = got \/ \E c \in Conn : Delivers(c)
  <2> DEFINE n == clients[1]
             k == Least(Found(n.query))
             best == queries[k].answers
             m == [query |-> n.query, arrival |-> best]
  <2>1. /\ 1 \in 1..Len(clients) /\ n.fd \in Conn /\ n.query \in Query
        /\ request' = request /\ starts' = starts
    BY <1>1, <1>5, TimeoutStep
  <2>2. n.query = request[n.fd]
    BY <2>1 DEF WaitInv
  <2>3. CASE UNCHANGED got
    BY <2>3
  <2>4. CASE /\ Found(n.query) # {} /\ best \in Arrival
             /\ Send(n.fd, m, TRUE) /\ closed' = closed \cup {n.fd} /\ queries' = queries
    <3>1. m \in Text /\ m.query = n.query /\ m.arrival = best
      BY <2>1, <2>4 DEF Text
    <3>2. /\ k \in 1..Len(queries') /\ queries'[k].query = request[n.fd]
          /\ queries'[k].answers = best
      BY <2>2, <2>4, SearchQuery
    <3> HIDE DEF m, best, k
    <3>3. QED
      BY <1>1, <2>1, <2>2, <2>4, <3>1, <3>2, SendDelivers
  <2>5. \/ UNCHANGED got
        \/ /\ Found(n.query) # {} /\ best \in Arrival
           /\ Send(n.fd, m, TRUE) /\ closed' = closed \cup {n.fd} /\ queries' = queries
    BY <1>1, <1>5, TimeoutStep, Zenon
  <2>6. QED
    BY <2>3, <2>4, <2>5, Zenon
<1>6. ASSUME \/ \E q \in Query : FinishFails(q) \/ Lose(q)
             \/ PassOn \/ Interrupt \/ Restart \/ UNCHANGED vars
      PROVE  got' = got
  BY <1>6 DEF FinishFails, Lose, PassOn, Interrupt, Restart, vars
<1>7. QED
  BY <1>2, <1>3, <1>4, <1>5, <1>6 DEF Next, Answers

\* What is closed stays closed, and what was asked stays as it is.
LEMMA NothingReopens ==
  ASSUME TypeInv, WaitInv, [Next]_vars
  PROVE  /\ closed \subseteq closed'
         /\ \A c \in Conn : request[c] # NotSent => request'[c] = request[c]
<1>1. TypeOK
  BY DEF TypeInv
<1>2. ASSUME NEW c \in Conn, Connect(c)
      PROVE  /\ closed \subseteq closed'
             /\ \A d \in Conn : request[d] # NotSent => request'[d] = request[d]
  <2>1. closed' = closed /\ request[c] = NotSent
    BY <1>2 DEF Connect
  <2>2. \A d \in Conn : d # c => request'[d] = request[d]
    BY <1>1, <1>2 DEF Connect, TypeOK
  <2>3. QED
    BY <2>1, <2>2
<1>3. ASSUME NEW c \in Conn, Leave(c) \/ Ignore(c) \/ Drop(c) \/ Ask(c) \/ Repeat(c)
      PROVE  closed \subseteq closed' /\ request' = request
  BY <1>3 DEF Leave, Ignore, Drop, Ask, Repeat
<1>4. ASSUME NEW q \in Query, NEW a \in Arrival, Finish(q, a)
      PROVE  closed \subseteq closed' /\ request' = request
  <2>1. request' = request
    BY <1>4 DEF Finish, browsers
  <2>2. closed \subseteq closed'
    BY <1>1, <1>4, FinishServes
  <2>3. QED
    BY <2>1, <2>2
<1>5. ASSUME Timeout PROVE closed \subseteq closed' /\ request' = request
  BY <1>1, <1>5, TimeoutStep
<1>6. ASSUME \/ \E q \in Query : FinishFails(q) \/ Lose(q)
             \/ PassOn \/ Interrupt \/ UNCHANGED vars
      PROVE  closed \subseteq closed' /\ request' = request
  BY <1>6 DEF FinishFails, Lose, PassOn, Interrupt, vars, browsers
<1>7. ASSUME Restart PROVE closed \subseteq closed' /\ request' = request
  BY <1>1, <1>7 DEF Restart, WaitInv, TypeOK
<1>8. QED
  BY <1>2, <1>3, <1>4, <1>5, <1>6, <1>7 DEF Next, Answers

\* The connections and nodes of WaitInv.
LEMMA ListStep ==
  ASSUME TypeInv, WaitInv, [Next]_vars
  PROVE  /\ \A c \in (pending \cup closed)' : request'[c] # NotSent
         /\ \A i \in 1..Len(clients') : clients'[i].query = request'[clients'[i].fd]
<1> DEFINE Known == \A c \in (pending \cup closed)' : request'[c] # NotSent
           Agree == \A i \in 1..Len(clients') : clients'[i].query = request'[clients'[i].fd]
<1>1. TypeOK /\ clients \in Seq(Client) /\ pending \subseteq Conn /\ closed \subseteq Conn
  BY DEF TypeInv, TypeOK, Client
<1>2. \A c \in Conn : request[c] # NotSent => request'[c] = request[c]
  BY NothingReopens
<1>3. \A q \in Query : q # NotSent
  BY PyAssumption
<1>4. \A i \in 1..Len(clients) : /\ clients[i].fd \in Conn /\ clients[i].query \in Query
                                 /\ clients[i].query = request[clients[i].fd]
  BY <1>1, NodeTypes DEF WaitInv
<1>5. \A i \in 1..Len(clients) : clients[i].query = request'[clients[i].fd]
  BY <1>2, <1>3, <1>4
<1>6. ASSUME \A c \in (pending \cup closed)' : c \in Conn /\ request[c] # NotSent
      PROVE  Known
  BY <1>2, <1>6
<1>7. ASSUME clients' = clients PROVE Agree
  BY <1>5, <1>7
<1> HIDE DEF Known, Agree
<1>8. ASSUME NEW c \in Conn, Connect(c) PROVE Known /\ Agree
  <2>1. /\ pending' = pending \cup {c} /\ closed' = closed /\ clients' = clients
        /\ \E r \in Query \cup {Nonsense} : request' = [request EXCEPT ![c] = r]
    BY <1>8 DEF Connect, memory
  <2>2. request'[c] # NotSent
    BY <1>1, <1>3, <2>1 DEF TypeOK, Nonsense, NotSent
  <2>3. Known
    BY <1>1, <1>2, <2>1, <2>2 DEF Known, WaitInv
  <2>4. QED
    BY <1>7, <2>1, <2>3
<1>9. ASSUME NEW c \in Conn, Leave(c) \/ Ignore(c) \/ Drop(c) \/ Repeat(c)
      PROVE  Known /\ Agree
  <2>1. /\ clients' = clients
        /\ \A d \in (pending \cup closed)' : d \in pending \cup closed
    BY <1>9 DEF Leave, Ignore, Drop, Repeat, Accepts, memory
  <2>2. QED
    BY <1>1, <1>6, <1>7, <2>1 DEF WaitInv
<1>10. ASSUME NEW c \in Conn, Ask(c) PROVE Known /\ Agree
  <2> DEFINE q == request[c]
  <2>1. /\ q \in Query /\ clients' = add_client(c, q) /\ request' = request
        /\ closed' = closed /\ pending' \subseteq pending
    BY <1>10 DEF Ask, Accepts
  <2> HIDE DEF q
  <2>2. /\ clients' \in Seq(Client) /\ Len(clients') = Len(clients) + 1
        /\ clients'[1] = [fd |-> c, query |-> q]
        /\ \A i \in 1..Len(clients) : clients'[i + 1] = clients[i]
    BY <1>1, <2>1, AddClient
  <2>3. \A i \in 1..Len(clients') : i = 1 \/ (i - 1 \in 1..Len(clients)
                                               /\ clients'[i] = clients[i - 1])
    <3> SUFFICES ASSUME NEW i \in 1..Len(clients'), i # 1
                 PROVE  i - 1 \in 1..Len(clients) /\ clients'[i] = clients[i - 1]
      OBVIOUS
    <3>1. i - 1 \in 1..Len(clients) /\ (i - 1) + 1 = i
      BY <1>1, <2>2
    <3>2. QED
      BY <2>2, <3>1
  <2>4. clients'[1].query = request'[clients'[1].fd]
    BY <2>1, <2>2 DEF q
  <2>5. Agree
    BY <1>5, <2>3, <2>4 DEF Agree
  <2>6. Known
    BY <1>1, <1>6, <2>1 DEF WaitInv
  <2>7. QED
    BY <2>5, <2>6
<1>11. ASSUME NEW q \in Query, NEW a \in Arrival, Finish(q, a) PROVE Known /\ Agree
  <2>1. pending' = pending
    BY <1>11 DEF Finish, browsers
  <2>2. CASE UNCHANGED <<clients, closed, got>>
    BY <1>1, <1>6, <1>7, <2>1, <2>2 DEF WaitInv
  <2>3. ASSUME NEW k \in 1..Len(clients), clients' = remove_client(clients[k].fd),
               closed' = closed \cup {clients[k].fd}
        PROVE  Known /\ Agree
    <3>1. Known
      BY <1>1, <1>3, <1>4, <1>6, <2>1, <2>3 DEF WaitInv
    <3>2. \A i \in 1..Len(clients') : \E j \in 1..Len(clients) : clients'[i] = clients[j]
      BY <1>1, <2>3, RemoveClient
    <3>3. Agree
      BY <1>5, <3>2 DEF Agree
    <3>4. QED
      BY <3>1, <3>3
  <2>4. QED
    BY <1>1, <1>11, <2>2, <2>3, FinishServes
<1>12. ASSUME Timeout PROVE Known /\ Agree
  <2>1. /\ pending' = pending /\ clients' = clients /\ 1 \in 1..Len(clients)
        /\ closed' = closed \/ closed' = closed \cup {clients[1].fd}
    BY <1>1, <1>12, TimeoutStep
  <2>2. QED
    BY <1>1, <1>3, <1>4, <1>6, <1>7, <2>1 DEF WaitInv
<1>13. ASSUME \/ \E q \in Query : FinishFails(q) \/ Lose(q)
              \/ PassOn \/ Interrupt \/ UNCHANGED vars
       PROVE  Known /\ Agree
  <2>1. pending' = pending /\ closed' = closed /\ clients' = clients
    BY <1>13 DEF FinishFails, Lose, PassOn, Interrupt, vars, browsers, memory
  <2>2. QED
    BY <1>1, <1>6, <1>7, <2>1 DEF WaitInv
<1>14. ASSUME Restart PROVE Known /\ Agree
  <2>1. /\ pending' = {} /\ closed' = {c \in Conn : request[c] # NotSent}
        /\ clients' = <<>>
    BY <1>14 DEF Restart
  <2>2. Known
    BY <1>6, <2>1
  <2>3. QED
    BY <2>1, <2>2 DEF Agree
<1>15. Known /\ Agree
  BY <1>8, <1>9, <1>10, <1>11, <1>12, <1>13, <1>14 DEF Next, Answers
<1>16. QED
  BY <1>15 DEF Known, Agree

\* WaitInv is kept by every step.
LEMMA WaitStep ==
  ASSUME TypeInv, WaitInv, [Next]_vars
  PROVE  WaitInv'
<1>1. closed \subseteq closed' /\ \A c \in Conn : request[c] # NotSent => request'[c] = request[c]
  BY NothingReopens
<1>2. \A c \in Conn : got[c] # <<>> => c \in closed /\ request'[c] = request[c]
  BY <1>1 DEF WaitInv
<1>3. ASSUME NEW c \in Conn, got'[c] = got[c]
      PROVE  /\ got'[c] # <<>> => c \in closed'
             /\ Len(got'[c]) <= 1
             /\ \A i \in 1..Len(got'[c]) : got'[c][i].listed =>
                  got'[c][i].text.query = request'[c] /\ got'[c][i].text.arrival \in Arrival
  <2>1. CASE got[c] = <<>>
    BY <1>3, <2>1
  <2>2. CASE got[c] # <<>>
    <3>1. c \in closed' /\ request'[c] = request[c]
      BY <1>1, <1>2, <2>2
    <3>2. QED
      BY <1>3, <3>1 DEF WaitInv, WaitersGetTheirAnswer
  <2>3. QED
    BY <2>1, <2>2
<1>4. ASSUME NEW c \in Conn, Delivers(c)
      PROVE  /\ got'[c] # <<>> => c \in closed'
             /\ Len(got'[c]) <= 1
             /\ \A i \in 1..Len(got'[c]) : got'[c][i].listed =>
                  got'[c][i].text.query = request'[c] /\ got'[c][i].text.arrival \in Arrival
  <2>1. PICK n \in Sent :
           /\ got'[c] = <<n>>
           /\ n.listed => n.text.query = request[c] /\ n.text.arrival \in Arrival
    BY <1>4 DEF Delivers
  <2>2. c \in closed' /\ request' = request
    BY <1>4 DEF Delivers
  <2>3. Len(got'[c]) = 1 /\ got'[c][1] = n
    BY <2>1
  <2>4. QED
    BY <2>1, <2>2, <2>3
<1>5. ASSUME NEW c \in Conn
      PROVE  /\ got'[c] # <<>> => c \in closed'
             /\ Len(got'[c]) <= 1
             /\ \A i \in 1..Len(got'[c]) : got'[c][i].listed =>
                  got'[c][i].text.query = request'[c] /\ got'[c][i].text.arrival \in Arrival
  <2>1. CASE got'[c] = got[c]
    BY <1>3, <2>1
  <2>2. CASE got'[c] # got[c]
    <3>1. PICK d \in Conn : Delivers(d)
      BY <2>2, Deliveries
    <3>2. d = c
      BY <2>2, <3>1 DEF Delivers
    <3>3. QED
      BY <1>4, <3>1, <3>2
  <2>3. QED
    BY <2>1, <2>2
<1>6. QED
  BY <1>5, ListStep DEF WaitInv, WaitersGetTheirAnswer

\* Nodes, connections and answers agree at all times.
THEOREM PyWaitInvariant == Spec => [](TypeInv /\ WaitInv)
<1>1. Init => WaitInv
  BY DEF Init, WaitInv, WaitersGetTheirAnswer
<1>2. TypeInv /\ WaitInv /\ [Next]_vars => WaitInv'
  BY WaitStep
<1>3. QED
  BY <1>1, <1>2, PyTypeInvariant, PTL DEF Spec

\* No connection gets two answers, and whoever had to wait gets a complete one,
\* to its own question, although remove_client leaves closed sockets behind.
THEOREM PyWaitersGetTheirAnswer == Spec => []WaitersGetTheirAnswer
<1>1. WaitInv => WaitersGetTheirAnswer
  BY DEF WaitInv
<1>2. QED
  BY <1>1, PyWaitInvariant, PTL

-----------------------------------------------------------------------------
(* Nobody who waits is forgotten *)

Listed(c) == \E i \in 1..Len(clients) : clients[i] = [fd |-> c, query |-> request[c]]

\* c has asked, waits, and its station is up.
Waits(c) ==
  /\ request[c] \in Query /\ c \notin pending \cup closed \cup left
  /\ status \in {"running", "hung"}

\* Whoever waits after a step is in the list, if that was so before it.
LEMMA ListedStays ==
  ASSUME TypeInv, WaitInv, NobodyIsForgotten, [Next]_vars, NEW c \in Conn, Waits(c)'
  PROVE  Listed(c)'
<1>1. TypeOK /\ clients \in Seq(Client)
  BY DEF TypeInv, TypeOK, Client
<1>2. closed \subseteq closed' /\ (request[c] # NotSent => request'[c] = request[c])
  BY NothingReopens
<1>3. Waits(c) => Listed(c)
  BY DEF NobodyIsForgotten, Waits, Listed
<1>4. ASSUME Waits(c), clients' = clients, request' = request PROVE Listed(c)'
  BY <1>3, <1>4 DEF Listed
<1>5. ASSUME NEW d \in Conn, Connect(d) PROVE Listed(c)'
  <2>1. /\ pending' = pending \cup {d} /\ clients' = clients
        /\ \E r \in Query \cup {Nonsense} : request' = [request EXCEPT ![d] = r]
        /\ UNCHANGED <<left, closed, status>>
    BY <1>5 DEF Connect, memory
  <2>2. c # d
    BY <2>1 DEF Waits
  <2>3. request'[c] = request[c]
    BY <1>1, <2>1, <2>2 DEF TypeOK
  <2>4. Waits(c)
    BY <2>1, <2>3 DEF Waits
  <2>5. QED
    BY <1>3, <2>1, <2>3, <2>4 DEF Listed
<1>6. ASSUME NEW d \in Conn, Leave(d) PROVE Listed(c)'
  <2>1. left \subseteq left' /\ UNCHANGED <<request, pending, closed, clients, status>>
    BY <1>6 DEF Leave, memory
  <2>2. Waits(c)
    BY <2>1 DEF Waits
  <2>3. QED
    BY <1>4, <2>1, <2>2
<1>7. ASSUME NEW d \in Conn, Ignore(d) \/ Drop(d) \/ Repeat(d) PROVE Listed(c)'
  <2>1. /\ pending' = pending \ {d} /\ UNCHANGED <<request, left, clients, status>>
        /\ request[d] = Nonsense \/ d \in left \/ d \in closed'
    BY <1>7 DEF Ignore, Drop, Repeat, Accepts
  <2>2. c # d
    BY <2>1, PyAssumption DEF Waits
  <2>3. Waits(c)
    BY <1>2, <2>1, <2>2 DEF Waits
  <2>4. QED
    BY <1>4, <2>1, <2>3
<1>8. ASSUME NEW d \in Conn, Ask(d) PROVE Listed(c)'
  <2> DEFINE q == request[d]
  <2>1. /\ q \in Query /\ clients' = add_client(d, q) /\ pending' = pending \ {d}
        /\ UNCHANGED <<request, left, closed, status>>
    BY <1>8 DEF Ask, Accepts
  <2> HIDE DEF q
  <2>2. /\ Len(clients') = Len(clients) + 1 /\ clients'[1] = [fd |-> d, query |-> q]
        /\ \A i \in 1..Len(clients) : clients'[i + 1] = clients[i]
    BY <1>1, <2>1, AddClient
  <2>3. CASE c = d
    <3>1. 1 \in 1..Len(clients') /\ clients'[1] = [fd |-> c, query |-> request'[c]]
      BY <1>1, <2>1, <2>2, <2>3 DEF q
    <3>2. QED
      BY <3>1 DEF Listed
  <2>4. CASE c # d
    <3>1. Waits(c)
      BY <2>1, <2>4 DEF Waits
    <3>2. PICK i \in 1..Len(clients) : clients[i] = [fd |-> c, query |-> request[c]]
      BY <1>3, <3>1 DEF Listed
    <3>3. i + 1 \in 1..Len(clients') /\ clients'[i + 1] = [fd |-> c, query |-> request'[c]]
      BY <1>1, <2>1, <2>2, <3>2
    <3>4. QED
      BY <3>3 DEF Listed
  <2>5. QED
    BY <2>3, <2>4
<1>9. ASSUME NEW q \in Query, NEW a \in Arrival, Finish(q, a) PROVE Listed(c)'
  <2>1. UNCHANGED <<request, pending, left, status>>
    BY <1>9 DEF Finish, browsers
  <2>2. Waits(c)
    BY <1>2, <2>1 DEF Waits
  <2>3. CASE UNCHANGED <<clients, closed, got>>
    BY <1>4, <2>1, <2>2, <2>3
  <2>4. ASSUME NEW k \in 1..Len(clients), clients' = remove_client(clients[k].fd),
               closed' = closed \cup {clients[k].fd}
        PROVE  Listed(c)'
    <3>1. clients[k].fd # c
      BY <2>4 DEF Waits
    <3>2. PICK j \in 1..Len(clients) : clients[j] = [fd |-> c, query |-> request[c]]
      BY <1>3, <2>2 DEF Listed
    <3>3. clients[j].fd # clients[k].fd
      BY <3>1, <3>2
    <3>4. PICK i \in 1..Len(clients') : clients'[i] = clients[j]
      BY <1>1, <2>4, <3>3, RemoveClient
    <3>5. QED
      BY <2>1, <3>2, <3>4 DEF Listed
  <2>5. QED
    BY <1>1, <1>9, <2>3, <2>4, FinishServes
<1>10. ASSUME Timeout PROVE Listed(c)'
  <2>1. UNCHANGED <<request, pending, left, clients>> /\ status = "running"
    BY <1>1, <1>10, TimeoutStep
  <2>2. Waits(c)
    BY <1>2, <2>1 DEF Waits
  <2>3. QED
    BY <1>4, <2>1, <2>2
<1>11. ASSUME \/ \E q \in Query : Lose(q)
              \/ PassOn \/ UNCHANGED vars
       PROVE  Listed(c)'
  <2>1. UNCHANGED <<request, pending, left, closed, clients, status>>
    BY <1>11 DEF Lose, PassOn, vars, browsers, memory
  <2>2. Waits(c)
    BY <2>1 DEF Waits
  <2>3. QED
    BY <1>4, <2>1, <2>2
<1>12. ASSUME Interrupt \/ \E q \in Query : FinishFails(q) PROVE FALSE
  BY <1>12 DEF Interrupt, FinishFails, Waits
<1>13. ASSUME Restart PROVE FALSE
  <2>1. request' = request /\ closed' = {d \in Conn : request[d] # NotSent}
    BY <1>13 DEF Restart
  <2>2. QED
    BY <2>1, PyAssumption DEF Waits
<1>14. QED
  BY <1>5, <1>6, <1>7, <1>8, <1>9, <1>10, <1>11, <1>12, <1>13 DEF Next, Answers

\* Every connection that has asked, is open and has no answer is in the list.
THEOREM PyNobodyIsForgotten == Spec => []NobodyIsForgotten
<1>1. Init => NobodyIsForgotten
  BY PyAssumption DEF Init, NobodyIsForgotten
<1>2. TypeInv /\ WaitInv /\ NobodyIsForgotten /\ [Next]_vars => NobodyIsForgotten'
  <2> SUFFICES ASSUME TypeInv, WaitInv, NobodyIsForgotten, [Next]_vars
               PROVE  NobodyIsForgotten'
    OBVIOUS
  <2>1. \A c \in Conn : Waits(c)' => Listed(c)'
    BY ListedStays
  <2>2. QED
    BY <2>1 DEF NobodyIsForgotten, Waits, Listed
<1>3. QED
  BY <1>1, <1>2, PyWaitInvariant, PTL DEF Spec

-----------------------------------------------------------------------------
(* The fastest answer is kept *)

\* The store has a query once.
Unique == \A i, j \in 1..Len(queries) : queries[i].query = queries[j].query => i = j

\* The store has a query once, and what was sent out of the list by the process
\* that runs now is no faster than what is stored.
FastInv ==
  /\ Unique
  /\ \A c \in Conn : got[c] # <<>> =>
       /\ got[c][1].life <= starts
       /\ got[c][1].listed /\ got[c][1].life = starts =>
            \E k \in 1..Len(queries) :
              /\ queries[k].query = request[c] /\ queries[k].answers \in Arrival
              /\ queries[k].answers <= got[c][1].text.arrival

\* The store only grows, and its answers only get faster.
Improves ==
  \A k \in 1..Len(queries) :
    /\ k \in 1..Len(queries') /\ queries'[k].query = queries[k].query
    /\ queries[k].answers \in Arrival => /\ queries'[k].answers \in Arrival
                                         /\ queries'[k].answers <= queries[k].answers

\* A query that is not in the store is added to it, or there is no room.
LEMMA AddStep ==
  ASSUME TypeInv, Unique, NEW q \in Query,
         queries' = IF Found(q) = {} THEN add_query(queries, q) ELSE queries
  PROVE  Unique' /\ Improves
<1>1. queries \in Seq(Stored) /\ Len(queries) <= max_queries
  BY DEF TypeInv, TypeOK, Stored
<1>2. \A a \in Arrival : a <= a
  BY PyAssumption
<1>3. ASSUME queries' = queries PROVE Unique' /\ Improves
  BY <1>2, <1>3 DEF Unique, Improves
<1>4. CASE Found(q) # {}
  BY <1>3, <1>4
<1>5. CASE Found(q) = {}
  <2>1. queries' = add_query(queries, q)
    BY <1>5
  <2>2. /\ queries' = queries \/ (/\ Len(queries') = Len(queries) + 1
                                  /\ queries'[Len(queries')] = [query |-> q, answers |-> Nothing])
        /\ \A i \in 1..Len(queries) : i \in 1..Len(queries') /\ queries'[i] = queries[i]
    BY <1>1, <2>1, AddQuery
  <2>3. Improves
    BY <1>2, <2>2 DEF Improves
  <2>4. CASE queries' = queries
    BY <1>3, <2>4
  <2>5. CASE /\ Len(queries') = Len(queries) + 1
             /\ queries'[Len(queries')] = [query |-> q, answers |-> Nothing]
    <3>1. queries'[Len(queries')].query = q
      BY <2>5
    <3>2. \A i \in 1..Len(queries) : queries'[i].query # q
      BY <1>5, <2>2 DEF Found
    <3>3. \A i \in 1..Len(queries') : i = Len(queries') \/ i \in 1..Len(queries)
      BY <1>1, <2>5
    <3>4. Unique'
      BY <2>2, <3>1, <3>2, <3>3 DEF Unique
    <3>5. QED
      BY <2>3, <3>4
  <2>6. QED
    BY <2>2, <2>4, <2>5
<1>6. QED
  BY <1>4, <1>5

\* What the steps of a process do to the store.
LEMMA StoreStep ==
  ASSUME TypeInv, Unique, [Next]_vars, ~ Restart
  PROVE  Unique' /\ Improves /\ starts' = starts
<1>1. TypeOK /\ \A a \in Arrival : a <= a
  BY PyAssumption DEF TypeInv
<1>2. ASSUME queries' = queries PROVE Unique' /\ Improves
  BY <1>1, <1>2 DEF Unique, Improves
<1>3. ASSUME NEW c \in Conn, Ask(c) PROVE Unique' /\ Improves /\ starts' = starts
  BY <1>3, AddStep DEF Ask
<1>4. ASSUME NEW q \in Query, NEW a \in Arrival, Finish(q, a)
      PROVE  Unique' /\ Improves /\ starts' = starts
  <2> DEFINE k    == Least(Found(q))
             best == Better(queries[k].answers, a)
  <2>1. /\ k \in 1..Len(queries) /\ queries[k].query = q /\ best \in Arrival
        /\ queries[k].answers # Nothing => best <= queries[k].answers
        /\ Len(queries') = Len(queries)
        /\ queries'[k] = [query |-> q, answers |-> best]
        /\ \A i \in 1..Len(queries) : i # k => queries'[i] = queries[i]
    BY <1>1, <1>4, FinishStores, Zenon
  <2> HIDE DEF k, best
  <2>2. \A i \in 1..Len(queries) : queries'[i].query = queries[i].query
    BY <2>1
  <2>3. Unique'
    BY <2>1, <2>2 DEF Unique
  <2>4. queries'[k].answers = best
    BY <2>1
  <2>5. Nothing \notin Arrival
    BY PyAssumption DEF Nothing
  <2>6. Improves
    BY <1>1, <2>1, <2>2, <2>4, <2>5 DEF Improves
  <2>7. QED
    BY <1>4, <2>3, <2>6 DEF Finish
<1>5. ASSUME Timeout PROVE Unique' /\ Improves /\ starts' = starts
  <2> DEFINE q == clients[1].query
  <2>1. /\ q \in Query /\ starts' = starts
        /\ \/ queries' = queries
           \/ queries' = IF Found(q) = {} THEN add_query(queries, q) ELSE queries
    BY <1>1, <1>5, TimeoutStep
  <2> HIDE DEF q
  <2>2. QED
    BY <1>2, <2>1, AddStep
<1>6. ASSUME NEW c \in Conn, Connect(c) \/ Leave(c) \/ Ignore(c) \/ Drop(c) \/ Repeat(c)
      PROVE  queries' = queries /\ starts' = starts
  BY <1>6 DEF Connect, Leave, Ignore, Drop, Repeat, memory
<1>7. ASSUME \/ \E q \in Query : FinishFails(q) \/ Lose(q)
             \/ PassOn \/ Interrupt \/ UNCHANGED vars
      PROVE  queries' = queries /\ starts' = starts
  BY <1>7 DEF FinishFails, Lose, PassOn, Interrupt, vars, memory
<1>8. QED
  BY <1>2, <1>3, <1>4, <1>5, <1>6, <1>7 DEF Next, Answers

\* Arrivals are numbers.
LEMMA ArrivalsInOrder ==
  ASSUME NEW x \in Arrival, NEW y \in Arrival, NEW z \in Arrival \cup {Nothing},
         x <= y, y <= z
  PROVE  x <= z
BY PyAssumption DEF Nothing

\* FastInv is kept by every step.
LEMMA FastStep ==
  ASSUME TypeInv, WaitInv, FastInv, [Next]_vars
  PROVE  FastInv'
<1>1. TypeOK /\ Unique /\ starts \in Nat /\ got \in [Conn -> Seq(Sent)]
  <2>1. TypeOK /\ Unique
    BY DEF TypeInv, FastInv
  <2>2. got \in [Conn -> Seq(Sent)] /\ starts \in 0..MaxStarts
    BY <2>1 DEF TypeOK, Sent
  <2>3. starts \in Nat
    BY <2>2, PyAssumption
  <2>4. QED
    BY <2>1, <2>2, <2>3
<1>2. CASE Restart
  <2>1. queries' = <<>> /\ starts' = starts + 1 /\ got' = got
    BY <1>2 DEF Restart
  <2>2. ASSUME NEW c \in Conn, got[c] # <<>>
        PROVE  got[c][1].life <= starts' /\ got[c][1].life # starts'
    <3>1. got[c] \in Seq(Sent) /\ got[c][1] \in Sent
      BY <1>1, <2>2
    <3>2. got[c][1].life \in Int
      BY <3>1 DEF Sent
    <3>3. got[c][1].life <= starts
      BY <2>2 DEF FastInv
    <3>4. QED
      BY <1>1, <2>1, <3>2, <3>3
  <2>3. QED
    BY <2>1, <2>2 DEF FastInv, Unique
<1>3. CASE ~ Restart
  <2>1. Unique' /\ Improves /\ starts' = starts
    BY <1>1, <1>3, StoreStep
  <2>2. ASSUME NEW c \in Conn, got'[c] # <<>>
        PROVE  /\ got'[c][1].life <= starts
               /\ got'[c][1].listed /\ got'[c][1].life = starts =>
                    \E k \in 1..Len(queries') :
                      /\ queries'[k].query = request'[c] /\ queries'[k].answers \in Arrival
                      /\ queries'[k].answers <= got'[c][1].text.arrival
    <3>1. CASE got'[c] = got[c]
      <4>1. got[c] # <<>> /\ request'[c] = request[c]
        BY <2>2, <3>1, NothingReopens DEF WaitInv
      <4> SUFFICES ASSUME got[c][1].listed, got[c][1].life = starts
                   PROVE  \E k \in 1..Len(queries') :
                            /\ queries'[k].query = request'[c] /\ queries'[k].answers \in Arrival
                            /\ queries'[k].answers <= got'[c][1].text.arrival
        BY <3>1, <4>1 DEF FastInv
      <4>2. PICK k \in 1..Len(queries) :
              /\ queries[k].query = request[c] /\ queries[k].answers \in Arrival
              /\ queries[k].answers <= got[c][1].text.arrival
        BY <4>1 DEF FastInv
      <4>3. /\ k \in 1..Len(queries') /\ queries'[k].query = queries[k].query
            /\ queries'[k].answers \in Arrival /\ queries'[k].answers <= queries[k].answers
        BY <2>1, <4>2 DEF Improves
      <4>4. got[c][1].text.arrival \in Arrival \cup {Nothing}
        <5>1. got[c][1] \in Sent
          BY <1>1, <4>1
        <5>2. got[c][1].text \in Text
          BY <5>1 DEF Sent
        <5>3. QED
          BY <5>2 DEF Text
      <4>5. queries'[k].answers <= got[c][1].text.arrival
        BY <4>2, <4>3, <4>4, ArrivalsInOrder
      <4>6. QED
        BY <3>1, <4>1, <4>2, <4>3, <4>5
    <3>2. CASE got'[c] # got[c]
      <4>1. Delivers(c)
        <5>1. PICK d \in Conn : Delivers(d)
          BY <3>2, Deliveries
        <5>2. QED
          BY <3>2, <5>1 DEF Delivers
      <4>2. PICK n \in Sent :
              /\ got'[c] = <<n>> /\ n.life = starts
              /\ n.listed =>
                   /\ n.text.arrival \in Arrival
                   /\ \E k \in 1..Len(queries') : /\ queries'[k].query = request[c]
                                                  /\ queries'[k].answers = n.text.arrival
        BY <4>1 DEF Delivers
      <4>3. request' = request /\ got'[c][1] = n
        BY <4>1, <4>2 DEF Delivers
      <4>4. \A a \in Arrival : a <= a
        BY PyAssumption
      <4>5. starts <= starts
        BY <1>1
      <4>6. QED
        BY <4>2, <4>3, <4>4, <4>5
    <3>3. QED
      BY <3>1, <3>2
  <2>3. QED
    BY <2>1, <2>2 DEF FastInv
<1>4. QED
  BY <1>2, <1>3

\* The store and what was sent out agree at all times.
THEOREM PyFastInvariant == Spec => [](TypeInv /\ WaitInv /\ FastInv)
<1>1. Init => FastInv
  BY DEF Init, FastInv, Unique
<1>2. TypeInv /\ WaitInv /\ FastInv /\ [Next]_vars => FastInv'
  BY FastStep
<1>3. QED
  BY <1>1, <1>2, PyWaitInvariant, PTL DEF Spec

\* Nobody who had to wait gets a slower answer than somebody got before, until
\* the station is started again.
THEOREM PyFastestIsKept == Spec => FastestIsKept
<1> DEFINE Kept(c, d) ==
             got'[c] # got[c] /\ got[d] # <<>> /\ request[c] = request[d] =>
               \/ ~ got'[c][1].listed \/ ~ got[d][1].listed
               \/ got[d][1].life # starts
               \/ got'[c][1].text.arrival <= got[d][1].text.arrival
<1>1. TypeInv /\ WaitInv /\ FastInv /\ FastInv' /\ [Next]_vars
        => [\A c, d \in Conn : Kept(c, d)]_vars
  <2> SUFFICES ASSUME TypeInv, WaitInv, FastInv', [Next]_vars,
                      NEW c \in Conn, NEW d \in Conn,
                      got'[c] # got[c], got[d] # <<>>, request[c] = request[d],
                      got'[c][1].listed, got[d][1].listed, got[d][1].life = starts
               PROVE  got'[c][1].text.arrival <= got[d][1].text.arrival
    OBVIOUS
  <2>1. Delivers(c)
    <3>1. PICK e \in Conn : Delivers(e)
      BY Deliveries
    <3>2. QED
      BY <3>1 DEF Delivers
  <2>2. PICK n \in Sent :
          /\ got'[c] = <<n>>
          /\ n.listed => \E k \in 1..Len(queries') : /\ queries'[k].query = request[c]
                                                     /\ queries'[k].answers = n.text.arrival
    BY <2>1 DEF Delivers
  <2>3. got'[c][1] = n
    BY <2>2
  <2>4. PICK k \in 1..Len(queries') : /\ queries'[k].query = request[c]
                                      /\ queries'[k].answers = n.text.arrival
    BY <2>2, <2>3
  <2>5. d # c /\ got'[d] = got[d] /\ request' = request /\ starts' = starts
    BY <2>1 DEF Delivers
  <2>6. PICK l \in 1..Len(queries') : /\ queries'[l].query = request[d]
                                      /\ queries'[l].answers <= got[d][1].text.arrival
    BY <2>5 DEF FastInv
  <2>7. k = l
    BY <2>4, <2>6 DEF FastInv, Unique
  <2>8. QED
    BY <2>3, <2>4, <2>6, <2>7
<1>2. QED
  BY <1>1, PyFastInvariant, PTL DEF Spec, FastestIsKept

-----------------------------------------------------------------------------
(* What the process dies of *)

Mine    == AskedBy(Conn \ before)   \* what the process that runs was asked
Earlier == AskedBy(before)          \* what those before it were asked

\* The connections of an earlier process have been used, and the process that
\* runs has nothing to do with them.
LivesApart ==
  /\ \A c \in before : request[c] # NotSent /\ c \notin pending
  /\ \A i \in 1..Len(clients) : clients[i].fd \notin before

(***************************************************************************)
(* Only what this process was asked is in the store; an answer under way   *)
(* is to something that an earlier process was asked, or this one, and     *)
(* then it is in the store, unless the store is full.                      *)
(***************************************************************************)
StoreKeepsUp ==
  /\ IsFiniteSet(Mine)
  /\ \A i \in 1..Len(queries) : queries[i].query \in Mine
  /\ \A q \in Query : coming[q] > 0 =>
       \/ q \in Earlier
       \/ q \in Mine /\ (Found(q) # {} \/ Len(queries) = max_queries)

LifeInv == LivesApart /\ StoreKeepsUp

\* What earlier processes were asked changes with a new start only.
LEMMA BeforeStays ==
  ASSUME TypeInv, [Next]_vars, ~ Restart
  PROVE  before' = before
<1>1. TypeOK
  BY DEF TypeInv
<1>2. QED
  BY <1>1, TimeoutStep
  DEF Next, Connect, Leave, Ignore, Drop, Ask, Repeat, Answers, Finish, FinishFails,
      Lose, PassOn, Interrupt, vars

\* A new start: everything that was asked was asked before it.
LEMMA NewLife ==
  ASSUME TypeInv, LifeInv, Restart
  PROVE  LifeInv'
<1>1. /\ before' = {c \in Conn : request[c] # NotSent} /\ request' = request
      /\ pending' = {} /\ clients' = <<>> /\ queries' = <<>> /\ coming' = coming
  BY DEF Restart
<1>2. LivesApart'
  BY <1>1 DEF LivesApart
<1>3. NotSent \notin Query
  BY PyAssumption
<1>4. Mine' = {} /\ \A c \in Conn : request[c] \in Query => request[c] \in Earlier'
  BY <1>1, <1>3 DEF Mine, Earlier, AskedBy
<1>5. before \subseteq Conn
  BY DEF TypeInv, TypeOK
<1>6. \A q \in Query : coming[q] > 0 => \E c \in Conn : request[c] = q
  BY <1>5 DEF LifeInv, StoreKeepsUp, Mine, Earlier, AskedBy
<1>7. StoreKeepsUp'
  BY <1>1, <1>4, <1>6, FS_EmptySet DEF StoreKeepsUp
<1>8. QED
  BY <1>2, <1>7 DEF LifeInv

\* Otherwise the lives stay apart.
LEMMA ApartStep ==
  ASSUME TypeInv, WaitInv, LivesApart, [Next]_vars, ~ Restart
  PROVE  LivesApart'
<1>1. TypeOK /\ clients \in Seq(Client) /\ before \subseteq Conn
  BY DEF TypeInv, TypeOK, Client
<1>2. before' = before /\ \A c \in before : request'[c] = request[c] /\ request[c] # NotSent
  BY <1>1, BeforeStays, NothingReopens DEF LivesApart
<1>3. ASSUME \A c \in pending' : c \in pending \/ request[c] = NotSent,
             \A i \in 1..Len(clients') : clients'[i].fd \notin before
      PROVE  LivesApart'
  BY <1>2, <1>3 DEF LivesApart
<1>4. ASSUME clients' = clients
      PROVE  \A i \in 1..Len(clients') : clients'[i].fd \notin before
  BY <1>4 DEF LivesApart
<1>5. ASSUME NEW c \in Conn, Connect(c) \/ Leave(c) \/ Ignore(c) \/ Drop(c) \/ Repeat(c)
      PROVE  LivesApart'
  <2>1. clients' = clients /\ \A d \in pending' : d \in pending \/ request[d] = NotSent
    BY <1>5 DEF Connect, Leave, Ignore, Drop, Repeat, Accepts, memory
  <2>2. QED
    BY <1>3, <1>4, <2>1
<1>6. ASSUME NEW c \in Conn, Ask(c) PROVE LivesApart'
  <2>1. /\ c \in pending /\ pending' \subseteq pending
        /\ request[c] \in Query /\ clients' = add_client(c, request[c])
    BY <1>6 DEF Ask, Accepts
  <2>2. /\ Len(clients') = Len(clients) + 1 /\ clients'[1] = [fd |-> c, query |-> request[c]]
        /\ \A i \in 1..Len(clients) : clients'[i + 1] = clients[i]
    BY <1>1, <2>1, AddClient, Zenon
  <2>3. \A i \in 1..Len(clients') : clients'[i].fd \notin before
    <3> SUFFICES ASSUME NEW i \in 1..Len(clients') PROVE clients'[i].fd \notin before
      OBVIOUS
    <3>1. CASE i = 1
      BY <2>1, <2>2, <3>1 DEF LivesApart
    <3>2. CASE i # 1
      <4>1. i - 1 \in 1..Len(clients) /\ (i - 1) + 1 = i
        BY <1>1, <2>2, <3>2
      <4>2. clients'[i] = clients[i - 1]
        BY <2>2, <4>1
      <4>3. QED
        BY <4>1, <4>2 DEF LivesApart
    <3>3. QED
      BY <3>1, <3>2
  <2>4. QED
    BY <1>3, <2>1, <2>3
<1>7. ASSUME NEW q \in Query, NEW a \in Arrival, Finish(q, a) PROVE LivesApart'
  <2>1. pending' = pending
    BY <1>7 DEF Finish, browsers
  <2>2. \A i \in 1..Len(clients') : \E j \in 1..Len(clients) : clients'[i] = clients[j]
    <3>1. CASE clients' = clients
      BY <3>1
    <3>2. ASSUME NEW k \in 1..Len(clients), clients' = remove_client(clients[k].fd)
          PROVE  \A i \in 1..Len(clients') : \E j \in 1..Len(clients) : clients'[i] = clients[j]
      BY <1>1, <3>2, RemoveClient
    <3>3. QED
      BY <1>1, <1>7, <3>1, <3>2, FinishServes
  <2>3. QED
    BY <1>3, <2>1, <2>2 DEF LivesApart
<1>8. ASSUME \/ \E q \in Query : FinishFails(q) \/ Lose(q)
             \/ Timeout \/ PassOn \/ Interrupt \/ UNCHANGED vars
      PROVE  LivesApart'
  <2>1. pending' = pending /\ clients' = clients
    BY <1>1, <1>8, TimeoutStep
    DEF FinishFails, Lose, PassOn, Interrupt, vars, browsers, memory
  <2>2. QED
    BY <1>3, <1>4, <2>1
<1>9. QED
  BY <1>5, <1>6, <1>7, <1>8 DEF Next, Answers

\* What this process was asked grows by one query at most.
LEMMA AskedGrows ==
  ASSUME TypeInv, WaitInv, LivesApart, [Next]_vars, ~ Restart, IsFiniteSet(Mine)
  PROVE  Mine \subseteq Mine' /\ IsFiniteSet(Mine') /\ Earlier' = Earlier
<1>1. before' = before /\ before \subseteq Conn
  BY BeforeStays DEF TypeInv, TypeOK
<1>2. CASE request' = request
  BY <1>1, <1>2 DEF Mine, Earlier, AskedBy
<1>3. CASE request' # request
  <2>1. PICK c \in Conn : Connect(c)
    BY <1>3 DEF Next, Leave, Ignore, Drop, Ask, Repeat, Answers, Finish, FinishFails,
                Lose, PassOn, Timeout, Interrupt, Restart, vars, browsers
  <2>2. PICK r \in Query \cup {Nonsense} : request' = [request EXCEPT ![c] = r]
    BY <2>1 DEF Connect
  <2>3. request[c] = NotSent /\ c \notin before /\ NotSent \notin Query /\ Nonsense \notin Query
    BY <2>1, PyAssumption DEF Connect, LivesApart
  <2>4. request'[c] = r /\ \A d \in Conn : d # c => request'[d] = request[d]
    BY <2>2 DEF TypeInv, TypeOK
  <2>5. Mine' = IF r \in Query THEN Mine \cup {r} ELSE Mine
    BY <1>1, <2>2, <2>3, <2>4 DEF Mine, AskedBy
  <2>6. Earlier' = Earlier
    BY <1>1, <2>3, <2>4 DEF Earlier, AskedBy
  <2>7. QED
    BY <2>5, <2>6, FS_AddElement
<1>4. QED
  BY <1>2, <1>3

\* A full store without a query that this process was asked: it was asked
\* more than the store holds.
LEMMA FullStore ==
  ASSUME TypeInv, Unique, StoreKeepsUp, NEW q \in Mine, Found(q) = {},
         Len(queries) = max_queries
  PROVE  Cardinality(Mine) > max_queries
<1> DEFINE n == max_queries
           f == [i \in 1..n + 1 |-> IF i = n + 1 THEN q ELSE queries[i].query]
<1>1. n \in Nat
  BY PyAssumption
<1>2. \A i \in 1..n : queries[i].query \in Mine /\ queries[i].query # q
  BY DEF LifeInv, StoreKeepsUp, Found
<1>3. f \in [1..n + 1 -> Mine]
  BY <1>1, <1>2
<1>4. ASSUME NEW a \in 1..n + 1, NEW b \in 1..n + 1, f[a] = f[b] PROVE a = b
  BY <1>1, <1>2, <1>4 DEF Unique
<1> HIDE DEF f
<1>5. f \in Injection(1..n + 1, Mine)
  BY <1>3, <1>4 DEF Injection, IsInjective
<1>6. Cardinality(1..n + 1) <= Cardinality(Mine)
  BY <1>5, FS_Injection DEF LifeInv, StoreKeepsUp
<1>7. Cardinality(1..n + 1) = n + 1
  BY <1>1, FS_Interval
<1>8. Cardinality(Mine) \in Nat
  BY FS_CardinalityType DEF LifeInv, StoreKeepsUp
<1>9. QED
  BY <1>1, <1>6, <1>7, <1>8

\* What adding a query leaves in the store.
LEMMA AddedQueries ==
  ASSUME TypeInv, NEW q \in Query,
         queries' = IF Found(q) = {} THEN add_query(queries, q) ELSE queries
  PROVE  /\ \A i \in 1..Len(queries') :
              queries'[i].query = q \/ (i \in 1..Len(queries) /\ queries'[i] = queries[i])
         /\ Len(queries') = max_queries \/ \E i \in 1..Len(queries') : queries'[i].query = q
<1>1. queries \in Seq(Stored) /\ Len(queries) <= max_queries
  BY DEF TypeInv, TypeOK, Stored
<1>2. CASE Found(q) # {}
  BY <1>2 DEF Found
<1>3. CASE Found(q) = {}
  <2>1. queries' = add_query(queries, q)
    BY <1>3
  <2>2. /\ queries' \in Seq(Stored)
        /\ \/ queries' = queries /\ Len(queries) = max_queries
           \/ /\ Len(queries') = Len(queries) + 1
              /\ queries'[Len(queries')] = [query |-> q, answers |-> Nothing]
        /\ \A i \in 1..Len(queries) : i \in 1..Len(queries') /\ queries'[i] = queries[i]
    BY <1>1, <2>1, AddQuery
  <2>3. CASE queries' = queries /\ Len(queries) = max_queries
    BY <2>3
  <2>4. CASE /\ Len(queries') = Len(queries) + 1
             /\ queries'[Len(queries')] = [query |-> q, answers |-> Nothing]
    <3>1. queries'[Len(queries')].query = q /\ Len(queries') \in 1..Len(queries')
      BY <1>1, <2>4
    <3>2. \A i \in 1..Len(queries') : i = Len(queries') \/ i \in 1..Len(queries)
      BY <1>1, <2>4
    <3>3. QED
      BY <2>2, <3>1, <3>2
  <2>5. QED
    BY <2>2, <2>3, <2>4
<1>4. QED
  BY <1>2, <1>3

\* StoreKeepsUp is kept by every step of the process.
LEMMA StoreKeepsUpStep ==
  ASSUME TypeInv, TypeInv', WaitInv, Unique, LifeInv, [Next]_vars, ~ Restart
  PROVE  StoreKeepsUp'
<1>1. /\ TypeOK /\ Len(queries) \in Nat /\ Len(queries') \in Nat
      /\ Len(queries') <= max_queries /\ max_queries \in Nat \ {0}
      /\ coming \in [Query -> 0..Copies]
  <2>1. TypeOK /\ TypeOK'
    BY DEF TypeInv
  <2>2. queries \in Seq(Stored) /\ queries' \in Seq(Stored)
    BY <2>1 DEF TypeOK, Stored
  <2>3. Len(queries) \in Nat /\ Len(queries') \in Nat
    BY <2>2
  <2>4. Len(queries') <= max_queries /\ coming \in [Query -> 0..Copies]
    BY <2>1 DEF TypeOK
  <2>5. max_queries \in Nat \ {0}
    BY PyAssumption
  <2>6. QED
    BY <2>1, <2>3, <2>4, <2>5
<1>2. Mine \subseteq Mine' /\ IsFiniteSet(Mine') /\ Earlier' = Earlier
  BY AskedGrows DEF LifeInv, StoreKeepsUp
<1>3. \A k \in 1..Len(queries) : k \in 1..Len(queries') /\ queries'[k].query = queries[k].query
  BY StoreStep DEF Improves
<1>4. Len(queries) = max_queries => Len(queries') = max_queries
  BY <1>1, <1>3
<1>5. ASSUME NEW q \in Query, coming[q] > 0
      PROVE  \/ q \in Earlier'
             \/ q \in Mine' /\ (Found(q)' # {} \/ Len(queries') = max_queries)
  <2>1. q \in Earlier \/ (q \in Mine /\ (Found(q) # {} \/ Len(queries) = max_queries))
    BY <1>5 DEF LifeInv, StoreKeepsUp
  <2>2. Found(q) # {} => Found(q)' # {}
    BY <1>3 DEF Found
  <2>3. QED
    BY <1>2, <1>4, <2>1, <2>2
<1>6. ASSUME \A i \in 1..Len(queries') : i \in 1..Len(queries),
             \A q \in Query : coming'[q] > 0 => coming[q] > 0
      PROVE  StoreKeepsUp'
  <2>1. \A i \in 1..Len(queries') : queries'[i].query \in Mine'
    BY <1>2, <1>3, <1>6 DEF LifeInv, StoreKeepsUp
  <2>2. QED
    BY <1>2, <1>5, <1>6, <2>1 DEF LifeInv, StoreKeepsUp
<1>7. ASSUME NEW q \in Query, q \in Mine,
             queries' = (IF Found(q) = {} THEN add_query(queries, q) ELSE queries),
             coming' = [coming EXCEPT ![q] = Copies]
      PROVE  StoreKeepsUp'
  <2>1. /\ \A i \in 1..Len(queries') :
             queries'[i].query = q \/ (i \in 1..Len(queries) /\ queries'[i] = queries[i])
        /\ Len(queries') = max_queries \/ \E i \in 1..Len(queries') : queries'[i].query = q
    BY <1>7, AddedQueries
  <2>2. \A i \in 1..Len(queries') : queries'[i].query \in Mine'
    BY <1>2, <1>7, <2>1 DEF LifeInv, StoreKeepsUp
  <2>3. q \in Mine' /\ (Found(q)' # {} \/ Len(queries') = max_queries)
    BY <1>2, <1>7, <2>1 DEF Found
  <2>4. \A p \in Query : p # q => coming'[p] = coming[p]
    BY <1>1, <1>7
  <2>5. QED
    BY <1>2, <1>5, <2>2, <2>3, <2>4 DEF LifeInv, StoreKeepsUp
<1>8. ASSUME NEW c \in Conn, Ask(c) PROVE StoreKeepsUp'
  <2>1. request[c] \in Mine
    BY <1>8 DEF Ask, Accepts, LifeInv, LivesApart, Mine, AskedBy
  <2>2. QED
    BY <1>7, <1>8, <2>1 DEF Ask, Flood
<1>9. ASSUME Timeout PROVE StoreKeepsUp'
  <2> DEFINE q == clients[1].query
  <2>1. /\ 1 \in 1..Len(clients) /\ clients[1].fd \in Conn /\ q \in Query
        /\ \/ queries' = queries /\ coming' = coming
           \/ /\ queries' = IF Found(q) = {} THEN add_query(queries, q) ELSE queries
              /\ coming' = [coming EXCEPT ![q] = Copies]
    BY <1>1, <1>9, TimeoutStep
  <2>2. q \in Mine
    BY <2>1 DEF WaitInv, LifeInv, LivesApart, Mine, AskedBy
  <2> HIDE DEF q
  <2>3. QED
    BY <1>6, <1>7, <2>1, <2>2
<1>10. ASSUME NEW q \in Query, NEW a \in Arrival, Finish(q, a) PROVE StoreKeepsUp'
  <2>1. Len(queries') = Len(queries)
    BY <1>1, <1>10, FinishStores
  <2>2. coming[q] > 0 /\ \A p \in Query : p # q => coming'[p] = coming[p]
    BY <1>1, <1>10 DEF Finish
  <2>3. QED
    BY <1>6, <2>1, <2>2
<1>11. ASSUME NEW q \in Query, Lose(q) PROVE StoreKeepsUp'
  <2>1. queries' = queries /\ coming[q] > 0 /\ \A p \in Query : p # q => coming'[p] = coming[p]
    BY <1>1, <1>11 DEF Lose, memory
  <2>2. QED
    BY <1>6, <2>1
<1>12. ASSUME NEW c \in Conn, Connect(c) \/ Leave(c) \/ Ignore(c) \/ Drop(c) \/ Repeat(c)
       PROVE  StoreKeepsUp'
  <2>1. queries' = queries /\ coming' = coming
    BY <1>12 DEF Connect, Leave, Ignore, Drop, Repeat, memory
  <2>2. QED
    BY <1>6, <2>1
<1>13. ASSUME \/ \E q \in Query : FinishFails(q)
              \/ PassOn \/ Interrupt \/ UNCHANGED vars
       PROVE  StoreKeepsUp'
  <2>1. queries' = queries /\ coming' = coming
    BY <1>13 DEF FinishFails, PassOn, Interrupt, vars, memory
  <2>2. QED
    BY <1>6, <2>1
<1>14. QED
  BY <1>8, <1>9, <1>10, <1>11, <1>12, <1>13 DEF Next, Answers

\* LifeInv is kept by every step.
LEMMA LifeStep ==
  ASSUME TypeInv, TypeInv', WaitInv, Unique, LifeInv, [Next]_vars
  PROVE  LifeInv'
<1>1. CASE Restart
  BY <1>1, NewLife
<1>2. CASE ~ Restart
  BY <1>2, ApartStep, StoreKeepsUpStep DEF LifeInv
<1>3. QED
  BY <1>1, <1>2

\* In its first life and in every later one the process only dies of a time it
\* cannot read, or of an answer that it knows no query for: an answer to what a
\* process before it was asked, or it was itself asked more than it keeps.
THEOREM PyCrashHasACause == Spec => CrashHasACause
<1>1. Init => LifeInv
  <2> SUFFICES ASSUME Init PROVE LifeInv
    OBVIOUS
  <2>1. Mine = {}
    BY PyAssumption DEF Init, Mine, AskedBy
  <2>2. QED
    BY <2>1, FS_EmptySet DEF Init, LifeInv, LivesApart, StoreKeepsUp
<1>2. TypeInv /\ TypeInv' /\ WaitInv /\ FastInv /\ LifeInv /\ [Next]_vars => LifeInv'
  BY LifeStep DEF FastInv
<1>3. TypeInv /\ FastInv /\ LifeInv /\ [Next]_vars =>
        [status # "crashed" /\ status' = "crashed" =>
           \E q \in Query :
             /\ coming[q] > 0
             /\ \/ q \in BadTime
                \/ /\ Found(q) = {}
                   /\ \/ q \in AskedBy(before)
                      \/ Cardinality(AskedBy(Conn \ before)) > max_queries]_vars
  <2> SUFFICES ASSUME TypeInv, Unique, LifeInv, [Next]_vars,
                      status # "crashed", status' = "crashed"
               PROVE  \E q \in Query :
                        /\ coming[q] > 0
                        /\ \/ q \in BadTime
                           \/ /\ Found(q) = {}
                              /\ q \in Earlier \/ Cardinality(Mine) > max_queries
    BY DEF FastInv, Mine, Earlier
  <2>1. PICK q \in Query : FinishFails(q)
    BY DEF Next, Connect, Leave, Ignore, Drop, Ask, Repeat, Answers, Finish,
           Lose, PassOn, Timeout, Interrupt, Restart, vars
  <2>2. coming[q] > 0 /\ (Found(q) = {} \/ q \in BadTime)
    BY <2>1 DEF FinishFails
  <2>3. ASSUME Found(q) = {} PROVE q \in Earlier \/ Cardinality(Mine) > max_queries
    BY <2>2, <2>3, FullStore DEF LifeInv, StoreKeepsUp
  <2>4. QED
    BY <2>2, <2>3
<1>4. QED
  BY <1>1, <1>2, <1>3, PyFastInvariant, PTL DEF Spec, CrashHasACause
=============================================================================
