--------------------------- MODULE ClientsProofs ----------------------------
(***************************************************************************)
(* Theorems about module Clients, for any number of browsers, descriptors, *)
(* queries and restarts.                                                   *)
(***************************************************************************)
EXTENDS Clients, NatLemmas, FiniteSetTheorems

-----------------------------------------------------------------------------
(* The list of client.c *)

\* The least element of a set of natural numbers is one of it.
LEMMA LeastIsIn ==
  ASSUME NEW S \in SUBSET Nat, S # {}
  PROVE  Least(S) \in S
<1>1. \E i \in S : \A j \in S : i <= j
  BY LeastNatural
<1>2. QED
  BY <1>1 DEF Least

\* r is the list without its node k.
Without(list, k, r) ==
  /\ r \in Seq(Node) /\ Len(r) = Len(list) - 1
  /\ \A i \in 1..Len(list) - 1 : r[i] = IF i < k THEN list[i] ELSE list[i + 1]

\* remove_client takes one node with the descriptor out of the list, or leaves
\* the list alone if there is none.
LEMMA RemoveClient ==
  ASSUME NEW list \in Seq(Node), NEW fd
  PROVE  \/ /\ \A i \in 1..Len(list) : list[i].fd # fd
            /\ remove_client(list, fd) = list
         \/ \E k \in 1..Len(list) : /\ list[k].fd = fd
                                    /\ Without(list, k, remove_client(list, fd))
<1> DEFINE found == {i \in 1..Len(list) : list[i].fd = fd}
           r     == [i \in 1..Len(list) - 1 |->
                       IF i < Least(found) THEN list[i] ELSE list[i + 1]]
<1>1. CASE found = {}
  BY <1>1 DEF remove_client
<1>2. CASE found # {}
  <2>1. Least(found) \in found
    <3>1. found \in SUBSET Nat
      OBVIOUS
    <3> HIDE DEF found
    <3>2. QED
      BY <1>2, <3>1, LeastIsIn
  <2>2. remove_client(list, fd) = r
    BY <1>2 DEF remove_client
  <2>3. \A i \in 1..Len(list) : list[i] \in Node
    OBVIOUS
  <2>4. Len(list) - 1 \in Nat
    BY <2>1
  <2>5. \A i \in 1..Len(list) - 1 : r[i] \in Node
    BY <2>1, <2>3
  <2>6. r \in Seq(Node) /\ Len(r) = Len(list) - 1
    BY <2>4, <2>5
  <2>7. Without(list, Least(found), r)
    BY <2>6 DEF Without
  <2>8. QED
    BY <2>1, <2>2, <2>7
<1>3. QED
  BY <1>1, <1>2

\* find_client returns a node that waits for the query.
LEMMA FindClient ==
  ASSUME NEW list \in Seq(Node), NEW q, Waiting(list, q) # {}
  PROVE  \E k \in 1..Len(list) : find_client(list, q) = list[k] /\ list[k].query = q
<1>1. Waiting(list, q) \in SUBSET Nat
  BY DEF Waiting
<1>2. Least(Waiting(list, q)) \in Waiting(list, q)
  BY <1>1, LeastIsIn
<1>3. QED
  BY <1>2 DEF find_client, Waiting

\* add_client puts the node in front of the others.
LEMMA AddClient ==
  ASSUME NEW list \in Seq(Node), NEW fd \in Fd, NEW q \in Query
  PROVE  /\ add_client(list, fd, q) \in Seq(Node)
         /\ Len(add_client(list, fd, q)) = Len(list) + 1
         /\ add_client(list, fd, q)[1] = [fd |-> fd, query |-> q]
         /\ \A i \in 1..Len(list) : add_client(list, fd, q)[i + 1] = list[i]
<1>1. [fd |-> fd, query |-> q] \in Node
  BY DEF Node
<1> DEFINE n == [fd |-> fd, query |-> q]
<1> HIDE DEF n
<1>2. <<n>> \o list \in Seq(Node) /\ Len(<<n>> \o list) = Len(list) + 1
  BY <1>1 DEF n
<1>3. (<<n>> \o list)[1] = n /\ \A i \in 1..Len(list) : (<<n>> \o list)[i + 1] = list[i]
  BY <1>1 DEF n
<1>4. QED
  BY <1>2, <1>3 DEF add_client, n

\* accept has a free descriptor to return, and no node has it.
LEMMA NextFdIsFree ==
  ASSUME \E fd \in Fd : open[fd] = Free
  PROVE  NextFd \in Fd /\ open[NextFd] = Free
<1>1. {fd \in Fd : open[fd] = Free} \in SUBSET Nat
  BY DEF Fd
<1>2. QED
  BY <1>1, LeastIsIn DEF NextFd

-----------------------------------------------------------------------------
(* Types *)

\* What the handler reads out of a request is a query.
LEMMA ParsedIsQuery ==
  ASSUME NEW r \in Requests \cup {NotSent}, r # Nonsense
  PROVE  Parsed(r) \in Query
<1>1. (IF r.time \in Clock THEN r.time ELSE StartTime) \in Clock
  <2>1. StartTime \in Clock
    BY ClientsAssumption DEF Clock, StartTime
  <2>2. QED
    BY <2>1
<1>2. (IF r.time = Absent THEN Mangled ELSE r.to) \in Dest \cup {Mangled}
  <2>1. CASE r = NotSent
    BY <2>1 DEF NotSent
  <2>2. CASE r \in Request
    BY <2>2 DEF Request
  <2>3. QED
    BY <2>1, <2>2, ClientsAssumption
<1>3. QED
  BY <1>1, <1>2 DEF Parsed, Query

\* A node is taken out of the list and its connection closed; everybody else
\* stays.
LEMMA SendTypes ==
  ASSUME TypeOK, SendAnswer
  PROVE  TypeOK'
<1> DEFINE n == find_client(clients, serving[1])
           r == [query |-> serving[1], arrival |-> serving[2]]
<1>1. serving \in Query \X Arrival
  BY DEF SendAnswer, TypeOK
<1>2. r \in [query : Query, arrival : Arrival]
  BY <1>1
<1>3. n \in Node
  <2>1. clients \in Seq(Node) /\ Waiting(clients, serving[1]) # {}
    BY DEF SendAnswer, TypeOK
  <2>2. PICK k \in 1..Len(clients) : n = clients[k]
    BY <2>1, FindClient
  <2>3. QED
    BY <2>1, <2>2
<1>4. /\ got' = [got EXCEPT ![open[n.fd]] = Append(got[open[n.fd]], r)]
      /\ open' = [open EXCEPT ![n.fd] = Free]
      /\ clients' = remove_client(clients, n.fd)
  BY DEF SendAnswer
<1> HIDE DEF n, r
<1>5. clients' \in Seq(Node)
  BY <1>4, RemoveClient DEF TypeOK, Without
<1>6. got' \in [Conn -> Seq([query : Query, arrival : Arrival])]
  <2>1. open[n.fd] \in Conn => got[open[n.fd]] \in Seq([query : Query, arrival : Arrival])
    BY DEF TypeOK
  <2>2. open[n.fd] \in Conn => Append(got[open[n.fd]], r) \in Seq([query : Query, arrival : Arrival])
    BY <1>2, <2>1
  <2>3. QED
    BY <1>4, <2>2 DEF TypeOK
<1>7. open' \in [Fd -> Conn \cup {Free}]
  BY <1>4 DEF TypeOK
<1>8. QED
  BY <1>5, <1>6, <1>7 DEF SendAnswer, TypeOK, browsers

\* A registered request puts a node into the list and perhaps its query into
\* the ring.
LEMMA RegisterTypes ==
  ASSUME TypeOK, NEW c \in Conn, Register(c)
  PROVE  TypeOK'
<1> DEFINE q == Parsed(request[c])
<1>1. q \in Query
  BY ParsedIsQuery DEF Register, TypeOK
<1>2. NextFd \in Fd
  BY NextFdIsFree DEF Register, Accepts
<1> HIDE DEF q
<1>3. clients' \in Seq(Node)
  <2>1. remove_client(clients, NextFd) \in Seq(Node)
    BY RemoveClient DEF TypeOK, Without
  <2>2. QED
    BY <1>1, <1>2, <2>1, AddClient DEF Register, q
<1>4. /\ queries' \in [0..MAX_QUERIES - 1 -> Query \cup {None}]
      /\ query_index' \in 0..MAX_QUERIES - 1
  <2>1. CASE add_query(q)
    BY <1>1, <2>1, ClientsAssumption DEF add_query, TypeOK
  <2>2. CASE UNCHANGED <<queries, query_index>>
    BY <2>2 DEF TypeOK
  <2>3. QED
    BY <2>1, <2>2 DEF Register, q
<1>5. /\ open' \in [Fd -> Conn \cup {Free}]
      /\ asked' \in [Conn -> Query \cup {None}]
      /\ backlog' \subseteq Conn
  BY <1>1, <1>2 DEF Register, TypeOK, q
<1>6. QED
  BY <1>3, <1>4, <1>5 DEF Register, TypeOK

\* Every table keeps its type: in particular the index stays inside the ring.
THEOREM ClientsTypes == Spec => []TypeOK
<1>1. Init => TypeOK
  <2>1. Init => foreign \in BOOLEAN
    BY Zenon DEF Init
  <2>2. QED
    BY <2>1, ClientsAssumption DEF Init, TypeOK
<1>2. TypeOK /\ [Next]_vars => TypeOK'
  <2> SUFFICES ASSUME TypeOK, [Next]_vars PROVE TypeOK'
    OBVIOUS
  <2> USE ClientsAssumption
  <2>1. ASSUME NEW c \in Conn, Connect(c) PROVE TypeOK'
    <3>1. PICK r \in Requests : request' = [request EXCEPT ![c] = r]
      BY <2>1 DEF Connect
    <3>2. request' \in [Conn -> Requests \cup {NotSent}]
      BY <3>1 DEF TypeOK
    <3>3. backlog' \subseteq Conn
      BY <2>1 DEF Connect, TypeOK
    <3>4. QED
      BY <2>1, <3>2, <3>3 DEF Connect, TypeOK, tables
  <2>2. ASSUME NEW c \in Conn, Leave(c) PROVE TypeOK'
    BY <2>2 DEF Leave, TypeOK, tables
  <2>3. ASSUME NEW c \in Conn, Ignore(c) PROVE TypeOK'
    <3>1. NextFd \in Fd
      BY <2>3, NextFdIsFree DEF Ignore, Accepts
    <3>2. QED
      BY <2>3, <3>1 DEF Ignore, TypeOK
  <2>4. ASSUME Crash PROVE TypeOK'
    BY <2>4 DEF Crash, TypeOK, browsers, tables
  <2>5. ASSUME NEW q \in Query, NEW a \in Arrival, Finish(q, a) PROVE TypeOK'
    <3>1. coming[q] - 1 \in 0..Copies
      BY <2>5 DEF Finish, TypeOK
    <3>2. coming' \in [Query -> 0..Copies]
      BY <2>5, <3>1 DEF Finish, TypeOK
    <3>3. serving' \in Query \X Arrival
      BY <2>5 DEF Finish
    <3>4. QED
      BY <2>5, <3>2, <3>3 DEF Finish, TypeOK, browsers, tables
  <2>6. ASSUME NEW q \in Query, LoadMangled(q) PROVE TypeOK'
    <3>1. ASSUME coming' = [coming EXCEPT ![q] = 0] PROVE coming' \in [Query -> 0..Copies]
      BY <3>1 DEF TypeOK
    <3>2. QED
      BY <2>4, <2>6, <3>1 DEF LoadMangled, TypeOK, browsers, tables
  <2>7. CASE Timeout
    <3>1. coming' \in [Query -> 0..Copies]
      BY <2>7 DEF Timeout, TypeOK
    <3>2. QED
      BY <2>7, <3>1 DEF Timeout, TypeOK, browsers, tables
  <2>8. CASE AllAnswered
    BY <2>8 DEF AllAnswered, TypeOK, browsers, tables
  <2>9. CASE Interrupt \/ PassOn \/ Disturb
    BY <2>9 DEF Interrupt, PassOn, Disturb, TypeOK, browsers, tables
  <2>10. CASE Restart
    <3>1. asked' \in [Conn -> Query \cup {None}]
      BY <2>10 DEF Restart, TypeOK
    <3>2. starts' \in 0..MaxStarts
      BY <2>10 DEF Restart, TypeOK
    <3>3. left' \subseteq Conn /\ before' \subseteq Conn
      BY <2>10 DEF Restart
    <3>4. open' \in [Fd -> Conn \cup {Free}] /\ clients' \in Seq(Node)
      BY <2>10 DEF Restart
    <3>5. /\ queries' \in [0..MAX_QUERIES - 1 -> Query \cup {None}]
          /\ query_index' \in 0..MAX_QUERIES - 1
      BY <2>10 DEF Restart
    <3>6. QED
      BY <2>10, <3>1, <3>2, <3>3, <3>4, <3>5 DEF Restart, TypeOK
  <2>11. CASE UNCHANGED vars
    BY <2>11 DEF vars, TypeOK, browsers, tables
  <2>12. QED
    BY <2>1, <2>2, <2>3, <2>4, <2>5, <2>6, <2>7, <2>8, <2>9, <2>10, <2>11,
       RegisterTypes, SendTypes
    DEF Next, RegisterFails, Answers, FinishUnrecorded, SendFails
<1>3. QED
  BY <1>1, <1>2, PTL DEF Spec

-----------------------------------------------------------------------------
(* The list, the descriptors and the connections *)

\* The station has had nothing to do with connection c yet.
Fresh(c) == asked[c] = None /\ got[c] = <<>> /\ \A fd \in Fd : open[fd] # c

\* What ListIsSound needs to be inductive: no connection has two descriptors,
\* nothing is known of a connection before it is accepted, and whoever has
\* had an answer has asked.
ConnectionsAreSound ==
  /\ \A fd, gd \in Fd : open[fd] = open[gd] /\ open[fd] # Free => fd = gd
  /\ \A c \in Conn : c \in backlog \/ request[c] = NotSent => Fresh(c)
  /\ \A c \in backlog : request[c] # NotSent
  /\ \A c \in Conn : asked[c] = None => got[c] = <<>>

ListInv == TypeOK /\ ListIsSound /\ ConnectionsAreSound

\* A registered request has a descriptor that no node has, so that remove_client
\* does nothing and the list is the old one with a node in front.
LEMMA RegisterStep ==
  ASSUME TypeOK, ListIsSound, NEW c \in Conn, Register(c)
  PROVE  /\ NextFd \in Fd /\ open[NextFd] = Free
         /\ Parsed(request[c]) \in Query
         /\ \A i \in 1..Len(clients) : clients[i].fd # NextFd
         /\ Len(clients') = Len(clients) + 1
         /\ clients'[1] = [fd |-> NextFd, query |-> Parsed(request[c])]
         /\ \A i \in 1..Len(clients) : clients'[i + 1] = clients[i]
<1>1. NextFd \in Fd /\ open[NextFd] = Free
  BY NextFdIsFree DEF Register, Accepts
<1>2. \A i \in 1..Len(clients) : clients[i].fd # NextFd
  BY <1>1, ClientsAssumption DEF ListIsSound
<1>3. clients \in Seq(Node)
  BY DEF TypeOK
<1>4. remove_client(clients, NextFd) = clients
  BY <1>2, <1>3, RemoveClient
<1>5. Parsed(request[c]) \in Query
  BY ParsedIsQuery DEF Register, TypeOK
<1>6. clients' = add_client(clients, NextFd, Parsed(request[c]))
  BY <1>4 DEF Register
<1>7. QED
  BY <1>1, <1>2, <1>3, <1>5, <1>6, AddClient

\* An answer goes to the connection of a node that waits for it, and that node
\* leaves the list.
LEMMA SendStep ==
  ASSUME TypeOK, ListIsSound, SendAnswer
  PROVE  \E k \in 1..Len(clients) :
           /\ clients[k].query = serving[1]
           /\ got' = [got EXCEPT ![open[clients[k].fd]] =
                        Append(@, [query |-> serving[1], arrival |-> serving[2]])]
           /\ open' = [open EXCEPT ![clients[k].fd] = Free]
           /\ Without(clients, k, clients')
<1>1. clients \in Seq(Node) /\ Waiting(clients, serving[1]) # {}
  BY DEF SendAnswer, TypeOK
<1>2. PICK k \in 1..Len(clients) : /\ find_client(clients, serving[1]) = clients[k]
                                  /\ clients[k].query = serving[1]
  BY <1>1, FindClient
<1>3. Without(clients, k, remove_client(clients, clients[k].fd))
  <2>1. PICK l \in 1..Len(clients) :
             /\ clients[l].fd = clients[k].fd
             /\ Without(clients, l, remove_client(clients, clients[k].fd))
    BY <1>1, RemoveClient
  <2>2. l = k
    BY <2>1 DEF ListIsSound
  <2>3. QED
    BY <2>1, <2>2
<1>4. QED
  BY <1>2, <1>3 DEF SendAnswer

\* Nodes of the list have descriptors.
LEMMA NodeTypes ==
  ASSUME TypeOK
  PROVE  \A i \in 1..Len(clients) : clients[i].fd \in Fd /\ clients[i].query \in Query
<1>1. \A i \in 1..Len(clients) : clients[i] \in Node
  BY DEF TypeOK
<1>2. QED
  BY <1>1 DEF Node

\* The empty entry is no query, and what is not sent is no request.
LEMMA NotTheSame == None \notin Query /\ NotSent \notin Requests /\ Nonsense # NotSent
<1>1. None \notin Query
  BY ClientsAssumption DEF None, Query, Absent, Clock
<1>2. Nonsense # NotSent
  BY DEF NotSent, Nonsense, Absent, NoTime
<1>3. NotSent \notin Request
  BY ClientsAssumption DEF NotSent, Request
<1>4. QED
  BY <1>1, <1>2, <1>3, ClientsAssumption

\* Accepting and registering a request keeps the list sound.
LEMMA RegisterKeepsList ==
  ASSUME ListInv, NEW c \in Conn, Register(c)
  PROVE  ListIsSound' /\ ConnectionsAreSound'
<1> DEFINE q == Parsed(request[c])
<1>1. TypeOK /\ ListIsSound /\ ConnectionsAreSound
  BY DEF ListInv
<1>2. /\ NextFd \in Fd /\ open[NextFd] = Free
      /\ q \in Query
      /\ \A i \in 1..Len(clients) : clients[i].fd # NextFd
      /\ Len(clients') = Len(clients) + 1
      /\ clients'[1] = [fd |-> NextFd, query |-> q]
      /\ \A i \in 1..Len(clients) : clients'[i + 1] = clients[i]
  BY <1>1, RegisterStep
<1> HIDE DEF q
<1>3. /\ open' = [open EXCEPT ![NextFd] = c] /\ asked' = [asked EXCEPT ![c] = q]
      /\ got' = got /\ request' = request /\ backlog' = backlog \ {c} /\ c \in backlog
  BY DEF Register, Accepts, q
<1>4. Fresh(c) /\ request[c] # NotSent
  BY <1>1, <1>3 DEF ConnectionsAreSound
<1>5. \A i \in 1..Len(clients) : clients[i].fd \in Fd
  BY <1>1, NodeTypes
<1>6. /\ open' \in [Fd -> Conn \cup {Free}] /\ open'[NextFd] = c
      /\ \A fd \in Fd : fd # NextFd => open'[fd] = open[fd]
  BY <1>1, <1>2, <1>3 DEF TypeOK
<1>7. asked'[c] = q /\ \A d \in Conn : d # c => asked'[d] = asked[d]
  BY <1>1, <1>3 DEF TypeOK
<1>8. Len(clients) \in Nat
  BY <1>1 DEF TypeOK
<1>9. clients'[1].fd = NextFd /\ clients'[1].query = q
  BY <1>2
<1>10. \A i \in 2..Len(clients') : i - 1 \in 1..Len(clients) /\ clients'[i] = clients[i - 1]
  <2> SUFFICES ASSUME NEW i \in 2..Len(clients')
               PROVE  i - 1 \in 1..Len(clients) /\ clients'[i] = clients[i - 1]
    OBVIOUS
  <2>1. i - 1 \in 1..Len(clients)
    BY <1>2, <1>8
  <2>2. clients'[(i - 1) + 1] = clients[i - 1]
    BY <1>2, <2>1
  <2>3. QED
    BY <2>1, <2>2
<1>11. \A i, j \in 1..Len(clients') : clients'[i].fd = clients'[j].fd => i = j
  <2> SUFFICES ASSUME NEW i \in 1..Len(clients'), NEW j \in 1..Len(clients'),
                      clients'[i].fd = clients'[j].fd
               PROVE  i = j
    OBVIOUS
  <2>1. i # 1 => i \in 2..Len(clients')
    BY <1>2, <1>8
  <2>2. j # 1 => j \in 2..Len(clients')
    BY <1>2, <1>8
  <2>3. CASE i = 1 /\ j # 1
    BY <1>2, <1>9, <1>10, <2>2, <2>3
  <2>4. CASE i # 1 /\ j = 1
    BY <1>2, <1>9, <1>10, <2>1, <2>4
  <2>5. CASE i # 1 /\ j # 1
    <3>1. i - 1 = j - 1
      BY <1>1, <1>10, <2>1, <2>2, <2>5 DEF ListIsSound
    <3>2. QED
      BY <3>1, <1>2, <1>8
  <2>6. QED
    BY <2>3, <2>4, <2>5
<1>12. \A i \in 1..Len(clients') : LET d == open'[clients'[i].fd] IN
         d \in Conn /\ asked'[d] = clients'[i].query /\ got'[d] = <<>>
  <2> SUFFICES ASSUME NEW i \in 1..Len(clients')
               PROVE  LET d == open'[clients'[i].fd] IN
                      d \in Conn /\ asked'[d] = clients'[i].query /\ got'[d] = <<>>
    OBVIOUS
  <2>1. CASE i = 1
    BY <2>1, <1>3, <1>4, <1>6, <1>7, <1>9 DEF Fresh
  <2>2. CASE i # 1
    <3> DEFINE d == open[clients[i - 1].fd]
    <3>1. i - 1 \in 1..Len(clients) /\ clients'[i] = clients[i - 1]
      BY <1>2, <1>8, <1>10, <2>2
    <3>2. d \in Conn /\ asked[d] = clients[i - 1].query /\ got[d] = <<>>
      BY <1>1, <3>1 DEF ListIsSound
    <3>3. open'[clients'[i].fd] = d
      BY <1>2, <1>5, <1>6, <3>1
    <3>4. d # c
      BY <1>4, <1>5, <3>1 DEF Fresh
    <3>5. QED
      BY <1>3, <1>7, <3>1, <3>2, <3>3, <3>4
  <2>3. QED
    BY <2>1, <2>2
<1>13. ListIsSound'
  BY <1>11, <1>12 DEF ListIsSound
<1>14. ConnectionsAreSound'
  <2>1. \A fd, gd \in Fd : open'[fd] = open'[gd] /\ open'[fd] # Free => fd = gd
    BY <1>1, <1>4, <1>6 DEF ConnectionsAreSound, Fresh
  <2>2. \A d \in Conn : d \in backlog' \/ request'[d] = NotSent => Fresh(d)'
    BY <1>1, <1>3, <1>4, <1>6, <1>7 DEF ConnectionsAreSound, Fresh
  <2>3. \A d \in backlog' : request'[d] # NotSent
    BY <1>1, <1>3 DEF ConnectionsAreSound
  <2>4. \A d \in Conn : asked'[d] = None => got'[d] = <<>>
    BY <1>1, <1>2, <1>3, <1>7, NotTheSame DEF ConnectionsAreSound
  <2>5. QED
    BY <2>1, <2>2, <2>3, <2>4 DEF ConnectionsAreSound
<1>15. QED
  BY <1>13, <1>14

\* Giving an answer keeps the list sound: everybody else in it has another
\* descriptor, hence another connection.
LEMMA SendKeepsList ==
  ASSUME ListInv, SendAnswer
  PROVE  ListIsSound' /\ ConnectionsAreSound'
<1>1. TypeOK /\ ListIsSound /\ ConnectionsAreSound
  BY DEF ListInv
<1>2. PICK k \in 1..Len(clients) :
        /\ clients[k].query = serving[1]
        /\ got' = [got EXCEPT ![open[clients[k].fd]] =
                     Append(@, [query |-> serving[1], arrival |-> serving[2]])]
        /\ open' = [open EXCEPT ![clients[k].fd] = Free]
        /\ Without(clients, k, clients')
  BY <1>1, SendStep
<1>3. /\ request' = request /\ backlog' = backlog /\ asked' = asked
  BY DEF SendAnswer, browsers
<1> DEFINE f == clients[k].fd
           c == open[f]
<1>4. f \in Fd /\ c \in Conn /\ asked[c] = clients[k].query
  BY <1>1, NodeTypes DEF ListIsSound
<1>5. asked[c] # None
  BY <1>1, <1>4, NodeTypes, NotTheSame
<1>6. \A fd \in Fd : open'[fd] = IF fd = f THEN Free ELSE open[fd]
  BY <1>1, <1>2, <1>4 DEF TypeOK
<1>7. \A d \in Conn : d # c => got'[d] = got[d]
  BY <1>1, <1>2, <1>4 DEF TypeOK
<1>8. Len(clients) \in Nat /\ Len(clients') = Len(clients) - 1
  BY <1>1, <1>2 DEF TypeOK, Without
<1> DEFINE At(i) == IF i < k THEN i ELSE i + 1
<1>9. \A i \in 1..Len(clients') : /\ At(i) \in 1..Len(clients) /\ At(i) # k
                                  /\ clients'[i] = clients[At(i)]
  BY <1>2, <1>8 DEF Without
<1>10. \A i, j \in 1..Len(clients') : At(i) = At(j) => i = j
  BY <1>8
<1>11. Free \notin Conn
  BY ClientsAssumption
<1> HIDE DEF f, c, At
<1>12. ASSUME NEW i \in 1..Len(clients')
       PROVE  LET d == open'[clients'[i].fd] IN
              d \in Conn /\ asked'[d] = clients'[i].query /\ got'[d] = <<>>
  <2> DEFINE d == open[clients[At(i)].fd]
  <2>1. At(i) \in 1..Len(clients) /\ At(i) # k /\ clients'[i] = clients[At(i)]
    BY <1>9
  <2>2. d \in Conn /\ asked[d] = clients[At(i)].query /\ got[d] = <<>>
    BY <1>1, <2>1 DEF ListIsSound
  <2>3. clients[At(i)].fd # f /\ clients[At(i)].fd \in Fd
    BY <1>1, <2>1, NodeTypes DEF ListIsSound, f
  <2>4. d # c
    BY <1>1, <1>4, <1>11, <2>2, <2>3 DEF ConnectionsAreSound, c
  <2>5. open'[clients'[i].fd] = d
    BY <1>6, <2>1, <2>3
  <2>6. QED
    BY <1>3, <1>7, <2>1, <2>2, <2>4, <2>5
<1>13. ASSUME NEW i \in 1..Len(clients'), NEW j \in 1..Len(clients'),
              clients'[i].fd = clients'[j].fd
       PROVE  i = j
  <2>1. At(i) = At(j)
    BY <1>1, <1>9, <1>13 DEF ListIsSound
  <2>2. QED
    BY <1>10, <2>1
<1>14. ListIsSound'
  BY <1>12, <1>13 DEF ListIsSound
<1>15. ConnectionsAreSound'
  <2>1. \A fd, gd \in Fd : open'[fd] = open'[gd] /\ open'[fd] # Free => fd = gd
    BY <1>1, <1>6 DEF ConnectionsAreSound
  <2>2. \A d \in Conn : d \in backlog' \/ request'[d] = NotSent => Fresh(d)'
    BY <1>1, <1>3, <1>5, <1>6, <1>7, <1>11 DEF ConnectionsAreSound, Fresh
  <2>3. \A d \in backlog' : request'[d] # NotSent
    BY <1>1, <1>3 DEF ConnectionsAreSound
  <2>4. \A d \in Conn : asked'[d] = None => got'[d] = <<>>
    BY <1>1, <1>3, <1>5, <1>7 DEF ConnectionsAreSound
  <2>5. QED
    BY <2>1, <2>2, <2>3, <2>4 DEF ConnectionsAreSound
<1>16. QED
  BY <1>14, <1>15

\* Every other step keeps the list sound, too.
LEMMA ListStep == ListInv /\ [Next]_vars => ListIsSound' /\ ConnectionsAreSound'
<1> SUFFICES ASSUME ListInv, [Next]_vars PROVE ListIsSound' /\ ConnectionsAreSound'
  OBVIOUS
<1>1. TypeOK /\ ListIsSound /\ ConnectionsAreSound
  BY DEF ListInv
<1>2. ASSUME UNCHANGED <<request, backlog, open, clients, asked, got>>
      PROVE  ListIsSound' /\ ConnectionsAreSound'
  BY <1>1, <1>2 DEF ListIsSound, ConnectionsAreSound, Fresh
<1>3. ASSUME NEW c \in Conn, Connect(c) PROVE ListIsSound' /\ ConnectionsAreSound'
  <2>1. UNCHANGED <<open, clients, asked, got>> /\ backlog' = backlog \cup {c}
    BY <1>3 DEF Connect, tables
  <2>2. PICK r \in Requests : request' = [request EXCEPT ![c] = r]
    BY <1>3 DEF Connect
  <2>3. /\ request'[c] # NotSent
        /\ \A d \in Conn : d # c => request'[d] = request[d]
    BY <1>1, <2>2, NotTheSame DEF TypeOK
  <2>4. ListIsSound'
    BY <1>1, <2>1 DEF ListIsSound
  <2>5. \A d \in Conn : Fresh(d) => Fresh(d)'
    BY <2>1 DEF Fresh
  <2>6. request[c] = NotSent
    BY <1>3 DEF Connect
  <2>7. backlog \subseteq Conn
    BY <1>1 DEF TypeOK
  <2>8. ConnectionsAreSound'
    BY <1>1, <2>1, <2>3, <2>5, <2>6, <2>7 DEF ConnectionsAreSound
  <2>9. QED
    BY <2>4, <2>8
<1>4. ASSUME NEW c \in Conn, Ignore(c) PROVE ListIsSound' /\ ConnectionsAreSound'
  <2>1. NextFd \in Fd /\ open[NextFd] = Free
    BY <1>4, NextFdIsFree DEF Ignore, Accepts
  <2>2. /\ UNCHANGED <<request, clients, asked, got>> /\ backlog' = backlog \ {c}
        /\ open' = [open EXCEPT ![NextFd] = c] /\ c \in backlog
    BY <1>4 DEF Ignore, Accepts
  <2>3. open'[NextFd] = c /\ \A fd \in Fd : fd # NextFd => open'[fd] = open[fd]
    BY <1>1, <2>1, <2>2 DEF TypeOK
  <2>4. Fresh(c) /\ request[c] # NotSent
    BY <1>1, <2>2 DEF ConnectionsAreSound
  <2>5. \A i \in 1..Len(clients) : clients[i].fd \in Fd /\ clients[i].fd # NextFd
    BY <1>1, <2>1, NodeTypes, ClientsAssumption DEF ListIsSound
  <2>6. ListIsSound'
    BY <1>1, <2>2, <2>3, <2>5 DEF ListIsSound
  <2>7. \A fd, gd \in Fd : open'[fd] = open'[gd] /\ open'[fd] # Free => fd = gd
    BY <1>1, <2>3, <2>4 DEF ConnectionsAreSound, Fresh
  <2>8. ConnectionsAreSound'
    BY <1>1, <2>2, <2>3, <2>4, <2>7 DEF ConnectionsAreSound, Fresh
  <2>9. QED
    BY <2>6, <2>8
<1>5. ASSUME Restart PROVE ListIsSound' /\ ConnectionsAreSound'
  <2>1. ListIsSound'
    BY <1>5 DEF Restart, ListIsSound
  <2>2. \A fd \in Fd : open'[fd] = Free
    BY <1>5 DEF Restart
  <2>3. \A d \in Conn : asked'[d] = IF got[d] = <<>> THEN None ELSE asked[d]
    BY <1>5 DEF Restart
  <2>4. got' = got /\ request' = request /\ backlog' = {}
    BY <1>5 DEF Restart
  <2>5. Free \notin Conn
    BY ClientsAssumption
  <2>6. ConnectionsAreSound'
    BY <1>1, <2>2, <2>3, <2>4, <2>5 DEF ConnectionsAreSound, Fresh
  <2>7. QED
    BY <2>1, <2>6
<1>6. ASSUME NEW c \in Conn, Leave(c) PROVE ListIsSound' /\ ConnectionsAreSound'
  BY <1>2, <1>6 DEF Leave, tables
<1>7. ASSUME \/ Crash \/ Interrupt \/ Timeout \/ AllAnswered \/ PassOn \/ Disturb
             \/ UNCHANGED vars
      PROVE  ListIsSound' /\ ConnectionsAreSound'
  BY <1>2, <1>7 DEF Crash, Interrupt, Timeout, AllAnswered, PassOn, Disturb, vars, browsers,
                    tables
<1>8. ASSUME NEW q \in Query, Answers(q) \/ LoadMangled(q)
      PROVE  ListIsSound' /\ ConnectionsAreSound'
  BY <1>2, <1>7, <1>8 DEF Answers, Finish, LoadMangled, browsers, tables
<1>9. QED
  BY <1>3, <1>4, <1>5, <1>6, <1>7, <1>8, RegisterKeepsList, SendKeepsList
  DEF Next, RegisterFails, FinishUnrecorded, SendFails

\* The invariant of the list and of the connections in it.
LEMMA ClientsInv == Spec => []ListInv
<1>1. Init => ListIsSound /\ ConnectionsAreSound
  <2> SUFFICES ASSUME Init PROVE ListIsSound /\ ConnectionsAreSound
    OBVIOUS
  <2>1. ListIsSound
    BY DEF Init, ListIsSound
  <2>2. ConnectionsAreSound
    BY ClientsAssumption DEF Init, ConnectionsAreSound, Fresh
  <2>3. QED
    BY <2>1, <2>2
<1>2. QED
  BY <1>1, ListStep, ClientsTypes, PTL DEF Spec, ListInv

\* The client list never has a stale descriptor, although accept hands out the
\* numbers of closed ones again.
THEOREM ClientsListIsSound == Spec => []ListIsSound
BY ClientsInv, PTL DEF ListInv

-----------------------------------------------------------------------------
(* Descriptors *)

\* Every step accounts for the descriptors that it leaves open.
LEMMA AccountStep ==
  ListInv /\ DescriptorsAreAccounted /\ [Next]_vars => DescriptorsAreAccounted'
<1> DEFINE Listed(fd) == \E i \in 1..Len(clients) : clients[i].fd = fd
           Accounted  == \A fd \in Fd : open[fd] # Free =>
                           Listed(fd) \/ request[open[fd]] = Nonsense
<1>1. DescriptorsAreAccounted <=> Accounted
  BY DEF DescriptorsAreAccounted, Nodes
<1>2. DescriptorsAreAccounted' <=> Accounted'
  BY DEF DescriptorsAreAccounted, Nodes
<1> SUFFICES ASSUME ListInv, Accounted, [Next]_vars PROVE Accounted'
  BY <1>1, <1>2
<1>3. TypeOK /\ ListIsSound /\ ConnectionsAreSound
  BY DEF ListInv
<1>4. ASSUME UNCHANGED <<request, open, clients>> PROVE Accounted'
  BY <1>4
<1>5. ASSUME NEW c \in Conn, Connect(c) PROVE Accounted'
  <2>1. UNCHANGED <<open, clients>> /\ request[c] = NotSent
    BY <1>5 DEF Connect, tables
  <2>2. \A d \in Conn : d # c => request'[d] = request[d]
    BY <1>3, <1>5 DEF Connect, TypeOK
  <2>3. \A fd \in Fd : open[fd] # Free => open[fd] \in Conn
    BY <1>3 DEF TypeOK
  <2>4. \A fd \in Fd : open[fd] # c
    BY <1>3, <2>1 DEF ConnectionsAreSound, Fresh
  <2>5. QED
    BY <2>1, <2>2, <2>3, <2>4
<1>6. ASSUME NEW c \in Conn, Ignore(c) PROVE Accounted'
  <2>1. NextFd \in Fd
    BY <1>6, NextFdIsFree DEF Ignore, Accepts
  <2>2. open'[NextFd] = c /\ \A fd \in Fd : fd # NextFd => open'[fd] = open[fd]
    BY <1>3, <1>6, <2>1 DEF Ignore, TypeOK
  <2>3. UNCHANGED <<request, clients>> /\ request[c] = Nonsense
    BY <1>6 DEF Ignore
  <2>4. QED
    BY <2>2, <2>3
<1>7. ASSUME NEW c \in Conn, Register(c) PROVE Accounted'
  <2>1. /\ NextFd \in Fd
        /\ Len(clients') = Len(clients) + 1
        /\ clients'[1] = [fd |-> NextFd, query |-> Parsed(request[c])]
        /\ \A i \in 1..Len(clients) : clients'[i + 1] = clients[i]
    BY <1>3, <1>7, RegisterStep
  <2>2. \A fd \in Fd : fd # NextFd => open'[fd] = open[fd]
    BY <1>3, <1>7, <2>1 DEF Register, TypeOK
  <2>3. Len(clients) \in Nat /\ request' = request
    BY <1>3, <1>7 DEF TypeOK, Register
  <2>4. 1 \in 1..Len(clients') /\ clients'[1].fd = NextFd
    BY <2>1, <2>3
  <2>5. \A fd \in Fd : Listed(fd) => Listed(fd)'
    <3> SUFFICES ASSUME NEW fd \in Fd, NEW i \in 1..Len(clients), clients[i].fd = fd
                 PROVE  Listed(fd)'
      OBVIOUS
    <3>1. i + 1 \in 1..Len(clients') /\ clients'[i + 1].fd = fd
      BY <2>1, <2>3
    <3>2. QED
      BY <3>1
  <2> HIDE DEF Listed
  <2>6. QED
    <3> SUFFICES ASSUME NEW fd \in Fd, open'[fd] # Free
                 PROVE  Listed(fd)' \/ request'[open'[fd]] = Nonsense
      OBVIOUS
    <3>1. CASE fd = NextFd
      <4>1. \E i \in 1..Len(clients') : clients'[i].fd = fd
        BY <2>4, <3>1
      <4>2. QED
        BY <4>1 DEF Listed
    <3>2. CASE fd # NextFd
      BY <2>2, <2>3, <2>5, <3>2
    <3>3. QED
      BY <3>1, <3>2
<1>8. ASSUME SendAnswer PROVE Accounted'
  <2>1. PICK k \in 1..Len(clients) :
           /\ open' = [open EXCEPT ![clients[k].fd] = Free]
           /\ Without(clients, k, clients')
    BY <1>3, <1>8, SendStep
  <2>2. clients[k].fd \in Fd /\ request' = request
    BY <1>3, <1>8, NodeTypes DEF SendAnswer, browsers
  <2>3. \A fd \in Fd : open'[fd] = IF fd = clients[k].fd THEN Free ELSE open[fd]
    BY <1>3, <2>1, <2>2 DEF TypeOK
  <2>4. Len(clients) \in Nat
    BY <1>3 DEF TypeOK
  <2>5. \A fd \in Fd : Listed(fd) /\ fd # clients[k].fd => Listed(fd)'
    <3> SUFFICES ASSUME NEW fd \in Fd, NEW i \in 1..Len(clients), clients[i].fd = fd,
                        fd # clients[k].fd
                 PROVE  Listed(fd)'
      OBVIOUS
    <3>1. CASE i < k
      <4>1. i \in 1..Len(clients') /\ clients'[i] = clients[i]
        BY <2>1, <2>4, <3>1 DEF Without
      <4>2. QED
        BY <4>1
    <3>2. CASE i > k
      <4>1. i - 1 \in 1..Len(clients') /\ clients'[i - 1] = clients[(i - 1) + 1]
        BY <2>1, <2>4, <3>2 DEF Without
      <4>2. QED
        BY <4>1
    <3>3. QED
      BY <3>1, <3>2
  <2> HIDE DEF Listed
  <2>6. ASSUME NEW fd \in Fd, open'[fd] # Free
        PROVE  Listed(fd)' \/ request'[open'[fd]] = Nonsense
    <3>1. fd # clients[k].fd /\ open'[fd] = open[fd]
      BY <2>3, <2>6
    <3>2. Listed(fd) \/ request[open[fd]] = Nonsense
      BY <2>6, <3>1
    <3>3. QED
      BY <2>2, <2>5, <3>1, <3>2
  <2>7. QED
    BY <2>6
<1>9. ASSUME Restart PROVE Accounted'
  BY <1>9 DEF Restart
<1>10. ASSUME NEW c \in Conn, Leave(c) PROVE Accounted'
  BY <1>4, <1>10 DEF Leave, tables
<1> HIDE DEF Accounted
<1>11. ASSUME \/ Crash \/ Interrupt \/ Timeout \/ AllAnswered \/ PassOn \/ Disturb
             \/ UNCHANGED vars
      PROVE  Accounted'
  BY <1>4, <1>11 DEF Crash, Interrupt, Timeout, AllAnswered, PassOn, Disturb, vars, browsers,
                    tables
<1>12. ASSUME NEW q \in Query, Answers(q) \/ LoadMangled(q) PROVE Accounted'
  BY <1>4, <1>11, <1>12 DEF Answers, Finish, LoadMangled, browsers, tables
<1>13. QED
  BY <1>5, <1>6, <1>7, <1>8, <1>9, <1>10, <1>11, <1>12
  DEF Next, RegisterFails, FinishUnrecorded, SendFails

\* Nothing but a request that made no sense costs the station a descriptor.
THEOREM ClientsDescriptorsAreAccounted == Spec => []DescriptorsAreAccounted
<1>1. Init => DescriptorsAreAccounted
  BY DEF Init, DescriptorsAreAccounted
<1>2. QED
  BY <1>1, AccountStep, ClientsInv, PTL DEF Spec

-----------------------------------------------------------------------------
(* The ring of queries *)

\* add_query is called for what search_query has not found, and overwrites one
\* entry: no query comes to be in the ring twice.
THEOREM ClientsRingHasNoDuplicates == Spec => []RingHasNoDuplicates
<1>1. Init => RingHasNoDuplicates
  BY DEF Init, RingHasNoDuplicates
<1>2. TypeOK /\ RingHasNoDuplicates /\ [Next]_vars => RingHasNoDuplicates'
  <2> SUFFICES ASSUME TypeOK, RingHasNoDuplicates, [Next]_vars PROVE RingHasNoDuplicates'
    OBVIOUS
  <2>1. CASE queries' = queries
    BY <2>1 DEF RingHasNoDuplicates
  <2>2. ASSUME NEW c \in Conn, Register(c) PROVE RingHasNoDuplicates'
    <3> DEFINE q == Parsed(request[c])
    <3>1. CASE Recorded(q)
      BY <2>1, <2>2, <3>1 DEF Register
    <3>2. CASE ~ Recorded(q)
      <4>1. queries' = [queries EXCEPT ![query_index] = q]
        BY <2>2, <3>2 DEF Register, add_query
      <4>2. QED
        BY <3>2, <4>1 DEF Recorded, RingHasNoDuplicates, TypeOK
    <3>3. QED
      BY <3>1, <3>2
  <2>3. CASE Restart
    BY <2>3 DEF Restart, RingHasNoDuplicates
  <2>4. ASSUME \/ Crash \/ Interrupt \/ Timeout \/ AllAnswered \/ SendAnswer
               \/ PassOn \/ Disturb \/ UNCHANGED vars
        PROVE  queries' = queries
    BY <2>4 DEF Crash, Interrupt, Timeout, AllAnswered, SendAnswer, PassOn, Disturb, vars,
                tables
  <2>5. ASSUME NEW q \in Query, Answers(q) \/ LoadMangled(q) PROVE queries' = queries
    BY <2>5 DEF Answers, Finish, LoadMangled, Crash, tables
  <2>6. ASSUME NEW c \in Conn, Connect(c) \/ Leave(c) \/ Ignore(c) PROVE queries' = queries
    BY <2>6 DEF Connect, Leave, Ignore, tables
  <2>7. QED
    BY <2>1, <2>2, <2>3, <2>4, <2>5, <2>6
    DEF Next, RegisterFails, FinishUnrecorded, SendFails
<1>3. QED
  BY <1>1, <1>2, ClientsTypes, PTL DEF Spec

-----------------------------------------------------------------------------
(* The promise of module Desk *)

\* Whoever registers has not asked before, and asks.
LEMMA RegisterAsks ==
  ASSUME ListInv, NEW c \in Conn, Register(c)
  PROVE  Promise!Ask(c, Parsed(request[c])) /\ Parsed(request[c]) \in Query
<1>1. TypeOK /\ ListIsSound /\ ConnectionsAreSound
  BY DEF ListInv
<1>2. Parsed(request[c]) \in Query
  BY <1>1, RegisterStep
<1>3. asked[c] = None
  BY <1>1 DEF Register, Accepts, ConnectionsAreSound, Fresh
<1>4. QED
  BY <1>2, <1>3 DEF Register, Accepts, Promise!Ask, running

\* Whom find_client finds has asked for what is being answered, and has had no
\* answer yet.
LEMMA SendAnswers ==
  ASSUME ListInv, SendAnswer
  PROVE  \E c \in Conn, a \in Arrival : Promise!Answer(c, a)
<1>1. TypeOK /\ ListIsSound
  BY DEF ListInv
<1>2. PICK k \in 1..Len(clients) :
        /\ clients[k].query = serving[1]
        /\ got' = [got EXCEPT ![open[clients[k].fd]] =
                     Append(@, [query |-> serving[1], arrival |-> serving[2]])]
  BY <1>1, SendStep
<1> DEFINE c == open[clients[k].fd]
           r == [query |-> serving[1], arrival |-> serving[2]]
<1>3. c \in Conn /\ asked[c] = serving[1] /\ got[c] = <<>>
  BY <1>1, <1>2 DEF ListIsSound
<1>4. serving \in Query \X Arrival
  BY <1>1 DEF SendAnswer, TypeOK
<1>5. serving[1] \in Query /\ serving[2] \in Arrival
  BY <1>4
<1>6. asked[c] # None
  BY <1>3, <1>5, NotTheSame
<1> HIDE DEF c
<1>7. got' = [got EXCEPT ![c] = <<r>>]
  <2>1. Append(<<>>, r) = <<r>>
    OBVIOUS
  <2>2. got' = [got EXCEPT ![c] = Append(got[c], r)]
    BY <1>2 DEF c
  <2> HIDE DEF r
  <2>3. QED
    BY <1>3, <2>1, <2>2
<1>8. Promise!Answer(c, serving[2])
  BY <1>3, <1>6, <1>7 DEF SendAnswer, Promise!Answer, running
<1>9. QED
  BY <1>3, <1>5, <1>8

\* Every step of the tables is a step that the desk may take, or changes
\* nothing that it speaks of.
LEMMA DeskStep == ListInv /\ [Next]_vars => [Promise!Next]_(Promise!vars)
<1> SUFFICES ASSUME ListInv, [Next]_vars PROVE [Promise!Next]_(Promise!vars)
  OBVIOUS
<1>1. ASSUME NEW c \in Conn, Register(c) PROVE Promise!Next
  BY <1>1, RegisterAsks DEF Promise!Next
<1>2. ASSUME SendAnswer PROVE Promise!Next
  BY <1>2, SendAnswers DEF Promise!Next
<1>3. ASSUME Crash, running PROVE Promise!Next
  BY <1>3 DEF Crash, running, Promise!Next, Promise!Stop
<1>4. ASSUME Interrupt PROVE Promise!Next
  BY <1>4 DEF Interrupt, running, Promise!Next, Promise!Stop
<1>5. ASSUME Restart PROVE Promise!Next
  BY <1>5 DEF Restart, running, Promise!Next, Promise!Restart
<1>6. ASSUME UNCHANGED <<asked, got, status>> PROVE UNCHANGED Promise!vars
  BY <1>6 DEF Promise!vars, running
<1>7. ASSUME NEW c \in Conn, Connect(c) \/ Leave(c) \/ Ignore(c)
      PROVE  UNCHANGED Promise!vars
  BY <1>6, <1>7 DEF Connect, Leave, Ignore
<1>8. ASSUME Timeout \/ AllAnswered \/ PassOn \/ Disturb \/ UNCHANGED vars
      PROVE  UNCHANGED Promise!vars
  BY <1>6, <1>8 DEF Timeout, AllAnswered, PassOn, Disturb, vars
<1>9. ASSUME NEW q \in Query, Answers(q) \/ LoadMangled(q)
      PROVE  [Promise!Next]_(Promise!vars)
  BY <1>3, <1>6, <1>9 DEF Answers, Finish, LoadMangled
<1>10. QED
  BY <1>1, <1>2, <1>3, <1>4, <1>5, <1>7, <1>8, <1>9
  DEF Next, RegisterFails, FinishUnrecorded, SendFails, Accepts

\* Descriptors, list and ring implement the desk: a connection gets at most one
\* answer, to what it asked, from the process that it asked.
THEOREM ClientsKeepThePromise == Spec => PromiseIsKept
<1>1. Init => Promise!Init
  BY DEF Init, Promise!Init, running
<1>2. QED
  BY <1>1, DeskStep, ClientsInv, PTL DEF Spec, PromiseIsKept, Promise!Spec

-----------------------------------------------------------------------------
(* What kills the process *)

\* The processes before were asked q, or are being asked it.
Earlier(q) == \E c \in before : Parsed(request[c]) = q

\* The process that runs has nothing to do with the connections of those before.
LivesApart ==
  \A c \in before : request[c] # NotSent /\ c \notin backlog /\ \A fd \in Fd : open[fd] # c

\* The ring has nothing but what this process was asked; while it has room for
\* that it has all of it, in the entries before query_index; and only to that,
\* and to what the processes before were asked, are there answers.
RingKeepsUp ==
  /\ IsFiniteSet(Mine)
  /\ \A i \in 0..MAX_QUERIES - 1 : queries[i] \in Mine \cup {None}
  /\ Cardinality(Mine) <= MAX_QUERIES =>
       /\ \A q \in Mine : Recorded(q)
       /\ query_index = Cardinality(Mine) % MAX_QUERIES
       /\ \A i \in 0..MAX_QUERIES - 1 : i >= Cardinality(Mine) => queries[i] = None
  /\ \A q \in Query : coming[q] > 0 => Earlier(q) \/ q \in Mine
  /\ \A c \in Conn : asked[c] # None =>
       asked[c] = Parsed(request[c]) /\ request[c] \notin {NotSent, Nonsense}

LifeInv == LivesApart /\ RingKeepsUp

\* Only a new start ends a life.
LEMMA BeforeStays ==
  ASSUME [Next]_vars, ~ Restart
  PROVE  before' = before
BY DEF Next, Connect, Leave, Ignore, Register, RegisterFails, Crash, Answers, Finish,
       FinishUnrecorded, LoadMangled, Timeout, SendAnswer, SendFails, AllAnswered, PassOn,
       Disturb, Interrupt, vars

\* What was sent stays.
LEMMA RequestsStay ==
  ASSUME TypeOK, [Next]_vars
  PROVE  \A c \in Conn : request[c] # NotSent => request'[c] = request[c]
<1>1. ASSUME NEW c \in Conn, Connect(c)
      PROVE  \A d \in Conn : request[d] # NotSent => request'[d] = request[d]
  BY <1>1 DEF Connect, TypeOK
<1>2. ASSUME NEW c \in Conn, Leave(c) \/ Ignore(c) \/ Register(c) PROVE request' = request
  BY <1>2 DEF Leave, Ignore, Register
<1>3. ASSUME NEW q \in Query, Answers(q) \/ LoadMangled(q) PROVE request' = request
  BY <1>3 DEF Answers, Finish, LoadMangled, Crash, browsers
<1>4. ASSUME \/ Crash \/ Timeout \/ SendAnswer \/ AllAnswered \/ PassOn \/ Disturb
             \/ Interrupt \/ Restart \/ UNCHANGED vars
      PROVE  request' = request
  BY <1>4 DEF Crash, Timeout, SendAnswer, AllAnswered, PassOn, Disturb, Interrupt, Restart,
              vars, browsers
<1>5. QED
  BY <1>1, <1>2, <1>3, <1>4 DEF Next, RegisterFails, FinishUnrecorded, SendFails

\* So does what earlier processes were asked.
LEMMA EarlierStays ==
  ASSUME TypeOK, LivesApart, [Next]_vars, ~ Restart, NEW q, Earlier(q)
  PROVE  Earlier(q)'
<1>1. before' = before /\ before \subseteq Conn
  BY BeforeStays DEF TypeOK
<1>2. \A c \in before : request'[c] = request[c]
  BY <1>1, RequestsStay DEF LivesApart
<1>3. QED
  BY <1>1, <1>2 DEF Earlier

\* A new start: everything that was asked was asked before it.
LEMMA NewLife ==
  ASSUME ListInv, LifeInv, Restart
  PROVE  LifeInv'
<1>1. TypeOK /\ ConnectionsAreSound /\ before \subseteq Conn
  BY DEF ListInv, TypeOK
<1>2. /\ before' = {c \in Conn : request[c] # NotSent} /\ request' = request
      /\ backlog' = {} /\ open' = [fd \in Fd |-> Free] /\ query_index' = 0
      /\ queries' = [i \in 0..MAX_QUERIES - 1 |-> None] /\ coming' = coming
      /\ asked' = [c \in Conn |-> IF got[c] = <<>> THEN None ELSE asked[c]]
  BY DEF Restart
<1>3. LivesApart'
  BY <1>2, ClientsAssumption DEF LivesApart
<1>4. \A c \in Conn \ before' : asked'[c] = None
  BY <1>1, <1>2 DEF ConnectionsAreSound, Fresh
<1>5. Mine' = {}
  BY <1>4 DEF Mine
<1>6. IsFiniteSet(Mine') /\ Cardinality(Mine') = 0
  BY <1>5, FS_EmptySet
<1>7. \A c \in Conn : asked'[c] # None =>
        asked'[c] = Parsed(request'[c]) /\ request'[c] \notin {NotSent, Nonsense}
  BY <1>2 DEF LifeInv, RingKeepsUp
<1>8. ASSUME NEW q \in Query, coming[q] > 0 PROVE Earlier(q)'
  <2>1. CASE Earlier(q)
    BY <1>1, <1>2, <2>1 DEF Earlier, LifeInv, LivesApart
  <2>2. CASE q \in Mine
    BY <1>2, <2>2 DEF Earlier, Mine, LifeInv, RingKeepsUp
  <2>3. QED
    BY <1>8, <2>1, <2>2 DEF LifeInv, RingKeepsUp
<1>9. RingKeepsUp'
  <2>1. \A i \in 0..MAX_QUERIES - 1 : queries'[i] = None
    BY <1>2
  <2>2. query_index' = 0 % MAX_QUERIES
    BY <1>2, ClientsAssumption
  <2>3. QED
    BY <1>2, <1>5, <1>6, <1>7, <1>8, <2>1, <2>2 DEF RingKeepsUp
<1>10. QED
  BY <1>3, <1>9 DEF LifeInv

\* Otherwise the lives stay apart.
LEMMA ApartStep ==
  ASSUME ListInv, LivesApart, [Next]_vars, ~ Restart
  PROVE  LivesApart'
<1>1. TypeOK /\ ListIsSound /\ before \subseteq Conn /\ Free \notin Conn
  BY ClientsAssumption DEF ListInv, TypeOK
<1>2. before' = before /\ \A c \in before : request'[c] = request[c]
  BY <1>1, BeforeStays, RequestsStay DEF LivesApart
<1>3. ASSUME \A c \in before : c \in backlog' => c \in backlog,
             \A fd \in Fd : open'[fd] # open[fd] => open'[fd] \notin before
      PROVE  LivesApart'
  BY <1>2, <1>3 DEF LivesApart
<1>4. ASSUME NEW c \in Conn, Connect(c) PROVE LivesApart'
  <2>1. request[c] = NotSent /\ backlog' = backlog \cup {c} /\ open' = open
    BY <1>4 DEF Connect, tables
  <2>2. QED
    BY <1>3, <2>1 DEF LivesApart
<1>5. ASSUME NEW c \in Conn, Ignore(c) \/ Register(c) PROVE LivesApart'
  <2>1. /\ c \in backlog /\ backlog' = backlog \ {c}
        /\ open' = [open EXCEPT ![NextFd] = c]
    BY <1>5 DEF Ignore, Register, Accepts
  <2>2. \A fd \in Fd : open'[fd] # open[fd] => open'[fd] = c
    BY <1>1, <2>1 DEF TypeOK
  <2>3. QED
    BY <1>3, <2>1, <2>2 DEF LivesApart
<1>6. ASSUME SendAnswer PROVE LivesApart'
  <2>1. PICK k \in 1..Len(clients) : open' = [open EXCEPT ![clients[k].fd] = Free]
    BY <1>1, <1>6, SendStep
  <2>2. \A fd \in Fd : open'[fd] # open[fd] => open'[fd] = Free
    BY <1>1, <2>1 DEF TypeOK
  <2>3. backlog' = backlog
    BY <1>6 DEF SendAnswer, browsers
  <2>4. QED
    BY <1>1, <1>3, <2>2, <2>3
<1>7. ASSUME NEW q \in Query, Answers(q) \/ LoadMangled(q) PROVE LivesApart'
  BY <1>3, <1>7 DEF Answers, Finish, LoadMangled, Crash, browsers, tables
<1>8. ASSUME NEW c \in Conn, Leave(c) PROVE LivesApart'
  BY <1>3, <1>8 DEF Leave, tables
<1>9. ASSUME \/ Crash \/ Timeout \/ AllAnswered \/ PassOn \/ Disturb \/ Interrupt
             \/ UNCHANGED vars
      PROVE  LivesApart'
  BY <1>3, <1>9 DEF Crash, Timeout, AllAnswered, PassOn, Disturb, Interrupt, vars, browsers,
                    tables
<1>10. QED
  BY <1>4, <1>5, <1>6, <1>7, <1>8, <1>9 DEF Next, RegisterFails, FinishUnrecorded, SendFails

\* A mangled destination comes from a request without a time.
LEMMA MangledIsUntimed ==
  ASSUME TypeOK, LifeInv, NEW q \in Query, coming[q] > 0, q.destination = Mangled
  PROVE  \E c \in Conn : /\ request[c].time = Absent /\ request[c] # NotSent
                         /\ Parsed(request[c]) = q
<1>1. PICK c \in Conn : Parsed(request[c]) = q /\ request[c] # NotSent
  <2>1. CASE Earlier(q)
    BY <2>1 DEF Earlier, LifeInv, LivesApart, TypeOK
  <2>2. CASE q \in Mine
    BY <2>2 DEF Mine, LifeInv, RingKeepsUp
  <2>3. QED
    BY <2>1, <2>2 DEF LifeInv, RingKeepsUp
<1>2. request[c] \in Request \cup {Nonsense}
  BY <1>1, ClientsAssumption DEF TypeOK
<1>3. request[c].to # Mangled
  BY <1>2, ClientsAssumption DEF Request, Nonsense, Mangled, Empty
<1>4. request[c].time = Absent
  BY <1>1, <1>3 DEF Parsed
<1>5. QED
  BY <1>1, <1>4

\* The ring has what there are answers to, as long as it has room.
LEMMA ComingIsRecorded ==
  ASSUME RingKeepsUp, NEW q \in Query, coming[q] > 0, ~ Recorded(q), ~ Earlier(q)
  PROVE  Cardinality(Mine) > MAX_QUERIES
<1>1. IsFiniteSet(Mine) /\ q \in Mine
  BY DEF RingKeepsUp
<1>2. Cardinality(Mine) \in Nat
  BY <1>1, FS_CardinalityType
<1>3. QED
  BY <1>1, <1>2, ClientsAssumption DEF RingKeepsUp

\* A new request adds its query to those asked, and to the ring unless it is
\* there.
LEMMA RegisterKeepsRing ==
  ASSUME ListInv, LifeInv, NEW c \in Conn, Register(c)
  PROVE  RingKeepsUp'
<1> DEFINE q == Parsed(request[c])
<1>1. TypeOK /\ ListIsSound /\ ConnectionsAreSound
  BY DEF ListInv
<1>2. q \in Query
  BY <1>1, RegisterStep
<1>3. /\ c \in backlog /\ asked[c] = None /\ request[c] # NotSent
      /\ c \notin before /\ before' = before /\ RingKeepsUp
  BY <1>1 DEF Register, Accepts, ConnectionsAreSound, Fresh, LifeInv, LivesApart
<1>4. /\ asked' = [asked EXCEPT ![c] = q] /\ request[c] # Nonsense
      /\ IF Recorded(q) THEN UNCHANGED <<queries, query_index>> ELSE add_query(q)
      /\ coming' = coming /\ request' = request
  BY DEF Register
<1>5. q # None
  BY <1>2, NotTheSame
<1> HIDE DEF q
<1>6. asked'[c] = q /\ \A d \in Conn : d # c => asked'[d] = asked[d]
  BY <1>1, <1>4 DEF TypeOK
<1>7. Mine' = Mine \cup {q}
  BY <1>3, <1>5, <1>6 DEF Mine
<1>8. IsFiniteSet(Mine)
  BY <1>3 DEF RingKeepsUp
<1>9. /\ IsFiniteSet(Mine') /\ Cardinality(Mine) \in Nat
      /\ Cardinality(Mine') = IF q \in Mine THEN Cardinality(Mine)
                                              ELSE Cardinality(Mine) + 1
  BY <1>7, <1>8, FS_AddElement, FS_CardinalityType
<1>10. None \notin Mine
  BY DEF Mine
<1>11. /\ \A p \in Query : coming'[p] > 0 => Earlier(p)' \/ p \in Mine'
       /\ \A d \in Conn : asked'[d] # None =>
            asked'[d] = Parsed(request'[d]) /\ request'[d] \notin {NotSent, Nonsense}
  <2>1. \A p \in Query : coming'[p] > 0 => Earlier(p)' \/ p \in Mine'
    BY <1>3, <1>4, <1>7 DEF RingKeepsUp, Earlier
  <2>2. \A d \in Conn : asked'[d] # None =>
            asked'[d] = Parsed(request'[d]) /\ request'[d] \notin {NotSent, Nonsense}
    BY <1>3, <1>4, <1>6 DEF RingKeepsUp, q
  <2>3. QED
    BY <2>1, <2>2
<1>12. DOMAIN queries = 0..MAX_QUERIES - 1 /\ query_index \in 0..MAX_QUERIES - 1
  BY <1>1 DEF TypeOK
<1> DEFINE Half(A, ring, index) ==
             /\ \A i \in 0..MAX_QUERIES - 1 : ring[i] \in A \cup {None}
             /\ Cardinality(A) <= MAX_QUERIES =>
                  /\ \A p \in A : \E i \in 0..MAX_QUERIES - 1 : ring[i] = p
                  /\ index = Cardinality(A) % MAX_QUERIES
                  /\ \A i \in 0..MAX_QUERIES - 1 : i >= Cardinality(A) => ring[i] = None
<1>13. Half(Mine, queries, query_index)
  BY <1>3, <1>12 DEF RingKeepsUp, Recorded
<1>14. Half(Mine', queries', query_index')
  <2>1. CASE Recorded(q)
    <3>1. q \in Mine
      BY <1>3, <1>5, <1>12, <2>1 DEF RingKeepsUp, Recorded
    <3>2. Mine' = Mine
      BY <1>7, <3>1
    <3>3. queries' = queries /\ query_index' = query_index
      BY <1>4, <2>1
    <3> HIDE DEF Half
    <3>4. QED
      BY <1>13, <3>2, <3>3
  <2>2. CASE ~ Recorded(q)
    <3>1. queries' = [queries EXCEPT ![query_index] = q]
          /\ query_index' = (query_index + 1) % MAX_QUERIES
      BY <1>4, <2>2 DEF add_query
    <3>2. queries'[query_index] = q
          /\ \A i \in 0..MAX_QUERIES - 1 : i # query_index => queries'[i] = queries[i]
      BY <1>1, <1>12, <3>1 DEF TypeOK
    <3>3. \A i \in 0..MAX_QUERIES - 1 : queries'[i] \in Mine' \cup {None}
      BY <1>7, <1>13, <3>2
    <3>4. ASSUME Cardinality(Mine') <= MAX_QUERIES
          PROVE  /\ \A p \in Mine' : \E i \in 0..MAX_QUERIES - 1 : queries'[i] = p
                 /\ query_index' = Cardinality(Mine') % MAX_QUERIES
                 /\ \A i \in 0..MAX_QUERIES - 1 :
                       i >= Cardinality(Mine') => queries'[i] = None
      <4>1. Cardinality(Mine) <= MAX_QUERIES /\ MAX_QUERIES \in Nat \ {0}
        BY <1>9, <3>4, ClientsAssumption
      <4>2. q \notin Mine
        BY <1>12, <1>13, <2>2, <4>1 DEF Recorded
      <4>3. Cardinality(Mine') = Cardinality(Mine) + 1 /\ Cardinality(Mine) < MAX_QUERIES
        BY <1>9, <3>4, <4>1, <4>2
      <4>4. query_index = Cardinality(Mine)
        BY <1>9, <1>13, <4>1, <4>3
      <4>5. queries[query_index] = None
        BY <1>9, <1>12, <1>13, <4>1, <4>4
      <4>6. \A p \in Mine' : \E i \in 0..MAX_QUERIES - 1 : queries'[i] = p
        <5> SUFFICES ASSUME NEW p \in Mine'
                     PROVE  \E i \in 0..MAX_QUERIES - 1 : queries'[i] = p
          OBVIOUS
        <5>1. CASE p = q
          BY <1>12, <3>2, <5>1
        <5>2. CASE p \in Mine
          <6>1. PICK i \in 0..MAX_QUERIES - 1 : queries[i] = p
            BY <1>13, <4>1, <5>2
          <6>2. i # query_index
            BY <1>10, <4>5, <5>2, <6>1
          <6>3. QED
            BY <3>2, <6>1, <6>2
        <5>3. QED
          BY <1>7, <5>1, <5>2
      <4>7. query_index' = Cardinality(Mine') % MAX_QUERIES
        BY <3>1, <4>3, <4>4
      <4>8. \A i \in 0..MAX_QUERIES - 1 :
               i >= Cardinality(Mine') => queries'[i] = None
        BY <1>9, <1>13, <3>2, <4>1, <4>3, <4>4
      <4>9. QED
        BY <4>6, <4>7, <4>8
    <3>5. QED
      BY <3>3, <3>4
  <2>3. QED
    BY <2>1, <2>2
<1>15. DOMAIN queries' = 0..MAX_QUERIES - 1
  BY <1>4, <1>12 DEF add_query
<1>16. QED
  BY <1>9, <1>11, <1>14, <1>15 DEF RingKeepsUp, Recorded

\* Every other step keeps the ring and what is asked in step.
LEMMA RingStep ==
  ASSUME ListInv, LifeInv, [Next]_vars, ~ Restart
  PROVE  RingKeepsUp'
<1>1. /\ TypeOK /\ ListIsSound /\ ConnectionsAreSound
      /\ RingKeepsUp /\ before' = before
  BY BeforeStays DEF ListInv, LifeInv
<1>2. ASSUME UNCHANGED <<request, asked, queries, query_index>>,
             \A q \in Query : coming'[q] > 0 => Earlier(q) \/ q \in Mine
      PROVE  RingKeepsUp'
  <2>1. Mine' = Mine /\ \A q \in Query : Earlier(q)' <=> Earlier(q)
    BY <1>1, <1>2 DEF Mine, Earlier
  <2>2. QED
    BY <1>1, <1>2, <2>1 DEF RingKeepsUp, Recorded
<1>3. \A q \in Query : coming[q] > 0 => Earlier(q) \/ q \in Mine
  BY <1>1 DEF RingKeepsUp
<1>4. ASSUME NEW c \in Conn, Connect(c) PROVE RingKeepsUp'
  <2>1. UNCHANGED <<asked, queries, query_index, coming>> /\ asked[c] = None
    BY <1>1, <1>4 DEF Connect, tables, ConnectionsAreSound, Fresh
  <2>2. \A d \in Conn : d # c => request'[d] = request[d]
    BY <1>1, <1>4 DEF Connect, TypeOK
  <2>3. \A d \in Conn : asked'[d] # None =>
          asked'[d] = Parsed(request'[d]) /\ request'[d] \notin {NotSent, Nonsense}
    BY <1>1, <2>1, <2>2 DEF RingKeepsUp
  <2>4. Mine' = Mine
    BY <1>1, <2>1 DEF Mine
  <2>5. \A q \in Query : Earlier(q) => Earlier(q)'
    BY <1>1, EarlierStays DEF LifeInv
  <2>6. QED
    BY <1>1, <2>1, <2>3, <2>4, <2>5 DEF RingKeepsUp, Recorded
<1>5. CASE Timeout
  <2>1. UNCHANGED <<request, asked, queries, query_index>>
    BY <1>5 DEF Timeout, browsers, tables
  <2>2. \A n \in Nodes : n.query \in Mine
    <3> SUFFICES ASSUME NEW i \in 1..Len(clients) PROVE clients[i].query \in Mine
      BY DEF Nodes
    <3>1. clients[i].query # None
      BY <1>1, NodeTypes, NotTheSame
    <3>2. clients[i].fd \in Fd
      BY <1>1, NodeTypes
    <3>3. QED
      BY <1>1, <3>1, <3>2 DEF ListIsSound, LifeInv, LivesApart, Mine
  <2>3. \A q \in Query : coming'[q] = coming[q] \/ q \in Mine
    BY <1>5, <2>2 DEF Timeout
  <2>4. QED
    BY <1>2, <1>3, <2>1, <2>3
<1>6. ASSUME NEW q \in Query, Answers(q) \/ LoadMangled(q) PROVE RingKeepsUp'
  <2>1. UNCHANGED <<request, asked, queries, query_index>>
    BY <1>6 DEF Answers, Finish, LoadMangled, Crash, browsers, tables
  <2>2. coming[q] > 0 /\ \A p \in Query : p # q => coming'[p] = coming[p]
    BY <1>1, <1>6 DEF Answers, Finish, LoadMangled, Crash, TypeOK
  <2>3. QED
    BY <1>2, <1>3, <2>1, <2>2
<1>7. ASSUME NEW c \in Conn, Leave(c) \/ Ignore(c) PROVE RingKeepsUp'
  BY <1>2, <1>3, <1>7 DEF Leave, Ignore, tables
<1>8. ASSUME \/ Crash \/ Interrupt \/ AllAnswered \/ SendAnswer \/ PassOn \/ Disturb
             \/ UNCHANGED vars
      PROVE  RingKeepsUp'
  BY <1>2, <1>3, <1>8 DEF Crash, Interrupt, AllAnswered, SendAnswer, PassOn, Disturb, vars,
                          browsers, tables
<1>9. QED
  BY <1>4, <1>5, <1>6, <1>7, <1>8, RegisterKeepsRing
  DEF Next, RegisterFails, FinishUnrecorded, SendFails

\* A step that kills the process has a cause.
LEMMA CrashNeedsACause ==
  ASSUME ListInv, LifeInv, [Next]_vars, status # "crashed", status' = "crashed"
  PROVE  \/ \E c \in left : c \in backlog \/ \E fd \in Fd : open[fd] = c
         \/ \E c \in Conn : /\ request[c].time = Absent /\ request[c] # NotSent
                            /\ c \in backlog \/ coming[Parsed(request[c])] > 0
         \/ \E q \in Query : /\ coming[q] > 0 /\ ~ Recorded(q)
                             /\ Earlier(q) \/ Cardinality(Mine) > MAX_QUERIES
<1> DEFINE Gone    == \E c \in left : c \in backlog \/ \E fd \in Fd : open[fd] = c
           Untimed == \E c \in Conn : /\ request[c].time = Absent /\ request[c] # NotSent
                                      /\ c \in backlog \/ coming[Parsed(request[c])] > 0
           Lost    == \E q \in Query : /\ coming[q] > 0 /\ ~ Recorded(q)
                                       /\ Earlier(q) \/ Cardinality(Mine) > MAX_QUERIES
<1> HIDE DEF Gone, Untimed, Lost
<1>1. TypeOK /\ ListIsSound /\ ConnectionsAreSound
  BY DEF ListInv
<1>2. ASSUME NEW c \in Conn, RegisterFails(c) PROVE Gone \/ Untimed
  <2>1. c \in backlog /\ (c \in left \/ request[c].time = Absent)
    BY <1>2 DEF RegisterFails, Accepts
  <2>2. request[c] # NotSent
    BY <1>1, <2>1 DEF ConnectionsAreSound
  <2>3. QED
    BY <2>1, <2>2 DEF Gone, Untimed
<1>3. ASSUME NEW q \in Query, FinishUnrecorded(q) PROVE Lost
  <2>1. coming[q] > 0 /\ ~ Recorded(q) /\ RingKeepsUp
    BY <1>3 DEF FinishUnrecorded, LifeInv
  <2>2. QED
    BY <2>1, ComingIsRecorded DEF Lost
<1>4. ASSUME NEW q \in Query, LoadMangled(q) PROVE Untimed
  <2>1. coming[q] > 0 /\ q.destination = Mangled
    BY <1>4 DEF LoadMangled
  <2>2. QED
    BY <1>1, <2>1, MangledIsUntimed DEF Untimed
<1>5. ASSUME SendFails PROVE Gone
  <2>1. /\ clients \in Seq(Node) /\ Waiting(clients, serving[1]) # {}
        /\ open[find_client(clients, serving[1]).fd] \in left
    BY <1>1, <1>5 DEF SendFails, TypeOK
  <2>2. PICK k \in 1..Len(clients) : find_client(clients, serving[1]) = clients[k]
    BY <2>1, FindClient
  <2>3. clients[k].fd \in Fd /\ open[clients[k].fd] \in left
    BY <1>1, <2>1, <2>2, NodeTypes
  <2>4. QED
    BY <2>3 DEF Gone
<1>6. ASSUME NEW c \in Conn, Connect(c) \/ Leave(c) \/ Ignore(c) \/ Register(c)
      PROVE  FALSE
  BY <1>6 DEF Connect, Leave, Ignore, Register
<1>7. ASSUME NEW q \in Query, Answers(q) PROVE FALSE
  BY <1>7 DEF Answers, Finish
<1>8. ASSUME \/ Timeout \/ SendAnswer \/ AllAnswered \/ PassOn \/ Disturb \/ Interrupt
             \/ Restart \/ UNCHANGED vars
      PROVE  FALSE
  BY <1>8 DEF Timeout, SendAnswer, AllAnswered, PassOn, Disturb, Interrupt, Restart, vars
<1>9. Gone \/ Untimed \/ Lost
  BY <1>2, <1>3, <1>4, <1>5, <1>6, <1>7, <1>8 DEF Next
<1>10. QED
  BY <1>9 DEF Gone, Untimed, Lost

\* In its first life and in every later one the process dies of a browser that
\* has gone, of a request without a time, or of an answer to a query that its
\* ring does not have: one that a process before it was asked, or it has itself
\* been asked more than the ring holds.
THEOREM ClientsCrashHasACause == Spec => CrashHasACause
<1>1. Init => LifeInv
  <2> SUFFICES ASSUME Init PROVE LifeInv
    OBVIOUS
  <2>1. Mine = {}
    BY DEF Init, Mine
  <2>2. IsFiniteSet(Mine) /\ Cardinality(Mine) = 0
    BY <2>1, FS_EmptySet
  <2>3. RingKeepsUp
    BY <2>1, <2>2, ClientsAssumption DEF Init, RingKeepsUp
  <2>4. LivesApart
    BY DEF Init, LivesApart
  <2>5. QED
    BY <2>3, <2>4 DEF LifeInv
<1>2. ListInv /\ LifeInv /\ [Next]_vars => LifeInv'
  BY NewLife, ApartStep, RingStep DEF LifeInv
<1>3. ListInv /\ LifeInv /\ [Next]_vars =>
        [status # "crashed" /\ status' = "crashed" =>
           \/ \E c \in left : c \in backlog \/ \E fd \in Fd : open[fd] = c
           \/ \E c \in Conn : /\ request[c].time = Absent /\ request[c] # NotSent
                              /\ c \in backlog \/ coming[Parsed(request[c])] > 0
           \/ \E q \in Query : /\ coming[q] > 0 /\ ~ Recorded(q)
                               /\ \/ \E c \in before : Parsed(request[c]) = q
                                  \/ Cardinality(Mine) > MAX_QUERIES]_vars
  BY CrashNeedsACause, Zenon DEF Earlier
<1>4. QED
  BY <1>1, <1>2, <1>3, ClientsInv, PTL DEF Spec, CrashHasACause
=============================================================================
