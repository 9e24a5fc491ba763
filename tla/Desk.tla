-------------------------------- MODULE Desk --------------------------------
(***************************************************************************)
(* What a station promises the browsers that ask it: each connection gets  *)
(* at most one answer, and it is an answer to its own question, asked of   *)
(* the process that gives it and not of one before it.  Module             *)
(* Clients is the implementation, with descriptors, a linked list and a    *)
(* ring of queries.                                                        *)
(***************************************************************************)
EXTENDS Sequences

CONSTANTS
  Conn,      \* browser connections, each used for one request
  Query,     \* questions
  Arrival,   \* what an answer says: when one arrives
  None       \* no question

VARIABLES
  asked,     \* the question of each connection
  got,       \* the answers sent to each connection
  running    \* the station process is alive

vars == <<asked, got, running>>

Init ==
  /\ asked = [c \in Conn |-> None]
  /\ got = [c \in Conn |-> <<>>]
  /\ running = TRUE

Ask(c, q) ==
  /\ running /\ asked[c] = None
  /\ asked' = [asked EXCEPT ![c] = q]
  /\ UNCHANGED <<got, running>>

Answer(c, a) ==
  /\ running /\ asked[c] # None /\ got[c] = <<>>
  /\ got' = [got EXCEPT ![c] = <<[query |-> asked[c], arrival |-> a]>>]
  /\ UNCHANGED <<asked, running>>

Stop ==
  /\ running
  /\ running' = FALSE
  /\ UNCHANGED <<asked, got>>

\* A new process knows nothing of those who wait.
Restart ==
  /\ ~ running
  /\ running' = TRUE
  /\ asked' = [c \in Conn |-> IF got[c] = <<>> THEN None ELSE asked[c]]
  /\ UNCHANGED got

Next ==
  \/ \E c \in Conn : \/ \E q \in Query : Ask(c, q)
                     \/ \E a \in Arrival : Answer(c, a)
  \/ Stop \/ Restart

Spec == Init /\ [][Next]_vars
=============================================================================
