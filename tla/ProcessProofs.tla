--------------------------- MODULE ProcessProofs ----------------------------
(***************************************************************************)
(* Theorems about module Process, for any number of processes, rows and    *)
(* edits.                                                                  *)
(***************************************************************************)
EXTENDS Process, NatLemmas

-----------------------------------------------------------------------------
(* The array of readtimetable *)

\* The size of the array exceeds the number of its lines: it always has the
\* entry that sscanf writes into next.
LEMMA GrownExceeds ==
  ASSUME NEW n \in Nat
  PROVE  Grown(n) \in Nat /\ Grown(n) > n
<1> DEFINE Solves(f) ==
             f = [k \in 0..n |-> IF k = 0 THEN 1
                                 ELSE IF k = f[k - 1] THEN 2 * f[k - 1] ELSE f[k - 1]]
           size == CHOOSE f : Solves(f)
<1>1. Grown(n) = size[n]
  BY Zenon DEF Grown
<1>2. \E f : Solves(f)
  <2> DEFINE D == [k \in 1..n |-> [v \in Nat |-> IF k = v THEN 2 * v ELSE v]]
  <2>1. D \in [1..n -> [Nat -> Nat]]
    OBVIOUS
  <2>2. PICK f \in [0..n -> Nat] : Recurses(f, n, 1, D)
    <3> HIDE DEF D, Solves
    <3>1. 1 \in Nat
      OBVIOUS
    <3>2. QED
      BY <2>1, <3>1, RecursionUpTo
  <2>3. ASSUME NEW k \in 1..n
        PROVE  f[k] = IF k = f[k - 1] THEN 2 * f[k - 1] ELSE f[k - 1]
    <3>1. f[k - 1] \in Nat
      OBVIOUS
    <3>2. QED
      BY <2>2, <3>1 DEF Recurses
  <2>4. Solves(f)
    BY <2>2, <2>3 DEF Recurses
  <2> HIDE DEF Solves
  <2>5. QED
    BY <2>4
<1>3. Solves(size)
  <2> HIDE DEF Solves
  <2> QED BY <1>2
<1> HIDE DEF size
<1> DEFINE T == {k \in 0..n : size[k] \in Nat /\ size[k] > k}
<1>4. 0 \in T
  BY <1>3
<1>5. ASSUME NEW k \in 1..n, k - 1 \in T
      PROVE  k \in T
  <2>1. size[k] = IF k = size[k - 1] THEN 2 * size[k - 1] ELSE size[k - 1]
    BY <1>3
  <2>2. QED
    BY <1>5, <2>1
<1>6. 0..n \subseteq T
  <2> HIDE DEF T
  <2> QED BY <1>4, <1>5, InductionUpTo, Zenon
<1>7. QED
  BY <1>1, <1>6

-----------------------------------------------------------------------------
(* Types *)

\* What readtimetable leaves in the memory of a process.
LEMMA ReadTypes ==
  ASSUME TypeOK, NEW p \in Proc, readtimetable(p)
  PROVE  /\ table' \in [Proc -> [version : {-1} \cup 0..MaxEdits, services : Nat, size : Nat]]
         /\ named' \in [Proc -> BOOLEAN]
<1>1. CASE file.there
  <2> DEFINE t == [version |-> file.version, services |-> Services(file.rows),
                   size |-> Grown(Services(file.rows))]
  <2>1. Services(file.rows) \in Nat
    BY ProcessAssumption DEF TypeOK, Services
  <2>2. Grown(Services(file.rows)) \in Nat
    BY <2>1, GrownExceeds
  <2>3. t \in [version : {-1} \cup 0..MaxEdits, services : Nat, size : Nat]
    BY <2>1, <2>2 DEF TypeOK
  <2>4. table' = [table EXCEPT ![p] = t]
    BY <1>1 DEF readtimetable
  <2>5. named' = [named EXCEPT ![p] = named[p] \/ file.rows > 0]
    BY <1>1 DEF readtimetable
  <2>6. named \in [Proc -> BOOLEAN]
    BY DEF TypeOK
  <2>7. named' \in [Proc -> BOOLEAN]
    BY <2>5, <2>6
  <2> HIDE DEF t
  <2>8. QED
    BY <2>3, <2>4, <2>7 DEF TypeOK
<1>2. CASE ~ file.there
  BY <1>2 DEF readtimetable, TypeOK
<1>3. QED
  BY <1>1, <1>2

\* The end of a process, whatever it comes of, keeps the types.
LEMMA EndsTypes ==
  ASSUME TypeOK, NEW p \in Proc, NEW how \in Over, Ends(p, how)
  PROVE  TypeOK'
<1>1. NoTable \in [version : {-1} \cup 0..MaxEdits, services : Nat, size : Nat]
  BY DEF NoTable
<1>2. lingering' \in BOOLEAN /\ ipv6' \in BOOLEAN
  BY DEF Ends, TypeOK
<1>3. pc' \in [Proc -> Starting \cup Looping \cup Over \cup {"off", "closing"}]
  BY DEF Ends, Goto, TypeOK
<1>4. named' \in [Proc -> BOOLEAN] /\ whole' \in [Proc -> BOOLEAN]
  BY DEF Ends, TypeOK
<1>5. /\ latest' \in [Proc -> {-1} \cup Nat] /\ stamp' \in [Proc -> {-1} \cup Nat]
      /\ count' \in [Proc -> Nat]
      /\ table' \in [Proc -> [version : {-1} \cup 0..MaxEdits, services : Nat, size : Nat]]
  BY <1>1 DEF Ends, TypeOK
<1>6. tcp' \in Proc \cup {Nobody} /\ udp' \in Proc \cup {Nobody, Stranger}
  BY DEF Ends, TypeOK
<1>7. QED
  BY <1>2, <1>3, <1>4, <1>5, <1>6 DEF Ends, TypeOK, disk

\* So does every change of the file.
LEMMA FileTypes ==
  ASSUME TypeOK, NEW f, Becomes(f), now' \in Nat, now <= now',
         f \in [there : BOOLEAN, version : 0..MaxEdits, rows : 0..MaxRows, mtime : 0..now']
  PROVE  TypeOK'
<1>1. file' = f
  BY DEF Becomes
<1>2. whole' \in [Proc -> BOOLEAN]
  BY DEF Becomes
<1>3. file' \in [there : BOOLEAN, version : 0..MaxEdits, rows : 0..MaxRows, mtime : Nat]
      /\ file'.mtime <= now'
  BY <1>1
<1>4. QED
  BY <1>2, <1>3 DEF Becomes, TypeOK, ports, mem

\* An editor or a backup, in particular, leaves a file of the right type.
LEMMA WrittenTypes ==
  ASSUME TypeOK, NEW n \in 0..MaxRows, NEW t \in Nat, t <= now',
         now' \in Nat, now <= now', Becomes(Written(n, t))
  PROVE  TypeOK'
<1>1. Written(n, t).version <= MaxEdits
  BY DEF Becomes
<1>2. Written(n, t)
        \in [there : BOOLEAN, version : 0..MaxEdits, rows : 0..MaxRows, mtime : 0..now']
  BY <1>1, ProcessAssumption DEF Written, TypeOK
<1>3. QED
  BY <1>2, FileTypes

\* Every variable keeps its type.
THEOREM ProcessTypes == Spec => []TypeOK
<1>1. Init => TypeOK
  <2> SUFFICES ASSUME Init PROVE TypeOK
    OBVIOUS
  <2>1. /\ named \in [Proc -> BOOLEAN] /\ whole \in [Proc -> BOOLEAN]
        /\ lingering \in BOOLEAN /\ ipv6 \in BOOLEAN
    BY DEF Init
  <2>2. file \in [there : BOOLEAN, version : 0..MaxEdits, rows : 0..MaxRows, mtime : Nat]
        /\ file.mtime <= now /\ now \in Nat
    BY ProcessAssumption DEF Init
  <2>3. table \in [Proc -> [version : {-1} \cup 0..MaxEdits, services : Nat, size : Nat]]
    BY DEF Init, NoTable
  <2>4. pc \in [Proc -> Starting \cup Looping \cup Over \cup {"off", "closing"}]
    BY DEF Init
  <2>5. QED
    BY <2>1, <2>2, <2>3, <2>4 DEF Init, TypeOK
<1>2. TypeOK /\ [Next]_vars => TypeOK'
  <2> SUFFICES ASSUME TypeOK, [Next]_vars PROVE TypeOK'
    OBVIOUS
  <2> USE ProcessAssumption
  <2>1. ASSUME NEW p \in Proc, Start(p) PROVE TypeOK'
    <3>1. readtimetable(p)
      BY <2>1 DEF Start
    <3>2. Schedules \in Nat
      BY DEF Schedules, Services, TypeOK
    <3>3. count' \in [Proc -> Nat]
      BY <2>1, <3>2 DEF Start, TypeOK
    <3>4. whole' \in [Proc -> BOOLEAN]
      <4>1. whole' = [whole EXCEPT ![p] = file.there /\ file.rows > 1]
        BY <2>1 DEF Start
      <4>2. (file.there /\ file.rows > 1) \in BOOLEAN
        BY DEF TypeOK
      <4>3. whole \in [Proc -> BOOLEAN]
        BY DEF TypeOK
      <4>4. QED
        BY <4>1, <4>2, <4>3, Zenon
    <3>5. pc' \in [Proc -> Starting \cup Looping \cup Over \cup {"off", "closing"}]
      BY <2>1 DEF Start, Goto, TypeOK, Starting
    <3>6. QED
      BY <2>1, <3>1, <3>3, <3>4, <3>5, ReadTypes DEF Start, TypeOK, disk, ports
  <2>2. ASSUME NEW p \in Proc, Stat(p) PROVE TypeOK'
    <3>1. get_file_mtime \in {-1} \cup Nat
      BY DEF get_file_mtime, TypeOK
    <3>2. QED
      BY <2>2, <3>1 DEF Stat, Goto, TypeOK, disk, ports, Starting
  <2>3. ASSUME NEW p \in Proc, setup_TCP(p) PROVE TypeOK'
    BY <2>3 DEF setup_TCP, Goto, TypeOK, disk, mem, Starting
  <2>4. ASSUME NEW p \in Proc, setup_TCP_fails(p) PROVE TypeOK'
    BY <2>4, EndsTypes DEF setup_TCP_fails, Over
  <2>5. ASSUME NEW p \in Proc, setup_UDP(p) PROVE TypeOK'
    BY <2>5 DEF setup_UDP, Goto, TypeOK, disk, mem, Starting, Looping
  <2>6. ASSUME NEW p \in Proc, setup_UDP_fails(p) PROVE TypeOK'
    BY <2>6, EndsTypes DEF setup_UDP_fails, Over
  <2>7. ASSUME NEW p \in Proc, Spin(p) PROVE TypeOK'
    BY <2>7 DEF Spin, Goto, TypeOK, disk, mem, Looping
  <2>8. ASSUME NEW p \in Proc, Check(p) PROVE TypeOK'
    BY <2>8 DEF Check, Goto, TypeOK, disk, ports, mem, Looping
  <2>9. ASSUME NEW p \in Proc, Reread(p) PROVE TypeOK'
    <3>1. pc' \in [Proc -> Starting \cup Looping \cup Over \cup {"off", "closing"}]
      BY <2>9 DEF Reread, Goto, TypeOK, Looping
    <3>2. QED
      BY <2>9, <3>1, ReadTypes DEF Reread, TypeOK, disk, ports
  <2>10. ASSUME NEW p \in Proc, Turn(p) PROVE TypeOK'
    BY <2>10 DEF Turn, Goto, TypeOK, disk, ports, mem, Looping
  <2>11. ASSUME NEW p \in Proc, TurnFails(p) PROVE TypeOK'
    BY <2>11, EndsTypes DEF TurnFails, Over
  <2>12. ASSUME NEW p \in Proc, Interrupt(p) PROVE TypeOK'
    BY <2>12 DEF Interrupt, Goto, TypeOK, disk, mem
  <2>13. ASSUME NEW p \in Proc, CloseUDP(p) PROVE TypeOK'
    BY <2>13, EndsTypes DEF CloseUDP, Over
  <2>14. ASSUME NEW p \in Proc, Kill(p) PROVE TypeOK'
    BY <2>14, EndsTypes DEF Kill, Over
  <2>15. CASE Truncate
    <3>1. PICK t \in {now, now + 1} : now' = t /\ Becomes(Written(0, t))
      BY <2>15 DEF Truncate
    <3>2. QED
      BY <3>1, WrittenTypes DEF TypeOK
  <2>16. CASE AppendRow
    <3>1. PICK t \in {now, now + 1} : now' = t /\ Becomes(Written(file.rows + 1, t))
      BY <2>16 DEF AppendRow
    <3>2. file.rows + 1 \in 0..MaxRows
      BY <2>16 DEF AppendRow, TypeOK
    <3>3. QED
      BY <3>1, <3>2, WrittenTypes DEF TypeOK
  <2>17. ASSUME NEW n \in 0..MaxRows, NEW t \in 0..now, Replace(n, t) PROVE TypeOK'
    BY <2>17, WrittenTypes DEF Replace, TypeOK
  <2>18. CASE Remove
    <3>1. Becomes(Removed) /\ now' = now
      BY <2>18 DEF Remove
    <3>2. Removed
            \in [there : BOOLEAN, version : 0..MaxEdits, rows : 0..MaxRows, mtime : 0..now']
      BY <3>1 DEF Removed, TypeOK
    <3>3. QED
      BY <3>1, <3>2, FileTypes DEF TypeOK
  <2>19. CASE Expire
    BY <2>19 DEF Expire, TypeOK, disk, mem
  <2>20. CASE TakeUDP
    BY <2>20 DEF TakeUDP, TypeOK, disk, mem
  <2>21. CASE UNCHANGED vars
    BY <2>21 DEF vars, TypeOK, disk, ports, mem
  <2>22. QED
    BY <2>1, <2>2, <2>3, <2>4, <2>5, <2>6, <2>7, <2>8, <2>9, <2>10, <2>11, <2>12,
       <2>13, <2>14, <2>15, <2>16, <2>17, <2>18, <2>19, <2>20, <2>21 DEF Next, Runs
<1>3. QED
  BY <1>1, <1>2, PTL DEF Spec

-----------------------------------------------------------------------------
(* The ports *)

\* Where a process is when it has the TCP port, and when it has the UDP port:
\* they are taken and given back in different steps.
HasTCP == {"udp", "spin"} \cup Looping
HasUDP == Looping \cup {"closing"}

\* A process has a port exactly while it is where it has it.  ServesAlone needs
\* one direction; the other one, that nobody keeps a port beyond that, is what
\* makes it inductive, and what a process that gives up relies on.
PortsHeld ==
  \A p \in Proc : /\ pc[p] \in HasTCP <=> tcp = p
                  /\ pc[p] \in HasUDP <=> udp = p

\* The end of a process gives back what it had, and nothing else.
LEMMA EndsPorts ==
  ASSUME TypeOK, PortsHeld, NEW p \in Proc, NEW how \in Over, Ends(p, how)
  PROVE  PortsHeld'
<1>1. pc' = [pc EXCEPT ![p] = how] /\ how \notin HasTCP /\ how \notin HasUDP
  BY DEF Ends, Goto, Over, HasTCP, HasUDP, Looping
<1>2. Nobody \notin Proc
  BY ProcessAssumption
<1>3. SUFFICES ASSUME NEW q \in Proc
               PROVE  /\ pc'[q] \in HasTCP <=> tcp' = q
                      /\ pc'[q] \in HasUDP <=> udp' = q
  BY DEF PortsHeld
<1>4. CASE q = p
  BY <1>1, <1>2, <1>4 DEF Ends, TypeOK
<1>5. CASE q # p
  BY <1>1, <1>2, <1>5 DEF Ends, TypeOK, PortsHeld
<1>6. QED
  BY <1>4, <1>5

\* Every step keeps the ports with those who have them.
LEMMA PortsStep == TypeOK /\ PortsHeld /\ [Next]_vars => PortsHeld'
<1> SUFFICES ASSUME TypeOK, PortsHeld, [Next]_vars PROVE PortsHeld'
  OBVIOUS
<1> USE ProcessAssumption DEF HasTCP, HasUDP, Looping
<1>1. ASSUME NEW p \in Proc, Start(p) PROVE PortsHeld'
  BY <1>1 DEF Start, Goto, TypeOK, PortsHeld, ports
<1>2. ASSUME NEW p \in Proc, Stat(p) PROVE PortsHeld'
  BY <1>2 DEF Stat, Goto, TypeOK, PortsHeld, ports
<1>3. ASSUME NEW p \in Proc, setup_TCP(p) PROVE PortsHeld'
  BY <1>3 DEF setup_TCP, BindsTCP, Goto, TypeOK, PortsHeld
<1>4. ASSUME NEW p \in Proc, setup_UDP(p) PROVE PortsHeld'
  BY <1>4 DEF setup_UDP, Goto, TypeOK, PortsHeld
<1>5. ASSUME NEW p \in Proc, Spin(p) PROVE PortsHeld'
  BY <1>5 DEF Spin, Goto, TypeOK, PortsHeld
<1>6. ASSUME NEW p \in Proc, Check(p) PROVE PortsHeld'
  BY <1>6 DEF Check, Goto, TypeOK, PortsHeld, ports
<1>7. ASSUME NEW p \in Proc, Reread(p) PROVE PortsHeld'
  BY <1>7 DEF Reread, Goto, TypeOK, PortsHeld, ports
<1>8. ASSUME NEW p \in Proc, Turn(p) PROVE PortsHeld'
  BY <1>8 DEF Turn, Goto, TypeOK, PortsHeld, ports
<1>9. ASSUME NEW p \in Proc, Interrupt(p) PROVE PortsHeld'
  BY <1>9 DEF Interrupt, Goto, TypeOK, PortsHeld
<1>10. ASSUME NEW p \in Proc, NEW how \in Over, Ends(p, how) PROVE PortsHeld'
  BY <1>10, EndsPorts
<1>11. ASSUME NEW f, Becomes(f) PROVE PortsHeld'
  BY <1>11 DEF Becomes, PortsHeld, ports
<1>12. CASE Expire
  BY <1>12 DEF Expire, PortsHeld
<1>13. CASE TakeUDP
  BY <1>13 DEF TakeUDP, PortsHeld
<1>14. CASE UNCHANGED vars
  BY <1>14 DEF vars, ports, PortsHeld
<1>15. QED
  BY <1>1, <1>2, <1>3, <1>4, <1>5, <1>6, <1>7, <1>8, <1>9, <1>10, <1>11, <1>12,
     <1>13, <1>14
  DEF Next, Runs, setup_TCP_fails, setup_UDP_fails, TurnFails, CloseUDP, Kill, Over,
      Truncate, AppendRow, Replace, Remove

\* The ports are with the processes that think to have them.
THEOREM ProcessPorts == Spec => []PortsHeld
<1>1. Init => PortsHeld
  BY ProcessAssumption DEF Init, PortsHeld, HasTCP, HasUDP, Looping
<1>2. QED
  BY <1>1, PortsStep, ProcessTypes, PTL DEF Spec

\* However starts and ends of processes overlap, whoever is in its loop has
\* both ports of the station.
THEOREM ProcessServesAlone == Spec => []ServesAlone
<1>1. PortsHeld => ServesAlone
  BY DEF PortsHeld, ServesAlone, HasTCP, HasUDP
<1>2. QED
  BY <1>1, ProcessPorts, PTL

\* Where a step ends a process that is setting up its sockets, the port it
\* asked for is with somebody else.
LEMMA RivalStep ==
  ASSUME TypeOK, PortsHeld, [Next]_vars, NEW p \in Proc
  PROVE  /\ pc[p] = "tcp" /\ pc'[p] = "failed" => tcp \in Proc \ {p}
         /\ pc[p] = "udp" /\ pc'[p] = "crashed" => ~ ipv6 /\ udp \notin {Nobody, p}
<1> DEFINE Goal == /\ pc[p] = "tcp" /\ pc'[p] = "failed" => tcp \in Proc \ {p}
                   /\ pc[p] = "udp" /\ pc'[p] = "crashed" =>
                        ~ ipv6 /\ udp \notin {Nobody, p}
<1>1. pc[p] \in {"tcp", "udp"} => udp # p
  BY DEF PortsHeld, HasUDP, Looping
<1>2. pc[p] = "tcp" => tcp # p
  BY DEF PortsHeld, HasTCP, Looping
<1>3. ASSUME NEW q \in Proc, setup_TCP_fails(q) PROVE Goal
  BY <1>2, <1>3 DEF setup_TCP_fails, BindsTCP, Ends, Goto, TypeOK
<1>4. ASSUME NEW q \in Proc, setup_UDP_fails(q) PROVE Goal
  BY <1>1, <1>4 DEF setup_UDP_fails, Ends, Goto, TypeOK
<1>5. ASSUME NEW q \in Proc, TurnFails(q) \/ CloseUDP(q) \/ Kill(q) PROVE Goal
  BY <1>5 DEF TurnFails, CloseUDP, Kill, Ends, Goto, TypeOK
<1>6. ASSUME NEW q \in Proc, NEW l \in Starting \cup Looping \cup {"closing"}, Goto(q, l)
      PROVE  Goal
  BY <1>6 DEF Goto, TypeOK, Starting, Looping
<1>7. ASSUME pc' = pc PROVE Goal
  BY <1>7
<1> HIDE DEF Goal
<1>8. ASSUME NEW q \in Proc, Start(q) \/ Runs(q) \/ TurnFails(q) \/ Interrupt(q) \/ Kill(q)
      PROVE  Goal
  <2>1. CASE Start(q) \/ Stat(q) \/ setup_TCP(q) \/ setup_UDP(q)
    BY <1>6, <2>1 DEF Start, Stat, setup_TCP, setup_UDP, Starting, Looping
  <2>2. CASE Spin(q) \/ Check(q) \/ Reread(q) \/ Turn(q) \/ Interrupt(q)
    BY <1>6, <2>2 DEF Spin, Check, Reread, Turn, Interrupt, Looping
  <2>3. QED
    BY <1>3, <1>4, <1>5, <1>8, <2>1, <2>2 DEF Runs
<1>9. ASSUME Truncate \/ AppendRow \/ Remove \/ Expire \/ TakeUDP \/ UNCHANGED vars
      PROVE  Goal
  BY <1>7, <1>9 DEF Truncate, AppendRow, Remove, Becomes, Expire, TakeUDP, vars
<1>10. ASSUME NEW n, NEW t, Replace(n, t) PROVE Goal
  BY <1>7, <1>10 DEF Replace, Becomes
<1>11. Goal
  BY <1>8, <1>9, <1>10 DEF Next
<1>12. QED
  BY <1>11 DEF Goal

\* And that somebody is where PortsHeld says: it listens, or it is another
\* program, or it has closed its TCP port, which p has, and not yet its UDP port.
LEMMA LivingRival ==
  ASSUME TypeOK, PortsHeld, [Next]_vars, NEW p \in Proc
  PROVE  /\ pc[p] = "tcp" /\ pc'[p] = "failed" =>
              \E q \in Proc \ {p} : pc[q] \in {"udp", "spin"} \cup Looping
         /\ pc[p] = "udp" /\ pc'[p] = "crashed" =>
              udp = Stranger \/ \E q \in Proc \ {p} : pc[q] = "closing"
<1>1. ASSUME pc[p] = "tcp", pc'[p] = "failed"
      PROVE  \E q \in Proc \ {p} : pc[q] \in {"udp", "spin"} \cup Looping
  <2>1. tcp \in Proc \ {p}
    BY <1>1, RivalStep
  <2>2. pc[tcp] \in HasTCP
    BY <2>1 DEF PortsHeld
  <2>3. QED
    BY <2>1, <2>2 DEF HasTCP
<1>2. ASSUME pc[p] = "udp", pc'[p] = "crashed", udp # Stranger
      PROVE  \E q \in Proc \ {p} : pc[q] = "closing"
  <2>1. udp \in Proc \ {p}
    BY <1>2, RivalStep DEF TypeOK
  <2>2. tcp = p
    BY <1>2 DEF PortsHeld, HasTCP
  <2>3. pc[udp] \in HasUDP /\ pc[udp] \notin HasTCP
    BY <2>1, <2>2 DEF PortsHeld
  <2>4. pc[udp] = "closing"
    BY <2>3 DEF HasTCP, HasUDP
  <2>5. QED
    BY <2>1, <2>4
<1>3. QED
  BY <1>1, <1>2

\* A start gives up, or crashes over its ports, only where a living process or
\* another program is in the way: at the UDP port a process only while it is
\* between the two closes of its signal_handler.
THEOREM ProcessGivesWay == Spec => GivesWayToTheLiving
<1>1. TypeOK /\ PortsHeld /\ [Next]_vars =>
        [\A p \in Proc :
           /\ pc[p] = "tcp" /\ pc'[p] = "failed" =>
                \E q \in Proc \ {p} : pc[q] \in {"udp", "spin"} \cup Looping
           /\ pc[p] = "udp" /\ pc'[p] = "crashed" =>
                udp = Stranger \/ \E q \in Proc \ {p} : pc[q] = "closing"]_vars
  BY LivingRival
<1>2. QED
  BY <1>1, ProcessTypes, ProcessPorts, PTL DEF Spec, GivesWayToTheLiving

-----------------------------------------------------------------------------
(* The table of a process and the file *)

\* While a file has been whole since a process started, the process has a
\* table that it can use, wherever it is, and reading the file again would
\* give it another: the file has the services it counts on.
TablesFit ==
  \A p \in Proc : whole[p] => /\ Sound(p)
                             /\ file.there /\ file.rows > 1
                             /\ count[p] <= Services(file.rows)

\* Where the file has the services that a process counts on, reading it gives
\* the process a table that it can use.
LEMMA ReadIsSound ==
  ASSUME TypeOK, NEW p \in Proc, readtimetable(p), file.there, file.rows > 1,
         count'[p] <= Services(file.rows), count'[p] \in Nat
  PROVE  Sound(p)'
<1>1. /\ table'[p] = [version |-> file.version, services |-> Services(file.rows),
                      size |-> Grown(Services(file.rows))]
      /\ named'[p]
  BY DEF readtimetable, TypeOK
<1>2. Services(file.rows) \in Nat /\ Services(file.rows) > 0
  BY DEF Services, TypeOK
<1>3. Grown(Services(file.rows)) > Services(file.rows) /\ Grown(Services(file.rows)) \in Nat
  BY <1>2, GrownExceeds
<1>4. QED
  BY <1>1, <1>2, <1>3 DEF Sound

\* Every step leaves the processes with tables that fit the file.
LEMMA TablesStep == TypeOK /\ TypeOK' /\ TablesFit /\ [Next]_vars => TablesFit'
<1> SUFFICES ASSUME TypeOK, TypeOK', TablesFit, [Next]_vars, NEW q \in Proc, whole'[q]
             PROVE  /\ Sound(q)'
                    /\ file'.there /\ file'.rows > 1
                    /\ count'[q] <= Services(file'.rows)
  BY DEF TablesFit
<1> DEFINE Goal == /\ Sound(q)'
                   /\ file'.there /\ file'.rows > 1
                   /\ count'[q] <= Services(file'.rows)
<1>1. ASSUME mem' = mem, file' = file, whole' = whole PROVE Goal
  BY <1>1 DEF mem, Sound, TablesFit
<1>2. ASSUME NEW p \in Proc, p # q, file' = file, whole'[q] = whole[q],
             table'[q] = table[q], named'[q] = named[q], count'[q] = count[q]
      PROVE  Goal
  BY <1>2 DEF Sound, TablesFit
<1>3. ASSUME NEW p \in Proc, Start(p) PROVE Goal
  <2>1. file' = file /\ readtimetable(p)
    BY <1>3 DEF Start, disk
  <2>2. CASE p = q
    <3>1. file.there /\ file.rows > 1
      BY <1>3, <2>2 DEF Start, TypeOK
    <3>2. count'[q] = Services(file.rows)
      BY <1>3, <2>2, <3>1 DEF Start, Schedules, TypeOK
    <3>3. Services(file.rows) \in Nat
      BY <3>1 DEF Services, TypeOK
    <3>4. QED
      BY <2>1, <2>2, <3>1, <3>2, <3>3, ReadIsSound
  <2>3. CASE p # q
    <3>1. whole'[q] = whole[q] /\ count'[q] = count[q]
      BY <1>3, <2>3 DEF Start, TypeOK
    <3>2. table'[q] = table[q] /\ named'[q] = named[q]
      BY <2>1, <2>3 DEF readtimetable, TypeOK
    <3>3. QED
      BY <1>2, <2>1, <2>3, <3>1, <3>2
  <2>4. QED
    BY <2>2, <2>3
<1>4. ASSUME NEW p \in Proc, Reread(p) PROVE Goal
  <2>1. file' = file /\ readtimetable(p) /\ whole' = whole /\ count' = count
    BY <1>4 DEF Reread, disk
  <2>2. CASE p = q
    <3>1. file.there /\ file.rows > 1 /\ count[q] <= Services(file.rows)
      BY <2>1 DEF TablesFit
    <3>2. count'[q] \in Nat
      BY DEF TypeOK
    <3>3. QED
      BY <2>1, <2>2, <3>1, <3>2, ReadIsSound
  <2>3. CASE p # q
    <3>1. table'[q] = table[q] /\ named'[q] = named[q]
      BY <2>1, <2>3 DEF readtimetable, TypeOK
    <3>2. QED
      BY <1>2, <2>1, <2>3, <3>1
  <2>4. QED
    BY <2>2, <2>3
<1>5. ASSUME NEW p \in Proc, NEW how, Ends(p, how) PROVE Goal
  <2>1. p # q
    BY <1>5 DEF Ends, TypeOK
  <2>2. QED
    BY <1>2, <1>5, <2>1 DEF Ends, TypeOK, disk
<1>6. ASSUME NEW f, Becomes(f) PROVE Goal
  <2>1. /\ whole[q] /\ file'.there /\ file'.rows > 1
        /\ count[q] <= Services(file'.rows)
    BY <1>6 DEF Becomes
  <2>2. Sound(q)' /\ count' = count
    BY <1>6, <2>1 DEF Becomes, TablesFit, Sound, mem
  <2>3. QED
    BY <2>1, <2>2
<1> HIDE DEF Goal
<1>7. ASSUME NEW p \in Proc, Start(p) \/ Runs(p) \/ TurnFails(p) \/ Interrupt(p) \/ Kill(p)
      PROVE  Goal
  <2>1. CASE setup_TCP(p) \/ setup_UDP(p) \/ Spin(p) \/ Check(p) \/ Turn(p) \/ Interrupt(p)
    BY <1>1, <2>1 DEF setup_TCP, setup_UDP, Spin, Check, Turn, Interrupt, disk
  <2>2. CASE Stat(p)
    BY <2>2 DEF Stat, disk, Sound, TablesFit, Goal
  <2>3. CASE setup_TCP_fails(p) \/ setup_UDP_fails(p) \/ TurnFails(p) \/ CloseUDP(p) \/ Kill(p)
    BY <1>5, <2>3 DEF setup_TCP_fails, setup_UDP_fails, TurnFails, CloseUDP, Kill
  <2>4. QED
    BY <1>3, <1>4, <1>7, <2>1, <2>2, <2>3 DEF Runs
<1>8. ASSUME Truncate \/ AppendRow \/ Remove PROVE Goal
  BY <1>6, <1>8 DEF Truncate, AppendRow, Remove
<1>9. ASSUME NEW n, NEW t, Replace(n, t) PROVE Goal
  BY <1>6, <1>9 DEF Replace
<1>10. ASSUME Expire \/ TakeUDP \/ UNCHANGED vars PROVE Goal
  BY <1>1, <1>10 DEF Expire, TakeUDP, vars, disk
<1>11. Goal
  BY <1>7, <1>8, <1>9, <1>10 DEF Next
<1>12. QED
  BY <1>11 DEF Goal

\* Reading the file again never leaves the handlers with a table they cannot
\* use while the file has never been missing, empty or shorter than at the
\* start, and the search of get_best_schedule stays inside the array.
THEOREM ProcessTablesAreSound == Spec => []SoundWhileWhole
<1>1. Init => TablesFit
  BY DEF Init, TablesFit
<1>2. TablesFit => SoundWhileWhole
  BY DEF TablesFit, SoundWhileWhole
<1>3. QED
  BY <1>1, <1>2, TablesStep, ProcessTypes, PTL DEF Spec
=============================================================================
