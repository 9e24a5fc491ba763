------------------------------- MODULE Process -------------------------------
(***************************************************************************)
(* The life of a station's process: main.c up to its loop, the check of    *)
(* the timetable file at the top of every turn, and its end.  Several      *)
(* processes of the same station may overlap, as when it is started again  *)
(* while the one before still runs, and all the while somebody edits the   *)
(* file that they read.                                                    *)
(*                                                                         *)
(* The file is reduced to its number of rows (no comments): the first one  *)
(* names the station, each of the others is a service.  A version number   *)
(* tells its contents apart.  A file of the size of the generated ones is  *)
(* read by a single call, hence in one step.                               *)
(***************************************************************************)
EXTENDS Integers

CONSTANTS
  Proc,        \* processes of the station, each started once
  MaxRows,     \* bound: rows of the file
  MaxEdits,    \* bound: changes of the file
  MayBeTaken   \* another program may use the UDP port

Nobody   == "nobody"
Stranger == "stranger"
NoTable  == [version |-> -1, services |-> 0, size |-> 0]   \* a NULL pointer

ASSUME ProcessAssumption ==
  /\ MaxRows \in Nat /\ MaxEdits \in Nat
  /\ MayBeTaken \in BOOLEAN
  /\ {Nobody, Stranger} \cap Proc = {}

VARIABLES
  file,         \* there, or not; its version, rows and modification time
  now,          \* the second in which the file was changed last
  tcp, udp,     \* who has the ports
  lingering,    \* closed connections of the TCP port are in TIME_WAIT
  ipv6,         \* getaddrinfo has a second address to offer
  pc,           \* where each process is
  table,        \* Timetable: what was read, and the size of the array
  count,        \* NUM_TIMETABLES
  named,        \* Station has been filled in
  latest,       \* latest_time
  stamp,        \* the file's time when the process had read it (history)
  whole         \* since the process started, the file has had at least the
                \* services it had then, and at least one (history)

disk  == <<file, now>>
ports == <<tcp, udp, lingering>>
mem   == <<table, count, named, latest>>
vars  == <<disk, ports, ipv6, pc, mem, stamp, whole>>

Starting == {"stat", "tcp", "udp", "spin"}
Looping  == {"check", "reread", "select"}
Over     == {"ended", "failed", "crashed"}

Goto(p, l) == pc' = [pc EXCEPT ![p] = l]

\* The services in a file of n rows.
Services(n) == IF n = 0 THEN 0 ELSE n - 1

-----------------------------------------------------------------------------
(* timetable.c *)

\* Mutant: the array only grows when a line has not found room in it.
GrownLate(n) ==
  LET size[k \in 0..n] == IF k = 0 THEN 1
                          ELSE IF k > size[k - 1] THEN 2 * size[k - 1] ELSE size[k - 1]
  IN  size[n]

\* The size of the array after n lines: it doubles whenever it is full.
Grown(n) ==
  LET size[k \in 0..n] == IF k = 0 THEN 1
                          ELSE IF k = size[k - 1] THEN 2 * size[k - 1] ELSE size[k - 1]
  IN  size[n]

\* What readtimetable does to Timetable and Station.  Without a file, nothing.
readtimetable(p) ==
  IF file.there
  THEN /\ table' = [table EXCEPT ![p] =
            [version |-> file.version, services |-> Services(file.rows),
             size |-> Grown(Services(file.rows))]]
       /\ named' = [named EXCEPT ![p] = @ \/ file.rows > 0]
  ELSE UNCHANGED <<table, named>>

\* Mutant: -1 stands for a file that cannot be opened, as in get_file_mtime.
SchedulesOrError == IF file.there THEN Services(file.rows) ELSE -1

\* What it returns.
Schedules == IF file.there THEN Services(file.rows) ELSE 1

get_file_mtime == IF file.there THEN file.mtime ELSE -1

-----------------------------------------------------------------------------
(* Before the loop *)

Start(p) ==
  /\ pc[p] = "off"
  /\ readtimetable(p)
  /\ count' = [count EXCEPT ![p] = Schedules]
  /\ whole' = [whole EXCEPT ![p] = file.there /\ file.rows > 1]
  /\ Goto(p, "stat")
  /\ UNCHANGED <<disk, ports, ipv6, latest, stamp>>

\* The time of the file, which may have been changed since it was read.
Stat(p) ==
  /\ pc[p] = "stat"
  /\ latest' = [latest EXCEPT ![p] = get_file_mtime]
  /\ stamp' = [stamp EXCEPT ![p] = get_file_mtime]
  /\ Goto(p, "tcp")
  /\ UNCHANGED <<disk, ports, ipv6, table, count, named, whole>>

\* The operating system takes back the ports and the memory of p.
Ends(p, how) ==
  /\ Goto(p, how)
  /\ tcp' = IF tcp = p THEN Nobody ELSE tcp
  /\ udp' = IF udp = p THEN Nobody ELSE udp
  /\ lingering' = (lingering \/ tcp = p)
  /\ table' = [table EXCEPT ![p] = NoTable]
  /\ count' = [count EXCEPT ![p] = 0]
  /\ named' = [named EXCEPT ![p] = FALSE]
  /\ latest' = [latest EXCEPT ![p] = 0] /\ stamp' = [stamp EXCEPT ![p] = 0]
  /\ whole' = [whole EXCEPT ![p] = FALSE]
  /\ UNCHANGED <<disk, ipv6>>

\* Mutant: SO_REUSEADDR is not set.
BindsTCPAfresh == tcp = Nobody /\ ~ lingering

\* With SO_REUSEADDR only another listener is in the way of bind and listen.
BindsTCP == tcp = Nobody

setup_TCP(p) ==
  /\ pc[p] = "tcp"
  /\ BindsTCP
  /\ tcp' = p
  /\ Goto(p, "udp")
  /\ UNCHANGED <<disk, udp, lingering, ipv6, mem, stamp, whole>>

setup_TCP_fails(p) ==
  /\ pc[p] = "tcp"
  /\ ~ BindsTCP
  /\ Ends(p, "failed")

\* Mutant: nobody looks at what bind returns.
setup_UDP_unchecked(p) ==
  /\ pc[p] = "udp"
  /\ udp' = IF udp = Nobody THEN p ELSE udp
  /\ Goto(p, "check")
  /\ UNCHANGED <<disk, tcp, lingering, ipv6, mem, stamp, whole>>

\* The first address of setup_UDP, or on to the second.  main reads the address
\* after freeaddrinfo has released it; a process that dies of that is one that
\* is killed.
setup_UDP(p) ==
  /\ pc[p] = "udp"
  /\ \/ udp = Nobody /\ udp' = p /\ Goto(p, "check")
     \/ udp # Nobody /\ ipv6 /\ UNCHANGED udp /\ Goto(p, "spin")
  /\ UNCHANGED <<disk, tcp, lingering, ipv6, mem, stamp, whole>>

\* Without a second one setup_UDP returns NULL, and main dereferences it.
setup_UDP_fails(p) ==
  /\ pc[p] = "udp"
  /\ udp # Nobody /\ ~ ipv6
  /\ Ends(p, "crashed")

\* Mutant: the second address is bound once and then only looped over.
SpinOnly(p) ==
  /\ pc[p] = "spin"
  /\ UNCHANGED vars

\* The second address: as p is servinfo->ai_next again after every turn,
\* the loop goes on, without a pause, until it can be bound.
Spin(p) ==
  /\ pc[p] = "spin"
  /\ udp = Nobody
  /\ udp' = p /\ Goto(p, "check")
  /\ UNCHANGED <<disk, tcp, lingering, ipv6, mem, stamp, whole>>

-----------------------------------------------------------------------------
(* The loop *)

\* check_update_timetable: the file's time, and then the file.
Check(p) ==
  /\ pc[p] = "check"
  /\ Goto(p, IF get_file_mtime > latest[p] THEN "reread" ELSE "select")
  /\ UNCHANGED <<disk, ports, ipv6, mem, stamp, whole>>

\* Mutant: the time of the file is noted, as one might expect.
RereadNoted(p) ==
  /\ pc[p] = "reread"
  /\ readtimetable(p)
  /\ latest' = [latest EXCEPT ![p] = get_file_mtime]
  /\ Goto(p, "select")
  /\ UNCHANGED <<disk, ports, ipv6, count, stamp, whole>>

\* The number that readtimetable returns is dropped, and latest_time stays.
Reread(p) ==
  /\ pc[p] = "reread"
  /\ readtimetable(p)
  /\ Goto(p, "select")
  /\ UNCHANGED <<disk, ports, ipv6, count, latest, stamp, whole>>

\* What the handlers may rely on: a table whose lines are all inside its
\* array and reach as far as they look, and a name to write into payloads.
Sound(p) ==
  /\ named[p] /\ table[p].services > 0
  /\ table[p].services < table[p].size
  /\ count[p] - 1 <= table[p].services

\* select returns, within 15 seconds, and the handlers do their work.
Turn(p) ==
  /\ pc[p] = "select"
  /\ Goto(p, "check")
  /\ UNCHANGED <<disk, ports, ipv6, mem, stamp, whole>>

(***************************************************************************)
(* Without a table, with a search past the end of its array, or with an    *)
(* empty name in the payload for load_payload to trip over, the process    *)
(* may die.                                                                *)
(***************************************************************************)
TurnFails(p) ==
  /\ pc[p] = "select"
  /\ \/ table[p] = NoTable
     \/ count[p] - 1 > table[p].size
     \/ ~ named[p]
  /\ Ends(p, "crashed")

\* Control-C: signal_handler closes the sockets, one after the other.
Interrupt(p) ==
  /\ pc[p] \in Looping
  /\ tcp' = Nobody /\ lingering' = TRUE
  /\ Goto(p, "closing")
  /\ UNCHANGED <<disk, udp, ipv6, mem, stamp, whole>>

CloseUDP(p) ==
  /\ pc[p] = "closing"
  /\ Ends(p, "ended")

Kill(p) ==
  /\ pc[p] \in Starting \cup Looping
  /\ Ends(p, "ended")

-----------------------------------------------------------------------------
(* The world around *)

\* The file becomes f, and everybody who has been started takes note.
Becomes(f) ==
  /\ f.version <= MaxEdits
  /\ file' = f
  /\ whole' = [p \in Proc |-> /\ whole[p]
                              /\ f.there /\ f.rows > 1
                              /\ count[p] <= Services(f.rows)]
  /\ UNCHANGED <<ports, ipv6, pc, mem, stamp>>

\* The file once there are n rows in it, written at time t.
Written(n, t) == [there |-> TRUE, rows |-> n, version |-> file.version + 1, mtime |-> t]

\* An editor empties the file and writes it anew, row by row.
Truncate ==
  \E t \in {now, now + 1} :
    /\ file.there
    /\ now' = t
    /\ Becomes(Written(0, t))

AppendRow ==
  \E t \in {now, now + 1} :
    /\ file.there /\ file.rows < MaxRows
    /\ now' = t
    /\ Becomes(Written(file.rows + 1, t))

\* Another file takes its place, such as a backup that keeps its old time.
Replace(n, t) == UNCHANGED now /\ Becomes(Written(n, t))

Removed == [there |-> FALSE, rows |-> file.rows, version |-> file.version,
            mtime |-> file.mtime]

Remove ==
  /\ file.there /\ UNCHANGED now
  /\ Becomes(Removed)

Expire ==
  /\ lingering' = FALSE
  /\ UNCHANGED <<disk, tcp, udp, ipv6, pc, mem, stamp, whole>>

TakeUDP ==
  /\ MayBeTaken
  /\ \/ udp = Nobody /\ udp' = Stranger
     \/ udp = Stranger /\ udp' = Nobody
  /\ UNCHANGED <<disk, tcp, lingering, ipv6, pc, mem, stamp, whole>>

Init ==
  /\ file \in [there : BOOLEAN, version : {0}, rows : {0, MaxRows}, mtime : {0}]
  /\ now = 0
  /\ tcp = Nobody /\ udp = Nobody /\ lingering = FALSE /\ ipv6 \in BOOLEAN
  /\ pc = [p \in Proc |-> "off"]
  /\ table = [p \in Proc |-> NoTable] /\ count = [p \in Proc |-> 0]
  /\ named = [p \in Proc |-> FALSE]
  /\ latest = [p \in Proc |-> 0] /\ stamp = [p \in Proc |-> 0]
  /\ whole = [p \in Proc |-> FALSE]

Runs(p) ==
  \/ Stat(p) \/ setup_TCP(p) \/ setup_TCP_fails(p)
  \/ setup_UDP(p) \/ setup_UDP_fails(p) \/ Spin(p)
  \/ Check(p) \/ Reread(p) \/ Turn(p) \/ CloseUDP(p)

Next ==
  \/ \E p \in Proc : Start(p) \/ Runs(p) \/ TurnFails(p) \/ Interrupt(p) \/ Kill(p)
  \/ Truncate \/ AppendRow \/ Remove
  \/ \E n \in 0..MaxRows, t \in 0..now : Replace(n, t)
  \/ Expire \/ TakeUDP

\* The operating system runs every process, and select never waits for more
\* than 15 seconds.
Fairness == \A p \in Proc : WF_vars(Runs(p))

Spec == Init /\ [][Next]_vars

FairSpec == Spec /\ Fairness

-----------------------------------------------------------------------------
(* Properties *)

\* The variables have their types: in particular NUM_TIMETABLES, which the
\* search counts up to, is never an error code of readtimetable.
TypeOK ==
  /\ file \in [there : BOOLEAN, version : 0..MaxEdits, rows : 0..MaxRows, mtime : Nat]
  /\ now \in Nat /\ file.mtime <= now
  /\ tcp \in Proc \cup {Nobody} /\ udp \in Proc \cup {Nobody, Stranger}
  /\ {lingering, ipv6} \subseteq BOOLEAN
  /\ pc \in [Proc -> Starting \cup Looping \cup Over \cup {"off", "closing"}]
  /\ table \in [Proc -> [version : {-1} \cup 0..MaxEdits, services : Nat, size : Nat]]
  /\ count \in [Proc -> Nat]
  /\ {named, whole} \subseteq [Proc -> BOOLEAN]
  /\ {latest, stamp} \subseteq [Proc -> {-1} \cup Nat]

(***************************************************************************)
(* However the end of one process and the start of the next overlap, and   *)
(* although the sockets are opened and closed one by one, whoever is in    *)
(* its loop has both ports; so no two processes serve the same station.    *)
(***************************************************************************)
ServesAlone == \A p \in Proc : pc[p] \in Looping => tcp = p /\ udp = p

(***************************************************************************)
(* Who is in the way of a start is alive.  setup_TCP gives up only while   *)
(* another process listens, in its loop or on the way there: nothing that  *)
(* a process leaves behind keeps the next one from starting.  And as the   *)
(* one that crashes at its UDP port has the TCP port by then, it has met   *)
(* another program, or a process between the two closes of its             *)
(* signal_handler.                                                         *)
(***************************************************************************)
GivesWayToTheLiving ==
  [][\A p \in Proc :
       /\ pc[p] = "tcp" /\ pc'[p] = "failed" =>
            \E q \in Proc \ {p} : pc[q] \in {"udp", "spin"} \cup Looping
       /\ pc[p] = "udp" /\ pc'[p] = "crashed" =>
            udp = Stranger \/ \E q \in Proc \ {p} : pc[q] = "closing"]_vars

(***************************************************************************)
(* Reading the file again never leaves the handlers with a table they      *)
(* cannot use, as long as the file itself has never been missing, empty or *)
(* shorter than it was when the process started (the search still goes by  *)
(* the number of lines it had then).                                       *)
(***************************************************************************)
SoundWhileWhole ==
  \A p \in Proc : pc[p] = "select" /\ whole[p] => Sound(p)

(***************************************************************************)
(* An edit is never lost, however it falls between the check, the read and *)
(* the writes of the editor: when the file comes to rest, a process in its *)
(* loop ends up with what is in it.  The exceptions are a file whose time  *)
(* is not later than the one noted at the start, as after a change between *)
(* the first read and that note, and a file that is gone.                  *)
(***************************************************************************)
EditsAreSeen ==
  <>[][FALSE]_file =>
    \A p \in Proc :
      <>[](pc[p] \in Looping =>
             \/ table[p].version = file.version
             \/ file.mtime <= stamp[p]
             \/ ~ file.there)

(***************************************************************************)
(* A start comes to an end: the process serves or is gone, although        *)
(* setup_UDP spins until it gets its second address.  (Not if another      *)
(* program keeps the port.)                                                *)
(***************************************************************************)
StartsEnd ==
  <>[](udp # Stranger) =>
    \A p \in Proc : pc[p] \in Starting ~> pc[p] \notin Starting
=============================================================================
