----------------------------- MODULE Timetable ------------------------------
(***************************************************************************)
(* The timetable of a station and how a service is looked up in it         *)
(* (timetable/timetable.c).  A time string is the pair of numbers that     *)
(* sscanf reads from it: "07:05" is <<7, 5>>.  Two strings that are not    *)
(* times of day travel in the payloads as well: "99:99", written when no   *)
(* service is left, and "...", written before a leg has been looked up.    *)
(***************************************************************************)
EXTENDS Integers, Sequences

CONSTANTS
  Station,   \* station names
  Route      \* route names of the timetables

Unknown  == "..."        \* the route of a leg that nobody has looked up yet
NOTFOUND == "NOTFOUND"   \* the route of a leg for which no service is left

ASSUME RouteAssumption == {Unknown, NOTFOUND} \cap Route = {}

Clock   == (0..23) \X (0..59)
TooLate == <<99, 99>>    \* the string "99:99"
Dots    == <<-1, -1>>    \* the string "...": sscanf converts no number
Time    == Clock \cup {TooLate, Dots}

(***************************************************************************)
(* A start time of which the receive buffer has kept only the beginning:   *)
(* "14:3", "14:" or "1" of "14:30".  It is some other time of the day, or  *)
(* sscanf leaves the minutes uninitialised; which one is not told apart.   *)
(***************************************************************************)
Torn == <<-2, -2>>

(***************************************************************************)
(* A line of a tt- file.  The stop it departs from is stored by the code   *)
(* and never read.                                                         *)
(***************************************************************************)
Service == [departure_time : Clock, route_name : Route,
            arrival_time : Clock, arrival_station : Station]

(***************************************************************************)
(* Minutes since midnight.  On "..." sscanf leaves both of its variables   *)
(* uninitialised: SearchResults covers that case.                          *)
(***************************************************************************)
timeToMinutes(t) == t[1] * 60 + t[2]

\* The service e can still be caught at time t and goes to station to.
Catches(e, t, to) ==
  /\ timeToMinutes(t) <= timeToMinutes(e.departure_time)
  /\ e.arrival_station = to

\* The lines the search looks at: its loop stops before the last one.
Searched(tt) == 1 .. (Len(tt) - 1)

NoEntry == -1

\* Mutant: the search does not stop at the first line it finds.
search_timetable_last(tt, t, to) ==
  LET found == {i \in Searched(tt) : Catches(tt[i], t, to)}
  IN  IF found = {} THEN NoEntry
                    ELSE CHOOSE i \in found : \A j \in found : j <= i

\* The first searched line that can be caught, NoEntry when there is none.
search_timetable(tt, t, to) ==
  LET found == {i \in Searched(tt) : Catches(tt[i], t, to)}
  IN  IF found = {} THEN NoEntry
                    ELSE CHOOSE i \in found : \A j \in found : i <= j

(***************************************************************************)
(* What a call of search_timetable may return.  A time that cannot be      *)
(* parsed is compared through uninitialised variables, anew for every      *)
(* line, so that any line to the station may be taken, or none.  The same  *)
(* covers whatever a torn time is read as.                                 *)
(***************************************************************************)
SearchResults(tt, t, to) ==
  IF t \in {Dots, Torn}
  THEN {NoEntry} \cup {i \in Searched(tt) : tt[i].arrival_station = to}
  ELSE {search_timetable(tt, t, to)}

(***************************************************************************)
(* The timetables that files/buildrandomtimetables.c writes are in order:  *)
(* a later line departs later, and on the same leg it also arrives later   *)
(* (the next departure adds the skew of this one and two minutes more).    *)
(***************************************************************************)
InOrder(tt) ==
  \A i, j \in 1..Len(tt) :
    i < j => /\ timeToMinutes(tt[i].departure_time)
                  <= timeToMinutes(tt[j].departure_time)
             /\ tt[i].arrival_station = tt[j].arrival_station
                  => timeToMinutes(tt[i].arrival_time)
                       <= timeToMinutes(tt[j].arrival_time)
=============================================================================
