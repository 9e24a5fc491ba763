------------------------------- MODULE Codec --------------------------------
(***************************************************************************)
(* The text of a payload on the wire.  payload/payload.c writes it with    *)
(* craft_payload and reads it with load_payload, server.py with serialize  *)
(* and deserialize; the stations of both kinds talk to each other.         *)
(*                                                                         *)
(* A text is a sequence of words, gaps (single blanks) and the semicolon   *)
(* at its end.  A word is what lies between gaps: a number, a name, an     *)
(* address, a route or a time, none of which contains a blank.  What is    *)
(* left of a word that was cut is a word as well, but another one.         *)
(***************************************************************************)
EXTENDS Integers, Sequences

Word(v) == [is |-> "word", of |-> v]
Gap     == [is |-> "gap", of |-> " "]
End     == [is |-> "end", of |-> ";"]

\* The values of a sequence as words, each after a gap.
Spaced(s) == [i \in 1..2 * Len(s) |-> IF i % 2 = 1 THEN Gap ELSE Word(s[i \div 2])]

\* The same with gaps only in between: " ".join(s).
Joined(s) == IF s = <<>> THEN <<>> ELSE Tail(Spaced(s))

Numbers(p) == Joined(<<p.found, p.hops, p.current>>)

craft_payload(p) ==
  Numbers(p)
    \o Spaced(p.stations) \o Spaced(p.address) \o Spaced(p.routes) \o Spaced(p.time)
    \o Spaced(<<p.destination, p.source>>) \o Spaced(<<p.start_time>>) \o <<End>>

\* Here an empty list leaves two gaps next to each other.
serialize(p) ==
  Numbers(p) \o <<Gap>>
    \o Joined(p.stations) \o <<Gap>> \o Joined(p.address) \o <<Gap>>
    \o Joined(p.routes) \o <<Gap>> \o Joined(p.time) \o <<Gap>>
    \o Joined(<<p.destination, p.source>>) \o <<Gap>> \o Joined(<<p.start_time>>)
    \o <<End>>

\* The words of a text: strtok and split take a run of blanks for one.
Words(text) ==
  LET w[n \in 0..Len(text)] ==
        IF n = 0 THEN <<>>
        ELSE IF text[n].is = "word" THEN Append(w[n - 1], text[n].of) ELSE w[n - 1]
  IN  w[Len(text)]

\* The n-th of the four lists of h words each that follow the three numbers.
List(w, h, n) == SubSeq(w, 4 + (n - 1) * h, 3 + n * h)

Fields(w, h) ==
  [found |-> w[1], hops |-> h, current |-> w[3],
   stations |-> List(w, h, 1), address |-> List(w, h, 2),
   routes |-> List(w, h, 3), time |-> List(w, h, 4),
   destination |-> w[4 * h + 4], source |-> w[4 * h + 5],
   start_time |-> w[4 * h + 6]]

\* Mutant: the addresses are taken before the stations.
load_payload_swapped(text) ==
  LET w == Words(text)
      f == Fields(w, w[2])
  IN  IF Len(w) < 3 \/ Len(w) < 4 * w[2] + 6 THEN {}
      ELSE {[f EXCEPT !.stations = f.address, !.address = f.stations]}

\* Mutant: a missing word is left as it was, and the rest is read.
load_payload_lenient(text) ==
  LET w == Words(text)
  IN  IF Len(w) < 3 \/ Len(w) < 4 * w[2] + 5 THEN {} ELSE {Fields(Append(w, w[2]), w[2])}

\* The payload that is read, as a set; none if strtok runs out of words and
\* strcpy is called with NULL.
load_payload(text) ==
  LET w == Words(text)
  IN  IF Len(w) < 3 \/ Len(w) < 4 * w[2] + 6 THEN {} ELSE {Fields(w, w[2])}

\* The last three words are counted from the end.  Without a semicolon the
\* pattern does not match, and the payload stays empty.
deserialize(text) ==
  LET w == Words(text)
      h == w[2]
  IN  IF \A i \in 1..Len(text) : text[i] # End THEN {}
      ELSE {[Fields(w, h) EXCEPT !.destination = w[Len(w) - 2],
                                 !.source = w[Len(w) - 1],
                                 !.start_time = w[Len(w)]]}

-----------------------------------------------------------------------------
(* What both ends rely on, for a payload p *)

\* Each kind of station reads what either kind has written.
Survives(p) ==
  \A text \in {craft_payload(p), serialize(p)} :
    load_payload(text) = {p} /\ deserialize(text) = {p}

\* A text cut inside its word number n + 1 ends in what is left of the word.
CutInside(text, n, torn) == Append(SubSeq(text, 1, n), Word(torn))

(***************************************************************************)
(* A text that has lost its end, between two words or inside one of which  *)
(* torn is left, is not read at all: deserialize wants the semicolon, and  *)
(* load_payload runs out of words.  The one exception is the last word:    *)
(* load_payload takes the rest of start_time for all of it, and does not   *)
(* miss the semicolon.                                                     *)
(***************************************************************************)
CutTearsTheTimeOnly(p, torn) ==
  \A text \in {craft_payload(p), serialize(p)} :
    LET l == Len(text) - 1   \* where start_time is
    IN  /\ \A n \in 0..l :
             /\ deserialize(SubSeq(text, 1, n)) = {}
             /\ load_payload(SubSeq(text, 1, n)) = IF n = l THEN {p} ELSE {}
        /\ \A n \in 0..l - 1 : text[n + 1].is = "word" =>
             /\ deserialize(CutInside(text, n, torn)) = {}
             /\ load_payload(CutInside(text, n, torn)) =
                  IF n = l - 1 THEN {[p EXCEPT !.start_time = torn]} ELSE {}
=============================================================================
