----------------------------- MODULE WireProofs -----------------------------
(***************************************************************************)
(* Theorems about modules Codec and Wire: the stations of both kinds read  *)
(* what either has written, for payloads of any length.                    *)
(***************************************************************************)
EXTENDS Wire, RelayProofs

-----------------------------------------------------------------------------
(* The words of a text *)

\* The pieces a text is made of, when V has the values and the blanks.
Token(V) == [is : {"word", "gap", "end"}, of : V]

\* The words of w and then, if the token t is one, its own.
Taken(w, t) == IF t.is = "word" THEN Append(w, t.of) ELSE w

\* A token adds at most one word.
LEMMA TakenTypes ==
  ASSUME NEW V, NEW w \in Seq(V), NEW t \in Token(V)
  PROVE  Taken(w, t) \in Seq(V)
BY DEF Taken, Token

\* The recursion of Words, unrolled.
LEMMA WordsUnroll ==
  ASSUME NEW V, NEW text \in Seq(Token(V))
  PROVE  \E f \in [0..Len(text) -> Seq(V)] :
           /\ f[0] = <<>> /\ Words(text) = f[Len(text)]
           /\ \A n \in 1..Len(text) : f[n] = Taken(f[n - 1], text[n])
<1> DEFINE L == Len(text)
           Solves(f) == f = [n \in 0..L |->
                          IF n = 0 THEN <<>>
                          ELSE IF text[n].is = "word" THEN Append(f[n - 1], text[n].of)
                               ELSE f[n - 1]]
           c == CHOOSE f : Solves(f)
<1>1. Words(text) = c[L]
  BY Zenon DEF Words
<1>2. L \in Nat /\ \A n \in 1..L : text[n] \in Token(V)
  OBVIOUS
<1> HIDE DEF L
<1>3. /\ \A n \in 1..L : n - 1 \in 0..L /\ n \in 0..L /\ n # 0
      /\ \A n \in 0..L : n # 0 => n \in 1..L
      /\ L \in 0..L /\ 0 \in 0..L
  BY <1>2
<1>4. \E f : Solves(f)
  <2> DEFINE D == [n \in 1..L |-> [v \in Seq(V) |-> Taken(v, text[n])]]
  <2>1. D \in [1..L -> [Seq(V) -> Seq(V)]]
    BY <1>2, TakenTypes
  <2>2. <<>> \in Seq(V)
    OBVIOUS
  <2>3. PICK f \in [0..L -> Seq(V)] : Recurses(f, L, <<>>, D)
    <3> HIDE DEF D, Solves
    <3>1. QED
      BY <1>2, <2>1, <2>2, RecursionUpTo
  <2>4. ASSUME NEW n \in 1..L PROVE f[n] = Taken(f[n - 1], text[n])
    <3>1. f[n - 1] \in Seq(V)
      BY <1>3
    <3>2. QED
      BY <2>3, <3>1 DEF Recurses
  <2>5. Solves(f)
    BY <1>3, <2>3, <2>4 DEF Recurses, Taken
  <2> HIDE DEF Solves
  <2>6. QED
    BY <2>5
<1>5. Solves(c)
  <2> HIDE DEF Solves
  <2> QED BY <1>4
<1> HIDE DEF c
<1>6. c[0] = <<>> /\ \A n \in 1..L : c[n] = Taken(c[n - 1], text[n])
  BY <1>3, <1>5 DEF Taken
<1> DEFINE T == {n \in 0..L : c[n] \in Seq(V)}
<1>7. 0 \in T
  <2>1. <<>> \in Seq(V)
    OBVIOUS
  <2>2. c[0] \in Seq(V)
    BY <1>6, <2>1, Zenon
  <2>3. QED
    BY <1>3, <2>2
<1>8. \A n \in 1..L : n - 1 \in T => n \in T
  BY <1>2, <1>3, <1>6, TakenTypes
<1>9. 0..L \subseteq T
  <2> HIDE DEF T
  <2> QED BY <1>2, <1>7, <1>8, InductionUpTo, Zenon
<1>10. c \in [0..L -> Seq(V)]
  BY <1>5, <1>9
<1> HIDE DEF Solves, T
<1>11. QED
  BY <1>1, <1>6, <1>10 DEF L

\* The words are values.
LEMMA WordsTypes ==
  ASSUME NEW V, NEW text \in Seq(Token(V))
  PROVE  Words(text) \in Seq(V)
<1>1. PICK f \in [0..Len(text) -> Seq(V)] : Words(text) = f[Len(text)]
  BY WordsUnroll
<1>2. Len(text) \in 0..Len(text)
  OBVIOUS
<1>3. QED
  BY <1>1, <1>2

\* A sequence that unrolls a text ends with its words.
LEMMA WordsAre ==
  ASSUME NEW V, NEW text \in Seq(Token(V)), NEW g,
         g[0] = <<>>, \A n \in 1..Len(text) : g[n] = Taken(g[n - 1], text[n])
  PROVE  Words(text) = g[Len(text)]
<1>1. PICK f \in [0..Len(text) -> Seq(V)] :
           /\ f[0] = <<>> /\ Words(text) = f[Len(text)]
           /\ \A n \in 1..Len(text) : f[n] = Taken(f[n - 1], text[n])
  BY WordsUnroll
<1> DEFINE T == {n \in 0..Len(text) : f[n] = g[n]}
<1>2. Len(text) \in Nat
  OBVIOUS
<1>3. 0 \in T
  BY <1>1, <1>2
<1>4. \A n \in 1..Len(text) : n - 1 \in T => n \in T
  BY <1>1, <1>2
<1>5. 0..Len(text) \subseteq T
  <2> HIDE DEF T
  <2> QED BY <1>2, <1>3, <1>4, InductionUpTo, Zenon
<1>6. QED
  BY <1>1, <1>2, <1>5

\* Words that were taken before stay in front.
LEMMA TakenConcat ==
  ASSUME NEW V, NEW a \in Seq(V), NEW u \in Seq(V), NEW t \in Token(V)
  PROVE  Taken(a \o u, t) = a \o Taken(u, t)
<1> DEFINE v == t.of
<1>1. v \in V
  BY DEF Token
<1> HIDE DEF v
<1>2. <<v>> \in Seq(V) /\ a \o u \in Seq(V)
  BY <1>1
<1>3. Append(a \o u, v) = (a \o u) \o <<v>>
  BY <1>1, <1>2, AppendIsConcat, Zenon
<1>4. Append(u, v) = u \o <<v>>
  BY <1>1, AppendIsConcat, Zenon
<1>5. (a \o u) \o <<v>> = a \o (u \o <<v>>)
  <2> DEFINE w == <<v>>
  <2>1. w \in Seq(V)
    BY <1>2
  <2> HIDE DEF w
  <2>2. (a \o u) \o w = a \o (u \o w)
    BY <2>1, ConcatAssociative
  <2>3. QED
    BY <2>2 DEF w
<1>6. Append(a \o u, v) = a \o Append(u, v)
  BY <1>3, <1>4, <1>5, Zenon
<1>7. QED
  BY <1>6, Zenon DEF Taken, v

\* The words of two texts, one after the other.
LEMMA WordsConcat ==
  ASSUME NEW V, NEW s \in Seq(Token(V)), NEW t \in Seq(Token(V))
  PROVE  Words(s \o t) = Words(s) \o Words(t)
<1>1. PICK f \in [0..Len(s) -> Seq(V)] :
           /\ f[0] = <<>> /\ Words(s) = f[Len(s)]
           /\ \A n \in 1..Len(s) : f[n] = Taken(f[n - 1], s[n])
  BY WordsUnroll
<1>2. PICK h \in [0..Len(t) -> Seq(V)] :
           /\ h[0] = <<>> /\ Words(t) = h[Len(t)]
           /\ \A n \in 1..Len(t) : h[n] = Taken(h[n - 1], t[n])
  BY WordsUnroll
<1> DEFINE x == Len(s)
           y == Len(t)
           g == [n \in 0..x + y |-> IF n <= x THEN f[n] ELSE f[x] \o h[n - x]]
<1>3. x \in Nat /\ y \in Nat
  OBVIOUS
<1>4. /\ s \o t \in Seq(Token(V)) /\ Len(s \o t) = x + y
      /\ \A n \in 1..x : (s \o t)[n] = s[n]
      /\ \A n \in 1..x + y : n > x => (s \o t)[n] = t[n - x]
  BY <1>3
<1>5. f[x] \in Seq(V)
  BY <1>3
<1> HIDE DEF x, y
<1>6. f[x] \o <<>> = f[x]
  BY <1>5, ConcatEmptySeq
<1>7. g[0] = <<>>
  BY <1>1, <1>3
<1>8. \A n \in x..x + y : g[n] = f[x] \o h[n - x]
  <2> TAKE n \in x..x + y
  <2>1. CASE n = x
    <3>1. n - x = 0 /\ n <= x /\ n \in 0..x + y
      BY <1>3, <2>1
    <3>2. QED
      BY <1>2, <1>6, <2>1, <3>1
  <2>2. CASE n # x
    <3>1. n \in 0..x + y /\ ~ (n <= x)
      BY <1>3, <2>2
    <3>2. QED
      BY <3>1, Zenon
  <2>3. QED
    BY <2>1, <2>2
<1>9. ASSUME NEW n \in 1..x + y PROVE g[n] = Taken(g[n - 1], (s \o t)[n])
  <2>1. CASE n <= x
    <3>1. n \in 1..x /\ n - 1 \in 0..x + y /\ n \in 0..x + y /\ n - 1 <= x
      BY <1>3, <2>1
    <3>2. g[n] = f[n] /\ g[n - 1] = f[n - 1]
      BY <2>1, <3>1
    <3>3. QED
      BY <1>1, <1>4, <3>1, <3>2 DEF x
  <2>2. CASE n > x
    <3> DEFINE k == n - x
    <3>1. k \in 1..y /\ n \in x..x + y /\ n - 1 \in x..x + y /\ (n - 1) - x = k - 1
      BY <1>3, <2>2
    <3>2. g[n] = f[x] \o h[k] /\ g[n - 1] = f[x] \o h[k - 1] /\ (s \o t)[n] = t[k]
      <4> HIDE DEF g
      <4>1. g[n] = f[x] \o h[k] /\ g[n - 1] = f[x] \o h[(n - 1) - x]
        BY <1>8, <3>1, Zenon
      <4>2. (s \o t)[n] = t[k]
        BY <1>4, <2>2, Zenon
      <4>3. QED
        BY <3>1, <4>1, <4>2, Zenon
    <3> HIDE DEF k
    <3>3. h[k] = Taken(h[k - 1], t[k]) /\ h[k - 1] \in Seq(V) /\ t[k] \in Token(V)
      <4>1. k \in 1..Len(t) /\ k - 1 \in 0..Len(t)
        BY <1>3, <3>1 DEF y
      <4>2. h[k] = Taken(h[k - 1], t[k])
        BY <1>2, <4>1, Zenon
      <4>3. h[k - 1] \in Seq(V)
        BY <4>1, Zenon
      <4>4. t[k] \in Token(V)
        BY <4>1, ElementOfSeq, Zenon
      <4>5. QED
        BY <4>2, <4>3, <4>4, Zenon
    <3>4. Taken(f[x] \o h[k - 1], t[k]) = f[x] \o Taken(h[k - 1], t[k])
      <4> DEFINE u == h[k - 1]
                 e == t[k]
                 a == f[x]
      <4>1. u \in Seq(V) /\ e \in Token(V) /\ a \in Seq(V)
        BY <1>5, <3>3, Zenon
      <4> HIDE DEF u, e, a
      <4>2. Taken(a \o u, e) = a \o Taken(u, e)
        BY <4>1, TakenConcat
      <4>3. QED
        BY <4>2, Zenon DEF u, e, a
    <3>5. QED
      BY <3>2, <3>3, <3>4, Zenon
  <2>3. n <= x \/ n > x
    BY <1>3
  <2>4. QED
    BY <2>1, <2>2, <2>3, Zenon
<1>10. Words(s \o t) = g[x + y]
  <2> HIDE DEF g
  <2>1. QED
    BY <1>4, <1>7, <1>9, WordsAre
<1>11. g[x + y] = f[x] \o h[y]
  <2> HIDE DEF g
  <2>1. x + y \in x..x + y /\ (x + y) - x = y
    BY <1>3
  <2>2. g[x + y] = f[x] \o h[(x + y) - x]
    BY <1>8, <2>1, Zenon
  <2>3. QED
    BY <2>1, <2>2, Zenon
<1>12. QED
  BY <1>1, <1>2, <1>10, <1>11 DEF x, y

\* No text, no words.
LEMMA WordsEmpty == Words(<<>>) = <<>>
<1> DEFINE V == {0}
           g == [n \in {0} |-> <<>>]
<1>1. <<>> \in Seq(Token(V)) /\ Len(<<>>) = 0
  OBVIOUS
<1>2. g[0] = <<>> /\ \A n \in 1..Len(<<>>) : g[n] = Taken(g[n - 1], <<>>[n])
  OBVIOUS
<1>3. Words(<<>>) = g[Len(<<>>)]
  <2> HIDE DEF V, g
  <2> QED BY <1>1, <1>2, WordsAre
<1>4. QED
  BY <1>1, <1>3

\* One piece of text.
LEMMA WordsOne ==
  ASSUME NEW V, NEW t \in Token(V)
  PROVE  Words(<<t>>) = Taken(<<>>, t)
<1> DEFINE g == [n \in 0..1 |-> IF n = 0 THEN <<>> ELSE Taken(<<>>, t)]
<1>1. <<t>> \in Seq(Token(V)) /\ Len(<<t>>) = 1 /\ <<t>>[1] = t
  OBVIOUS
<1>2. g[0] = <<>> /\ g[1] = Taken(<<>>, t)
  OBVIOUS
<1> HIDE DEF g
<1>3. ASSUME NEW n \in 1..Len(<<t>>) PROVE g[n] = Taken(g[n - 1], <<t>>[n])
  <2>1. n = 1 /\ n - 1 = 0
    BY <1>1
  <2>2. QED
    BY <1>1, <1>2, <2>1
<1>4. Words(<<t>>) = g[Len(<<t>>)]
  BY <1>1, <1>2, <1>3, WordsAre
<1>5. QED
  BY <1>1, <1>2, <1>4

\* Texts over the values V, and the pieces of those without an end.
Values(V) == V \cup {" ", ";"}
Plain(V)  == [is : {"word", "gap"}, of : V \cup {" "}]

\* Every position of 2n is the first or the second of its pair.
LEMMA Pairs ==
  ASSUME NEW l \in Nat, NEW n \in 1..2 * l
  PROVE  \E k \in 1..l : \/ n = 2 * k - 1 /\ n % 2 = 1 /\ n \div 2 = k - 1 /\ (n - 1) \div 2 = k - 1
                         \/ n = 2 * k /\ n % 2 = 0 /\ n \div 2 = k /\ (n - 1) \div 2 = k - 1
<1> DEFINE k == (n + 1) \div 2
<1>1. k \in 1..l /\ (n = 2 * k - 1 \/ n = 2 * k)
  OBVIOUS
<1> HIDE DEF k
<1>2. CASE n = 2 * k - 1
  <2>1. n % 2 = 1 /\ n \div 2 = k - 1 /\ (n - 1) \div 2 = k - 1
    BY <1>1, <1>2
  <2>2. QED
    BY <1>1, <1>2, <2>1
<1>3. CASE n = 2 * k
  <2>1. n % 2 = 0 /\ n \div 2 = k /\ (n - 1) \div 2 = k - 1
    BY <1>1, <1>3
  <2>2. QED
    BY <1>1, <1>3, <2>1
<1>4. QED
  BY <1>1, <1>2, <1>3

\* Words and blanks are plain pieces of text, the semicolon is none.
LEMMA Pieces ==
  ASSUME NEW V
  PROVE  /\ Gap \in Plain(V) /\ Gap.is # "word"
         /\ End \in Token(Values(V)) /\ End.is # "word" /\ End \notin Plain(V)
         /\ \A v \in V : Word(v) \in Plain(V) /\ Word(v).is = "word" /\ Word(v).of = v
         /\ Plain(V) \subseteq Token(Values(V))
BY DEF Gap, End, Word, Token, Values, Plain

\* A plain text is a text.
LEMMA PlainText ==
  ASSUME NEW V, NEW s \in Seq(Plain(V))
  PROVE  s \in Seq(Token(Values(V)))
BY Pieces, SeqMonotonic

\* What Spaced writes.
LEMMA SpacedFacts ==
  ASSUME NEW V, NEW s \in Seq(V)
  PROVE  /\ Spaced(s) \in Seq(Plain(V)) /\ Len(Spaced(s)) = 2 * Len(s)
         /\ \A n \in 1..2 * Len(s) :
              Spaced(s)[n] = IF n % 2 = 1 THEN Gap ELSE Word(s[n \div 2])
<1> DEFINE l == Len(s)
           Piece(n) == IF n % 2 = 1 THEN Gap ELSE Word(s[n \div 2])
<1>1. l \in Nat /\ 2 * l \in Nat
  OBVIOUS
<1>2. ASSUME NEW n \in 1..2 * l PROVE Piece(n) \in Plain(V)
  <2>1. PICK k \in 1..l : n % 2 = 1 \/ (n % 2 = 0 /\ n \div 2 = k)
    BY <1>1, Pairs
  <2>2. s[k] \in V
    BY <2>1
  <2>3. QED
    BY <2>1, <2>2, Pieces
<1>3. Spaced(s) = [n \in 1..2 * l |-> Piece(n)]
  BY DEF Spaced
<1> HIDE DEF Piece, l
<1>4. Spaced(s) \in Seq(Plain(V)) /\ Len(Spaced(s)) = 2 * l
  BY <1>1, <1>2, <1>3
<1>5. \A n \in 1..2 * l : Spaced(s)[n] = Piece(n)
  BY <1>3
<1>6. QED
  BY <1>4, <1>5 DEF Piece, l

\* The words of values that are written with a blank before each.
LEMMA WordsSpaced ==
  ASSUME NEW V, NEW s \in Seq(V)
  PROVE  Words(Spaced(s)) = s
<1> DEFINE l == Len(s)
           g == [n \in 0..2 * l |-> SubSeq(s, 1, n \div 2)]
<1>1. l \in Nat /\ 2 * l \in Nat /\ (2 * l) \div 2 = l /\ 0 \div 2 = 0
  OBVIOUS
<1>2. g[0] = <<>>
  <2>1. g[0] = SubSeq(s, 1, 0)
    BY <1>1
  <2>2. QED
    BY <2>1, SubSeqEmpty
<1>3. g[2 * l] = s
  <2>1. g[2 * l] = SubSeq(s, 1, l)
    BY <1>1
  <2>2. QED
    BY <2>1, SubSeqFull
<1>4. ASSUME NEW n \in 1..2 * l PROVE g[n] = Taken(g[n - 1], Spaced(s)[n])
  <2>1. n \in 0..2 * l /\ n - 1 \in 0..2 * l
    BY <1>1
  <2>2. g[n] = SubSeq(s, 1, n \div 2) /\ g[n - 1] = SubSeq(s, 1, (n - 1) \div 2)
    BY <2>1, Zenon
  <2>3. PICK k \in 1..l :
          \/ n = 2 * k - 1 /\ n % 2 = 1 /\ n \div 2 = k - 1 /\ (n - 1) \div 2 = k - 1
          \/ n = 2 * k /\ n % 2 = 0 /\ n \div 2 = k /\ (n - 1) \div 2 = k - 1
    BY <1>1, Pairs
  <2>4. Spaced(s)[n] = IF n % 2 = 1 THEN Gap ELSE Word(s[n \div 2])
    BY SpacedFacts
  <2>5. s[k] \in V
    BY <2>3
  <2>6. CASE n % 2 = 1
    <3>1. Spaced(s)[n] = Gap /\ g[n] = g[n - 1]
      BY <2>2, <2>3, <2>4, <2>6
    <3>2. QED
      BY <3>1, Pieces DEF Taken
  <2>7. CASE n % 2 = 0
    <3>1. /\ Spaced(s)[n] = Word(s[k])
          /\ g[n] = SubSeq(s, 1, k) /\ g[n - 1] = SubSeq(s, 1, k - 1)
      <4>1. n % 2 # 1 /\ n \div 2 = k /\ (n - 1) \div 2 = k - 1
        BY <2>3, <2>7
      <4>2. QED
        BY <2>2, <2>4, <4>1, Zenon
    <3>2. Taken(g[n - 1], Word(s[k])) = Append(g[n - 1], s[k])
      BY <2>5, Pieces DEF Taken
    <3>3. SubSeq(s, 1, k) = SubSeq(s, 1, k - 1) \o <<s[k]>>
      <4>1. 1 \in 1..Len(s) /\ k \in 1..Len(s)
        BY <1>1, <2>3
      <4>2. QED
        BY <4>1, SubSeqRecursiveSecond
    <3>4. SubSeq(s, 1, k - 1) \in Seq(V)
      BY <1>1, <2>3
    <3>5. Append(SubSeq(s, 1, k - 1), s[k]) = SubSeq(s, 1, k - 1) \o <<s[k]>>
      BY <2>5, <3>4, AppendIsConcat
    <3>6. QED
      BY <3>1, <3>2, <3>3, <3>5, Zenon
  <2>8. QED
    BY <2>3, <2>6, <2>7
<1>5. Spaced(s) \in Seq(Plain(V)) /\ Len(Spaced(s)) = 2 * l
  BY SpacedFacts
<1>6. Spaced(s) \in Seq(Token(Values(V)))
  BY <1>5, PlainText
<1> HIDE DEF g, l
<1>7. Words(Spaced(s)) = g[2 * l]
  BY <1>2, <1>4, <1>5, <1>6, WordsAre
<1>8. QED
  BY <1>3, <1>7

\* Plain texts one after the other, and a blank.
LEMMA PlainConcat ==
  ASSUME NEW V, NEW s \in Seq(Plain(V)), NEW t \in Seq(Plain(V))
  PROVE  /\ s \o t \in Seq(Plain(V)) /\ Words(s \o t) = Words(s) \o Words(t)
         /\ Words(s) \in Seq(Values(V))
<1>1. s \in Seq(Token(Values(V))) /\ t \in Seq(Token(Values(V)))
  BY PlainText
<1>2. QED
  BY <1>1, WordsConcat, WordsTypes

\* A blank adds no word.
LEMMA BlankFacts ==
  ASSUME NEW V
  PROVE  <<Gap>> \in Seq(Plain(V)) /\ Words(<<Gap>>) = <<>>
<1>1. Gap \in Token(Values(V)) /\ Gap \in Plain(V) /\ Gap.is # "word"
  BY Pieces
<1>2. Words(<<Gap>>) = <<>>
  BY <1>1, WordsOne DEF Taken
<1>3. QED
  BY <1>1, <1>2

\* The words of values that are written with blanks in between.
LEMMA WordsJoined ==
  ASSUME NEW V, NEW s \in Seq(V)
  PROVE  Joined(s) \in Seq(Plain(V)) /\ Words(Joined(s)) = s
<1>1. CASE s = <<>>
  BY <1>1, WordsEmpty DEF Joined
<1>2. CASE s # <<>>
  <2> DEFINE t == Spaced(s)
             r == Tail(t)
  <2>1. t \in Seq(Plain(V)) /\ Len(t) = 2 * Len(s) /\ Words(t) = s
    BY SpacedFacts, WordsSpaced
  <2>2. Len(s) \in Nat \ {0}
    BY <1>2
  <2>3. t[1] = Gap
    <3>1. 1 \in 1..2 * Len(s) /\ 1 % 2 = 1
      BY <2>2
    <3>2. QED
      BY <3>1, SpacedFacts
  <2>4. Joined(s) = r
    BY <1>2 DEF Joined
  <2> HIDE DEF t
  <2>5. Len(t) >= 1 /\ t # <<>>
    BY <2>1, <2>2
  <2>6. r \in Seq(Plain(V)) /\ Len(r) = Len(t) - 1 /\ \A n \in 1..Len(r) : r[n] = t[n + 1]
    BY <2>1, <2>5, HeadTailProperties
  <2> HIDE DEF r
  <2>7. t = <<Gap>> \o r
    <3> DEFINE u == <<Gap>> \o r
    <3>1. u \in Seq(Plain(V)) /\ Len(u) = 1 + Len(r) /\ u[1] = Gap
          /\ \A n \in 2..1 + Len(r) : u[n] = r[n - 1]
      BY <2>6, BlankFacts
    <3> HIDE DEF u
    <3>2. Len(u) = Len(t) /\ Len(t) \in Nat
      BY <2>1, <2>6, <3>1
    <3>3. ASSUME NEW n \in 1..Len(t) PROVE t[n] = u[n]
      <4>1. CASE n = 1
        BY <2>3, <3>1, <4>1
      <4>2. CASE n # 1
        <5>1. n - 1 \in 1..Len(r) /\ n \in 2..1 + Len(r) /\ (n - 1) + 1 = n
          BY <2>6, <3>2, <4>2
        <5>2. u[n] = r[n - 1] /\ r[n - 1] = t[(n - 1) + 1]
          BY <2>6, <3>1, <5>1, Zenon
        <5>3. QED
          BY <5>1, <5>2
      <4>3. QED
        BY <4>1, <4>2
    <3>4. t = u
      BY <2>1, <3>1, <3>2, <3>3, SeqEqual
    <3>5. QED
      BY <3>4 DEF u
  <2>8. Words(t) = <<>> \o Words(r) /\ Words(r) \in Seq(Values(V))
    <3> DEFINE b == <<Gap>>
    <3>1. b \in Seq(Plain(V)) /\ Words(b) = <<>>
      BY BlankFacts
    <3> HIDE DEF b
    <3>2. Words(b \o r) = Words(b) \o Words(r) /\ Words(r) \in Seq(Values(V))
      BY <2>6, <3>1, PlainConcat
    <3>3. QED
      BY <2>7, <3>1, <3>2 DEF b
  <2>9. <<>> \o Words(r) = Words(r)
    BY <2>8, ConcatEmptySeq
  <2>10. QED
    BY <2>1, <2>4, <2>6, <2>8, <2>9
<1>3. QED
  BY <1>1, <1>2

\* How craft_payload goes on: a blank before every word.
LEMMA CraftMore ==
  ASSUME NEW V, NEW t \in Seq(Plain(V)), NEW s \in Seq(V)
  PROVE  t \o Spaced(s) \in Seq(Plain(V)) /\ Words(t \o Spaced(s)) = Words(t) \o s
<1>1. Spaced(s) \in Seq(Plain(V)) /\ Words(Spaced(s)) = s
  BY SpacedFacts, WordsSpaced
<1>2. QED
  BY <1>1, PlainConcat

\* How serialize goes on: a blank, and then the words joined by blanks.
LEMMA SerializeMore ==
  ASSUME NEW V, NEW t \in Seq(Plain(V)), NEW s \in Seq(V)
  PROVE  /\ (t \o <<Gap>>) \o Joined(s) \in Seq(Plain(V))
         /\ Words((t \o <<Gap>>) \o Joined(s)) = Words(t) \o s
<1>1. Joined(s) \in Seq(Plain(V)) /\ Words(Joined(s)) = s
  BY WordsJoined
<1> DEFINE b == <<Gap>>
<1>2. b \in Seq(Plain(V)) /\ Words(b) = <<>>
  BY BlankFacts
<1> HIDE DEF b
<1>3. t \o b \in Seq(Plain(V)) /\ Words(t \o b) = Words(t)
  <2>1. /\ t \o b \in Seq(Plain(V)) /\ Words(t \o b) = Words(t) \o Words(b)
        /\ Words(t) \in Seq(Values(V))
    BY <1>2, PlainConcat
  <2>2. QED
    BY <1>2, <2>1, ConcatEmptySeq
<1> DEFINE u == t \o b
           j == Joined(s)
<1> HIDE DEF u, j
<1>4. u \o j \in Seq(Plain(V)) /\ Words(u \o j) = Words(u) \o Words(j)
  BY <1>1, <1>3, PlainConcat DEF u, j
<1>5. QED
  BY <1>1, <1>3, <1>4 DEF u, j, b

-----------------------------------------------------------------------------
(* The text of a payload *)

\* What may be a word of a payload.
Value == UNION {Nat, Name, Addr, Route, {Unknown, NOTFOUND}, Time, {Torn}}

\* hops says how long the four lists are.
Even(p) ==
  /\ Len(p.stations) = p.hops /\ Len(p.address) = p.hops
  /\ Len(p.routes) = p.hops /\ Len(p.time) = p.hops

\* The words of a payload, in the order of the text.
AllWords(p) ==
  <<p.found, p.hops, p.current>> \o p.stations \o p.address \o p.routes \o p.time
    \o <<p.destination, p.source>> \o <<p.start_time>>

\* The texts, without the semicolon at their end.
Crafted(p) ==
  Numbers(p)
    \o Spaced(p.stations) \o Spaced(p.address) \o Spaced(p.routes) \o Spaced(p.time)
    \o Spaced(<<p.destination, p.source>>) \o Spaced(<<p.start_time>>)

Serialized(p) ==
  Numbers(p) \o <<Gap>>
    \o Joined(p.stations) \o <<Gap>> \o Joined(p.address) \o <<Gap>>
    \o Joined(p.routes) \o <<Gap>> \o Joined(p.time) \o <<Gap>>
    \o Joined(<<p.destination, p.source>>) \o <<Gap>> \o Joined(<<p.start_time>>)

\* Every field is made of values.
LEMMA PayloadValues ==
  ASSUME NEW p \in Payload
  PROVE  /\ p.stations \in Seq(Value) /\ p.address \in Seq(Value)
         /\ p.routes \in Seq(Value) /\ p.time \in Seq(Value)
         /\ <<p.found, p.hops, p.current>> \in Seq(Value)
         /\ <<p.destination, p.source>> \in Seq(Value) /\ <<p.start_time>> \in Seq(Value)
         /\ p.start_time \in Value
<1>1. /\ Station \subseteq Value /\ Addr \subseteq Value /\ Nat \subseteq Value
      /\ Route \cup {Unknown, NOTFOUND} \subseteq Value /\ Time \subseteq Value
      /\ Name \subseteq Value /\ 0..4 \subseteq Value /\ Clock \cup {Torn} \subseteq Value
  <2>1. Station \subseteq Name /\ 0..4 \subseteq Nat /\ Clock \subseteq Time
    BY RelayAssumption DEF Time
  <2>2. QED
    BY <2>1 DEF Value
<1>2. /\ p.stations \in Seq(Station) /\ p.address \in Seq(Addr)
      /\ p.routes \in Seq(Route \cup {Unknown, NOTFOUND}) /\ p.time \in Seq(Time)
  BY DEF Payload
<1>3. /\ p.found \in 0..4 /\ p.hops \in Nat /\ p.current \in Nat
      /\ p.destination \in Name /\ p.source \in Station /\ p.start_time \in Clock \cup {Torn}
  BY DEF Payload
<1>4. /\ p.stations \in Seq(Value) /\ p.address \in Seq(Value)
      /\ p.routes \in Seq(Value) /\ p.time \in Seq(Value)
  BY <1>1, <1>2, SeqMonotonic, Zenon
<1>5. /\ p.found \in Value /\ p.hops \in Value /\ p.current \in Value
      /\ p.destination \in Value /\ p.source \in Value /\ p.start_time \in Value
  BY <1>1, <1>3, Zenon
<1>6. \A x, y, z \in Value : <<x, y, z>> \in Seq(Value) /\ <<x, y>> \in Seq(Value) /\ <<x>> \in Seq(Value)
  OBVIOUS
<1>7. QED
  BY <1>4, <1>5, <1>6, Zenon

\* The words of the text that craft_payload writes.
LEMMA CraftedWords ==
  ASSUME NEW p \in Payload
  PROVE  /\ Crafted(p) \in Seq(Plain(Value)) /\ Words(Crafted(p)) = AllWords(p)
         /\ \E t \in Seq(Plain(Value)) : Crafted(p) = t \o Spaced(<<p.start_time>>)
<1> DEFINE n == <<p.found, p.hops, p.current>>
           e == <<p.destination, p.source>>
           f == <<p.start_time>>
           t0 == Joined(n)
           t1 == t0 \o Spaced(p.stations)
           t2 == t1 \o Spaced(p.address)
           t3 == t2 \o Spaced(p.routes)
           t4 == t3 \o Spaced(p.time)
           t5 == t4 \o Spaced(e)
           t6 == t5 \o Spaced(f)
<1>1. Crafted(p) = t6
  BY Zenon DEF Crafted, Numbers
<1>2. AllWords(p) = n \o p.stations \o p.address \o p.routes \o p.time \o e \o f
  BY Zenon DEF AllWords
<1>3. /\ p.stations \in Seq(Value) /\ p.address \in Seq(Value)
      /\ p.routes \in Seq(Value) /\ p.time \in Seq(Value)
      /\ n \in Seq(Value) /\ e \in Seq(Value) /\ f \in Seq(Value)
  BY PayloadValues, Zenon
<1> HIDE DEF n, e, f, t0, t1, t2, t3, t4, t5, t6
<1>4. t0 \in Seq(Plain(Value)) /\ Words(t0) = n
  BY <1>3, WordsJoined, Zenon DEF t0
<1>5. t1 \in Seq(Plain(Value)) /\ Words(t1) = Words(t0) \o p.stations
  BY <1>3, <1>4, CraftMore, Zenon DEF t1
<1>6. t2 \in Seq(Plain(Value)) /\ Words(t2) = Words(t1) \o p.address
  BY <1>3, <1>5, CraftMore, Zenon DEF t2
<1>7. t3 \in Seq(Plain(Value)) /\ Words(t3) = Words(t2) \o p.routes
  BY <1>3, <1>6, CraftMore, Zenon DEF t3
<1>8. t4 \in Seq(Plain(Value)) /\ Words(t4) = Words(t3) \o p.time
  BY <1>3, <1>7, CraftMore, Zenon DEF t4
<1>9. t5 \in Seq(Plain(Value)) /\ Words(t5) = Words(t4) \o e
  BY <1>3, <1>8, CraftMore, Zenon DEF t5
<1>10. t6 \in Seq(Plain(Value)) /\ Words(t6) = Words(t5) \o f
  BY <1>3, <1>9, CraftMore, Zenon DEF t6
<1>11. Crafted(p) = t5 \o Spaced(<<p.start_time>>)
  BY <1>1, Zenon DEF t6, f
<1>12. Words(t6) = AllWords(p)
  BY <1>2, <1>4, <1>5, <1>6, <1>7, <1>8, <1>9, <1>10, Zenon
<1>13. QED
  BY <1>1, <1>9, <1>10, <1>11, <1>12, Zenon

\* The words of the text that serialize writes: the same.
LEMMA SerializedWords ==
  ASSUME NEW p \in Payload
  PROVE  /\ Serialized(p) \in Seq(Plain(Value)) /\ Words(Serialized(p)) = AllWords(p)
         /\ \E t \in Seq(Plain(Value)) : Serialized(p) = t \o Joined(<<p.start_time>>)
<1> DEFINE n == <<p.found, p.hops, p.current>>
           e == <<p.destination, p.source>>
           f == <<p.start_time>>
           b == <<Gap>>
           t0 == Joined(n)
           t1 == (t0 \o b) \o Joined(p.stations)
           t2 == (t1 \o b) \o Joined(p.address)
           t3 == (t2 \o b) \o Joined(p.routes)
           t4 == (t3 \o b) \o Joined(p.time)
           t5 == (t4 \o b) \o Joined(e)
           t6 == (t5 \o b) \o Joined(f)
<1>1. Serialized(p) = t6
  BY Zenon DEF Serialized, Numbers
<1>2. AllWords(p) = n \o p.stations \o p.address \o p.routes \o p.time \o e \o f
  BY Zenon DEF AllWords
<1>3. /\ p.stations \in Seq(Value) /\ p.address \in Seq(Value)
      /\ p.routes \in Seq(Value) /\ p.time \in Seq(Value)
      /\ n \in Seq(Value) /\ e \in Seq(Value) /\ f \in Seq(Value)
  BY PayloadValues, Zenon
<1> HIDE DEF n, e, f, t0, t1, t2, t3, t4, t5, t6
<1>4. t0 \in Seq(Plain(Value)) /\ Words(t0) = n
  BY <1>3, WordsJoined, Zenon DEF t0
<1>5. t1 \in Seq(Plain(Value)) /\ Words(t1) = Words(t0) \o p.stations
  BY <1>3, <1>4, SerializeMore, Zenon DEF t1
<1>6. t2 \in Seq(Plain(Value)) /\ Words(t2) = Words(t1) \o p.address
  BY <1>3, <1>5, SerializeMore, Zenon DEF t2
<1>7. t3 \in Seq(Plain(Value)) /\ Words(t3) = Words(t2) \o p.routes
  BY <1>3, <1>6, SerializeMore, Zenon DEF t3
<1>8. t4 \in Seq(Plain(Value)) /\ Words(t4) = Words(t3) \o p.time
  BY <1>3, <1>7, SerializeMore, Zenon DEF t4
<1>9. t5 \in Seq(Plain(Value)) /\ Words(t5) = Words(t4) \o e
  BY <1>3, <1>8, SerializeMore, Zenon DEF t5
<1>10. t6 \in Seq(Plain(Value)) /\ Words(t6) = Words(t5) \o f
  BY <1>3, <1>9, SerializeMore, Zenon DEF t6
<1>11. t5 \o b \in Seq(Plain(Value))
  BY <1>9, BlankFacts, PlainConcat
<1>12. Serialized(p) = (t5 \o b) \o Joined(<<p.start_time>>)
  BY <1>1, Zenon DEF t6, f
<1>13. Words(t6) = AllWords(p)
  BY <1>2, <1>4, <1>5, <1>6, <1>7, <1>8, <1>9, <1>10, Zenon
<1>14. QED
  BY <1>1, <1>10, <1>11, <1>12, <1>13, Zenon

-----------------------------------------------------------------------------
(* Reading *)

\* c has the elements of a, and then those of b.
Follows(V, a, b, c) ==
  /\ c \in Seq(V) /\ Len(c) = Len(a) + Len(b)
  /\ \A k \in 1..Len(a) : c[k] = a[k]
  /\ \A k \in 1..Len(b) : c[Len(a) + k] = b[k]

\* Where the elements of a concatenation are.
LEMMA Joint ==
  ASSUME NEW V, NEW a \in Seq(V), NEW b \in Seq(V)
  PROVE  Follows(V, a, b, a \o b)
<1> DEFINE x == Len(a)
           y == Len(b)
           c == a \o b
<1>1. /\ c \in Seq(V) /\ Len(c) = x + y
      /\ \A k \in 1..x + y : c[k] = IF k <= x THEN a[k] ELSE b[k - x]
  BY ConcatProperties
<1>2. x \in Nat /\ y \in Nat
  OBVIOUS
<1> HIDE DEF x, y, c
<1>3. \A k \in 1..x : k \in 1..x + y /\ k <= x
  BY <1>2
<1>4. \A k \in 1..y : x + k \in 1..x + y /\ ~ (x + k <= x) /\ (x + k) - x = k
  BY <1>2
<1>5. \A k \in 1..x : c[k] = a[k]
  BY <1>1, <1>3, Zenon
<1>6. ASSUME NEW k \in 1..y PROVE c[x + k] = b[k]
  <2>1. c[x + k] = b[(x + k) - x]
    BY <1>1, <1>4, Zenon
  <2>2. QED
    BY <1>4, <2>1, Zenon
<1>7. QED
  BY <1>1, <1>5, <1>6, Zenon DEF x, y, c, Follows

\* w has the elements of the seven parts of a text, lists of length h in the middle.
Parts(V, h, n, st, ad, ro, ti, e, f, w) ==
  /\ w \in Seq(V) /\ Len(w) = 4 * h + 6
  /\ w[1] = n[1] /\ w[2] = n[2] /\ w[3] = n[3]
  /\ \A k \in 1..h : /\ w[3 + k] = st[k] /\ w[3 + h + k] = ad[k]
                     /\ w[3 + 2 * h + k] = ro[k] /\ w[3 + 3 * h + k] = ti[k]
  /\ w[4 * h + 4] = e[1] /\ w[4 * h + 5] = e[2] /\ w[4 * h + 6] = f[1]

\* Where the elements of the seven parts of a text are.
LEMMA SevenParts ==
  ASSUME NEW V, NEW n \in Seq(V), NEW st \in Seq(V), NEW ad \in Seq(V), NEW ro \in Seq(V),
         NEW ti \in Seq(V), NEW e \in Seq(V), NEW f \in Seq(V), NEW h \in Nat,
         Len(n) = 3, Len(st) = h, Len(ad) = h, Len(ro) = h, Len(ti) = h, Len(e) = 2, Len(f) = 1,
         NEW w, w = n \o st \o ad \o ro \o ti \o e \o f
  PROVE  Parts(V, h, n, st, ad, ro, ti, e, f, w)
<1> DEFINE w1 == n \o st
           w2 == w1 \o ad
           w3 == w2 \o ro
           w4 == w3 \o ti
           w5 == w4 \o e
           w6 == w5 \o f
<1>1. w = w6
  OBVIOUS
<1>2. /\ 3 + h \in Nat /\ 3 + 2 * h \in Nat /\ 3 + 3 * h \in Nat
      /\ 3 + 4 * h \in Nat /\ 5 + 4 * h \in Nat /\ 3 \in Nat /\ 2 \in Nat /\ 1 \in Nat
  OBVIOUS
<1>3. /\ (3 + h) + h = 3 + 2 * h /\ (3 + 2 * h) + h = 3 + 3 * h /\ (3 + 3 * h) + h = 3 + 4 * h
      /\ (3 + 4 * h) + 2 = 5 + 4 * h /\ (5 + 4 * h) + 1 = 4 * h + 6
  OBVIOUS
<1> HIDE DEF w1, w2, w3, w4, w5, w6
<1>4. /\ w1 \in Seq(V) /\ Len(w1) = 3 + h
      /\ \A k \in 1..3 : w1[k] = n[k]
      /\ \A k \in 1..h : w1[3 + k] = st[k]
  <2>1. /\ w1 \in Seq(V) /\ Len(w1) = Len(n) + Len(st)
        /\ \A k \in 1..Len(n) : w1[k] = n[k]
        /\ \A k \in 1..Len(st) : w1[Len(n) + k] = st[k]
    <3>1. n \in Seq(V) /\ st \in Seq(V)
      BY Zenon
    <3>2. Follows(V, n, st, n \o st)
      BY <3>1, Joint, Zenon
    <3>3. QED
      BY <3>2, Zenon DEF Follows, w1
  <2>2. Len(n) = 3 /\ Len(st) = h
    BY Zenon
  <2>3. QED
    BY <1>3, <2>1, <2>2, Zenon
<1>5. /\ w2 \in Seq(V) /\ Len(w2) = 3 + 2 * h
      /\ \A k \in 1..3 + h : w2[k] = w1[k]
      /\ \A k \in 1..h : w2[(3 + h) + k] = ad[k]
  <2>1. /\ w2 \in Seq(V) /\ Len(w2) = Len(w1) + Len(ad)
        /\ \A k \in 1..Len(w1) : w2[k] = w1[k]
        /\ \A k \in 1..Len(ad) : w2[Len(w1) + k] = ad[k]
    <3>1. w1 \in Seq(V) /\ ad \in Seq(V)
      BY <1>4, Zenon
    <3>2. Follows(V, w1, ad, w1 \o ad)
      BY <3>1, Joint, Zenon
    <3>3. QED
      BY <3>2, Zenon DEF Follows, w2
  <2>2. Len(w1) = 3 + h /\ Len(ad) = h
    BY <1>4, Zenon
  <2>3. QED
    BY <1>3, <2>1, <2>2, Zenon
<1>6. /\ w3 \in Seq(V) /\ Len(w3) = 3 + 3 * h
      /\ \A k \in 1..3 + 2 * h : w3[k] = w2[k]
      /\ \A k \in 1..h : w3[(3 + 2 * h) + k] = ro[k]
  <2>1. /\ w3 \in Seq(V) /\ Len(w3) = Len(w2) + Len(ro)
        /\ \A k \in 1..Len(w2) : w3[k] = w2[k]
        /\ \A k \in 1..Len(ro) : w3[Len(w2) + k] = ro[k]
    <3>1. w2 \in Seq(V) /\ ro \in Seq(V)
      BY <1>5, Zenon
    <3>2. Follows(V, w2, ro, w2 \o ro)
      BY <3>1, Joint, Zenon
    <3>3. QED
      BY <3>2, Zenon DEF Follows, w3
  <2>2. Len(w2) = 3 + 2 * h /\ Len(ro) = h
    BY <1>5, Zenon
  <2>3. QED
    BY <1>3, <2>1, <2>2, Zenon
<1>7. /\ w4 \in Seq(V) /\ Len(w4) = 3 + 4 * h
      /\ \A k \in 1..3 + 3 * h : w4[k] = w3[k]
      /\ \A k \in 1..h : w4[(3 + 3 * h) + k] = ti[k]
  <2>1. /\ w4 \in Seq(V) /\ Len(w4) = Len(w3) + Len(ti)
        /\ \A k \in 1..Len(w3) : w4[k] = w3[k]
        /\ \A k \in 1..Len(ti) : w4[Len(w3) + k] = ti[k]
    <3>1. w3 \in Seq(V) /\ ti \in Seq(V)
      BY <1>6, Zenon
    <3>2. Follows(V, w3, ti, w3 \o ti)
      BY <3>1, Joint, Zenon
    <3>3. QED
      BY <3>2, Zenon DEF Follows, w4
  <2>2. Len(w3) = 3 + 3 * h /\ Len(ti) = h
    BY <1>6, Zenon
  <2>3. QED
    BY <1>3, <2>1, <2>2, Zenon
<1>8. /\ w5 \in Seq(V) /\ Len(w5) = 5 + 4 * h
      /\ \A k \in 1..3 + 4 * h : w5[k] = w4[k]
      /\ \A k \in 1..2 : w5[(3 + 4 * h) + k] = e[k]
  <2>1. /\ w5 \in Seq(V) /\ Len(w5) = Len(w4) + Len(e)
        /\ \A k \in 1..Len(w4) : w5[k] = w4[k]
        /\ \A k \in 1..Len(e) : w5[Len(w4) + k] = e[k]
    <3>1. w4 \in Seq(V) /\ e \in Seq(V)
      BY <1>7, Zenon
    <3>2. Follows(V, w4, e, w4 \o e)
      BY <3>1, Joint, Zenon
    <3>3. QED
      BY <3>2, Zenon DEF Follows, w5
  <2>2. Len(w4) = 3 + 4 * h /\ Len(e) = 2
    BY <1>7, Zenon
  <2>3. QED
    BY <1>3, <2>1, <2>2, Zenon
<1>9. /\ w6 \in Seq(V) /\ Len(w6) = 4 * h + 6
      /\ \A k \in 1..5 + 4 * h : w6[k] = w5[k]
      /\ \A k \in 1..1 : w6[(5 + 4 * h) + k] = f[k]
  <2>1. /\ w6 \in Seq(V) /\ Len(w6) = Len(w5) + Len(f)
        /\ \A k \in 1..Len(w5) : w6[k] = w5[k]
        /\ \A k \in 1..Len(f) : w6[Len(w5) + k] = f[k]
    <3>1. w5 \in Seq(V) /\ f \in Seq(V)
      BY <1>8, Zenon
    <3>2. Follows(V, w5, f, w5 \o f)
      BY <3>1, Joint, Zenon
    <3>3. QED
      BY <3>2, Zenon DEF Follows, w6
  <2>2. Len(w5) = 5 + 4 * h /\ Len(f) = 1
    BY <1>8, Zenon
  <2>3. QED
    BY <1>3, <2>1, <2>2, Zenon
<1>10. /\ \A k \in 1..3 + 4 * h : w6[k] = w4[k]
       /\ \A k \in 1..3 + 3 * h : w6[k] = w3[k]
       /\ \A k \in 1..3 + 2 * h : w6[k] = w2[k]
       /\ \A k \in 1..3 + h : w6[k] = w1[k]
       /\ \A k \in 1..3 : w6[k] = n[k]
  <2>1. /\ 1..3 \subseteq 1..3 + h /\ 1..3 + h \subseteq 1..3 + 2 * h
        /\ 1..3 + 2 * h \subseteq 1..3 + 3 * h /\ 1..3 + 3 * h \subseteq 1..3 + 4 * h
        /\ 1..3 + 4 * h \subseteq 1..5 + 4 * h
    OBVIOUS
  <2>2. \A k \in 1..3 + 4 * h : w6[k] = w4[k]
    BY <1>8, <1>9, <2>1, Zenon
  <2>3. \A k \in 1..3 + 3 * h : w6[k] = w3[k]
    BY <1>7, <2>1, <2>2, Zenon
  <2>4. \A k \in 1..3 + 2 * h : w6[k] = w2[k]
    BY <1>6, <2>1, <2>3, Zenon
  <2>5. \A k \in 1..3 + h : w6[k] = w1[k]
    BY <1>5, <2>1, <2>4, Zenon
  <2>6. \A k \in 1..3 : w6[k] = n[k]
    BY <1>4, <2>1, <2>5, Zenon
  <2>7. QED
    BY <2>2, <2>3, <2>4, <2>5, <2>6
<1>11. ASSUME NEW k \in 1..h
       PROVE  /\ w6[3 + k] = st[k] /\ w6[3 + h + k] = ad[k]
              /\ w6[3 + 2 * h + k] = ro[k] /\ w6[3 + 3 * h + k] = ti[k]
  <2>1. /\ 3 + k \in 1..3 + h /\ 3 + h + k \in 1..3 + 2 * h
        /\ 3 + 2 * h + k \in 1..3 + 3 * h /\ 3 + 3 * h + k \in 1..3 + 4 * h
    OBVIOUS
  <2>2. w6[3 + k] = w1[3 + k] /\ w6[3 + h + k] = w2[3 + h + k]
    BY <1>10, <2>1, Zenon
  <2>3. w6[3 + 2 * h + k] = w3[3 + 2 * h + k] /\ w6[3 + 3 * h + k] = w4[3 + 3 * h + k]
    BY <1>10, <2>1, Zenon
  <2>4. QED
    BY <1>4, <1>5, <1>6, <1>7, <2>2, <2>3, Zenon
<1>12. w6[4 * h + 4] = e[1] /\ w6[4 * h + 5] = e[2] /\ w6[4 * h + 6] = f[1]
  <2>1. /\ (3 + 4 * h) + 1 = 4 * h + 4 /\ (3 + 4 * h) + 2 = 4 * h + 5
        /\ 4 * h + 4 \in 1..5 + 4 * h /\ 4 * h + 5 \in 1..5 + 4 * h
        /\ (5 + 4 * h) + 1 = 4 * h + 6
    OBVIOUS
  <2>2. 1 \in 1..2 /\ 2 \in 1..2 /\ 1 \in 1..1
    OBVIOUS
  <2>3. w5[(3 + 4 * h) + 1] = e[1] /\ w5[(3 + 4 * h) + 2] = e[2] /\ w6[(5 + 4 * h) + 1] = f[1]
    BY <1>8, <1>9, <2>2, Zenon
  <2>4. w6[4 * h + 4] = w5[4 * h + 4] /\ w6[4 * h + 5] = w5[4 * h + 5]
    BY <1>9, <2>1, Zenon
  <2>5. QED
    BY <2>1, <2>3, <2>4, Zenon
<1>13. w6[1] = n[1] /\ w6[2] = n[2] /\ w6[3] = n[3]
  <2>1. 1 \in 1..3 /\ 2 \in 1..3 /\ 3 \in 1..3
    OBVIOUS
  <2>2. QED
    BY <1>10, <2>1, Zenon
<1>14. QED
  BY <1>1, <1>9, <1>11, <1>12, <1>13, Zenon DEF Parts

\* Where the words of a payload are in its text.
LEMMA WordPlaces ==
  ASSUME NEW p \in Payload, Even(p), NEW h, h = p.hops, NEW w, w = AllWords(p)
  PROVE  /\ h \in Nat /\ w \in Seq(Value) /\ Len(w) = 4 * h + 6
         /\ w[1] = p.found /\ w[2] = p.hops /\ w[3] = p.current
         /\ \A k \in 1..h : /\ w[3 + k] = p.stations[k]
                            /\ w[3 + h + k] = p.address[k]
                            /\ w[3 + 2 * h + k] = p.routes[k]
                            /\ w[3 + 3 * h + k] = p.time[k]
         /\ w[4 * h + 4] = p.destination /\ w[4 * h + 5] = p.source
         /\ w[4 * h + 6] = p.start_time
<1> DEFINE n == <<p.found, p.hops, p.current>>
           e == <<p.destination, p.source>>
           f == <<p.start_time>>
           st == p.stations
           ad == p.address
           ro == p.routes
           ti == p.time
<1>1. w = n \o st \o ad \o ro \o ti \o e \o f
  BY Zenon DEF AllWords
<1>2. /\ n \in Seq(Value) /\ st \in Seq(Value) /\ ad \in Seq(Value) /\ ro \in Seq(Value)
      /\ ti \in Seq(Value) /\ e \in Seq(Value) /\ f \in Seq(Value)
  BY PayloadValues, Zenon
<1>3. /\ Len(n) = 3 /\ n[1] = p.found /\ n[2] = p.hops /\ n[3] = p.current
      /\ Len(e) = 2 /\ e[1] = p.destination /\ e[2] = p.source
      /\ Len(f) = 1 /\ f[1] = p.start_time
  OBVIOUS
<1>4. h \in Nat
  BY DEF Payload
<1>5. Len(st) = h /\ Len(ad) = h /\ Len(ro) = h /\ Len(ti) = h
  BY DEF Even
<1> HIDE DEF n, e, f, st, ad, ro, ti
<1>6. Parts(Value, h, n, st, ad, ro, ti, e, f, w)
  BY <1>1, <1>2, <1>3, <1>4, <1>5, SevenParts, Zenon
<1>7. QED
  BY <1>3, <1>4, <1>6, Zenon DEF Parts, st, ad, ro, ti

\* A list of h words from place x + 1 on.
LEMMA ListIs ==
  ASSUME NEW w \in Seq(Value), NEW s \in Seq(Value), NEW x \in Nat, NEW h \in Nat,
         Len(s) = h, x + h <= Len(w), \A k \in 1..h : w[x + k] = s[k]
  PROVE  SubSeq(w, x + 1, x + h) = s
<1> DEFINE u == SubSeq(w, x + 1, x + h)
<1>1. \A k \in x + 1..x + h : w[k] \in Value
  OBVIOUS
<1>2. /\ u \in Seq(Value)
      /\ Len(u) = IF x + 1 <= x + h THEN (x + h) - (x + 1) + 1 ELSE 0
      /\ \A k \in 1..(x + h) - (x + 1) + 1 : u[k] = w[(x + 1) + k - 1]
  BY <1>1, SubSeqProperties
<1> HIDE DEF u
<1>3. Len(u) = h
  BY <1>2
<1>4. ASSUME NEW k \in 1..Len(u) PROVE u[k] = s[k]
  <2>1. k \in 1..(x + h) - (x + 1) + 1 /\ (x + 1) + k - 1 = x + k /\ k \in 1..h
    BY <1>3
  <2>2. u[k] = w[(x + 1) + k - 1]
    BY <1>2, <2>1, Zenon
  <2>3. QED
    BY <2>1, <2>2
<1>5. u = s
  BY <1>2, <1>3, <1>4, SeqEqual
<1>6. QED
  BY <1>5 DEF u

\* From the words of a payload its fields are read.
LEMMA FieldsAreRead ==
  ASSUME NEW p \in Payload, Even(p)
  PROVE  Fields(AllWords(p), p.hops) = p
<1> DEFINE h == p.hops
           w == AllWords(p)
<1>1. /\ h \in Nat /\ w \in Seq(Value) /\ Len(w) = 4 * h + 6
      /\ w[1] = p.found /\ w[2] = p.hops /\ w[3] = p.current
      /\ \A k \in 1..h : /\ w[3 + k] = p.stations[k]
                         /\ w[3 + h + k] = p.address[k]
                         /\ w[3 + 2 * h + k] = p.routes[k]
                         /\ w[3 + 3 * h + k] = p.time[k]
      /\ w[4 * h + 4] = p.destination /\ w[4 * h + 5] = p.source
      /\ w[4 * h + 6] = p.start_time
  BY WordPlaces
<1>2. /\ p.stations \in Seq(Value) /\ p.address \in Seq(Value)
      /\ p.routes \in Seq(Value) /\ p.time \in Seq(Value)
  BY PayloadValues, Zenon
<1>3. /\ Len(p.stations) = h /\ Len(p.address) = h
      /\ Len(p.routes) = h /\ Len(p.time) = h
  BY DEF Even
<1> HIDE DEF w, h
<1>4. List(w, h, 1) = p.stations
  <2>1. 4 + (1 - 1) * h = 3 + 1 /\ 3 + 1 * h = 3 + h /\ 3 \in Nat /\ 3 + h <= Len(w)
    BY <1>1
  <2>2. SubSeq(w, 3 + 1, 3 + h) = p.stations
    BY <1>1, <1>2, <1>3, <2>1, ListIs
  <2>3. QED
    BY <2>1, <2>2, Zenon DEF List
<1>5. List(w, h, 2) = p.address
  <2>1. /\ 4 + (2 - 1) * h = (3 + h) + 1 /\ 3 + 2 * h = (3 + h) + h /\ 3 + h \in Nat
        /\ (3 + h) + h <= Len(w)
    BY <1>1
  <2>2. SubSeq(w, (3 + h) + 1, (3 + h) + h) = p.address
    BY <1>1, <1>2, <1>3, <2>1, ListIs
  <2>3. QED
    BY <2>1, <2>2, Zenon DEF List
<1>6. List(w, h, 3) = p.routes
  <2>1. /\ 4 + (3 - 1) * h = (3 + 2 * h) + 1 /\ 3 + 3 * h = (3 + 2 * h) + h
        /\ 3 + 2 * h \in Nat /\ (3 + 2 * h) + h <= Len(w)
    BY <1>1
  <2>2. SubSeq(w, (3 + 2 * h) + 1, (3 + 2 * h) + h) = p.routes
    BY <1>1, <1>2, <1>3, <2>1, ListIs
  <2>3. QED
    BY <2>1, <2>2, Zenon DEF List
<1>7. List(w, h, 4) = p.time
  <2>1. /\ 4 + (4 - 1) * h = (3 + 3 * h) + 1 /\ 3 + 4 * h = (3 + 3 * h) + h
        /\ 3 + 3 * h \in Nat /\ (3 + 3 * h) + h <= Len(w)
    BY <1>1
  <2>2. SubSeq(w, (3 + 3 * h) + 1, (3 + 3 * h) + h) = p.time
    BY <1>1, <1>2, <1>3, <2>1, ListIs
  <2>3. QED
    BY <2>1, <2>2, Zenon DEF List
<1>8. p = [found |-> p.found, hops |-> p.hops, current |-> p.current,
           stations |-> p.stations, address |-> p.address, routes |-> p.routes,
           time |-> p.time, destination |-> p.destination, source |-> p.source,
           start_time |-> p.start_time]
  BY DEF Payload
<1>9. Fields(w, h) = p
  <2>1. Fields(w, h) =
          [found |-> p.found, hops |-> h, current |-> p.current,
           stations |-> p.stations, address |-> p.address, routes |-> p.routes,
           time |-> p.time, destination |-> p.destination, source |-> p.source,
           start_time |-> p.start_time]
    BY <1>1, <1>4, <1>5, <1>6, <1>7, Zenon DEF Fields
  <2>2. h = p.hops
    BY DEF h
  <2>3. QED
    BY <1>8, <2>1, <2>2, Zenon
<1>10. QED
  BY <1>9 DEF w, h

\* Both readers take p from a plain text with its words and a semicolon.
LEMMA TextIsRead ==
  ASSUME NEW p \in Payload, Even(p), NEW body \in Seq(Plain(Value)), Words(body) = AllWords(p)
  PROVE  load_payload(body \o <<End>>) = {p} /\ deserialize(body \o <<End>>) = {p}
<1> DEFINE z == <<End>>
           text == body \o z
           w == AllWords(p)
           h == p.hops
<1>1. /\ h \in Nat /\ w \in Seq(Value) /\ Len(w) = 4 * h + 6 /\ w[2] = h
      /\ w[4 * h + 4] = p.destination /\ w[4 * h + 5] = p.source
      /\ w[4 * h + 6] = p.start_time
  BY WordPlaces
<1>2. Fields(w, h) = p
  BY FieldsAreRead
<1>3. z \in Seq(Token(Values(Value))) /\ Words(z) = <<>>
  <2>1. End \in Token(Values(Value)) /\ End.is # "word"
    BY Pieces
  <2>2. Words(<<End>>) = <<>>
    BY <2>1, WordsOne DEF Taken
  <2>3. QED
    BY <2>1, <2>2
<1>4. body \in Seq(Token(Values(Value)))
  BY PlainText
<1>5. Len(z) = 1 /\ z[1] = End
  OBVIOUS
<1> HIDE DEF z, w, h
<1>6. Words(text) = w
  <2>1. Words(text) = Words(body) \o Words(z)
    BY <1>3, <1>4, WordsConcat
  <2>2. Words(body) = w
    BY DEF w
  <2>3. w \o <<>> = w
    BY <1>1, ConcatEmptySeq
  <2>4. QED
    BY <1>3, <2>1, <2>2, <2>3, Zenon
<1>7. \E k \in 1..Len(text) : text[k] = End
  <2>1. Len(text) = Len(body) + 1 /\ text[Len(body) + 1] = z[1] /\ Len(body) \in Nat
    <3>1. Follows(Token(Values(Value)), body, z, text)
      BY <1>3, <1>4, Joint
    <3>2. Len(text) = Len(body) + Len(z) /\ \A k \in 1..Len(z) : text[Len(body) + k] = z[k]
      BY <3>1, Zenon DEF Follows
    <3>3. 1 \in 1..Len(z) /\ Len(body) \in Nat
      BY <1>5
    <3>4. QED
      BY <1>5, <3>2, <3>3
  <2>2. Len(body) + 1 \in 1..Len(text)
    BY <2>1
  <2>3. QED
    BY <1>5, <2>1, <2>2
<1> HIDE DEF text
<1>8. ~ (Len(w) < 3 \/ Len(w) < 4 * w[2] + 6)
  BY <1>1
<1>9. load_payload(text) = {Fields(w, h)}
  BY <1>1, <1>6, <1>8, Zenon DEF load_payload
<1>10. deserialize(text) = {[Fields(w, h) EXCEPT !.destination = w[Len(w) - 2],
                                               !.source = w[Len(w) - 1],
                                               !.start_time = w[Len(w)]]}
  BY <1>1, <1>6, <1>7, Zenon DEF deserialize
<1>11. Len(w) - 2 = 4 * h + 4 /\ Len(w) - 1 = 4 * h + 5
  BY <1>1
<1>12. [p EXCEPT !.destination = w[Len(w) - 2], !.source = w[Len(w) - 1],
                !.start_time = w[Len(w)]] = p
  <2>1. /\ w[Len(w) - 2] = p.destination /\ w[Len(w) - 1] = p.source
        /\ w[Len(w)] = p.start_time
    BY <1>1, <1>11, Zenon
  <2>2. [p EXCEPT !.destination = p.destination, !.source = p.source,
                  !.start_time = p.start_time] = p
    BY DEF Payload
  <2>3. QED
    BY <2>1, <2>2, Zenon
<1>13. load_payload(text) = {p} /\ deserialize(text) = {p}
  BY <1>2, <1>9, <1>10, <1>12, Zenon
<1>14. QED
  BY <1>13, Zenon DEF text, z

\* A proper beginning of a text that ends in a word has fewer words.
LEMMA FewerWords ==
  ASSUME NEW V, NEW body \in Seq(Plain(V)), NEW v \in V, Len(body) > 0,
         body[Len(body)] = Word(v), NEW n \in 0..Len(body) - 1
  PROVE  LET c == SubSeq(body, 1, n)
         IN  /\ c \in Seq(Plain(V)) /\ Words(c) \in Seq(Values(V))
             /\ Len(Words(c)) < Len(Words(body))
             /\ \A k \in 1..Len(Words(c)) : Words(body)[k] = Words(c)[k]
<1> DEFINE l == Len(body)
           c == SubSeq(body, 1, n)
           d == SubSeq(body, n + 1, l - 1)
           r == SubSeq(body, n + 1, l)
           z == <<Word(v)>>
<1>1. l \in Nat /\ n \in Nat /\ n + 1 \in 1..l /\ l \in n + 1..l /\ 1 \in 1..l + 1 /\ n \in 1 - 1..l
  OBVIOUS
<1>2. \A k \in 1..l : body[k] \in Plain(V)
  OBVIOUS
<1>3. c \in Seq(Plain(V)) /\ d \in Seq(Plain(V)) /\ r \in Seq(Plain(V))
  BY <1>1, <1>2, SubSeqProperties
<1>4. body = c \o r
  <2>1. SubSeq(body, 1, n) \o SubSeq(body, n + 1, l) = SubSeq(body, 1, l)
    <3>1. l \in n..l
      BY <1>1
    <3>2. QED
      BY <1>1, <3>1, ConcatAdjacentSubSeq
  <2>2. SubSeq(body, 1, l) = body
    BY SubSeqFull
  <2>3. QED
    BY <2>1, <2>2, Zenon
<1>5. r = d \o z
  BY <1>1, SubSeqRecursiveSecond
<1>6. Word(v) \in Plain(V) /\ Word(v).is = "word" /\ Word(v).of = v
  BY Pieces
<1>7. z \in Seq(Plain(V)) /\ Words(z) = <<v>>
  <2>1. Word(v) \in Token(Values(V))
    BY <1>6, Pieces
  <2>2. Words(z) = Append(<<>>, v)
    BY <1>6, <2>1, WordsOne, Zenon DEF Taken
  <2>3. QED
    BY <1>6, <2>2
<1> HIDE DEF c, d, r, z, l
<1>8. /\ Words(body) = Words(c) \o Words(r) /\ Words(c) \in Seq(Values(V))
      /\ Words(r) \in Seq(Values(V))
  BY <1>3, <1>4, PlainConcat
<1>9. Words(r) = Words(d) \o <<v>> /\ Words(d) \in Seq(Values(V)) /\ v \in Values(V)
  <2>1. Words(d \o z) = Words(d) \o Words(z) /\ Words(d) \in Seq(Values(V))
    BY <1>3, <1>7, PlainConcat
  <2>2. QED
    BY <1>5, <1>7, <2>1 DEF Values
<1> DEFINE wc == Words(c)
           wr == Words(r)
           wd == Words(d)
<1>10. wr \in Seq(Values(V)) /\ wc \in Seq(Values(V)) /\ wd \in Seq(Values(V)) /\ wr = wd \o <<v>>
       /\ Words(body) = wc \o wr
  BY <1>8, <1>9
<1> HIDE DEF wc, wr, wd
<1>11. Len(wr) > 0 /\ Len(wr) \in Nat
  BY <1>9, <1>10
<1>12. Follows(Values(V), wc, wr, Words(body))
  BY <1>10, Joint
<1>13. Len(wc) \in Nat /\ Len(wc) < Len(Words(body))
  BY <1>10, <1>11, <1>12 DEF Follows
<1>14. QED
  BY <1>3, <1>10, <1>12, <1>13, Zenon DEF Follows, wc, c

\* A text without its semicolon, as far as the cut.
LEMMA CutBefore ==
  ASSUME NEW V, NEW body \in Seq(Plain(V)), NEW n \in 0..Len(body)
  PROVE  /\ SubSeq(body \o <<End>>, 1, n) = SubSeq(body, 1, n)
         /\ SubSeq(body, 1, n) \in Seq(Plain(V))
<1>1. CASE n = 0
  BY <1>1, SubSeqEmpty
<1>2. CASE n # 0
  <2> DEFINE z == <<End>>
  <2>1. body \in Seq(Token(Values(V))) /\ z \in Seq(Token(Values(V)))
    BY PlainText, Pieces
  <2>2. 1 \in 1..Len(body) /\ n \in 1..Len(body)
    BY <1>2
  <2> HIDE DEF z
  <2>3. SubSeq(body \o z, 1, n) = SubSeq(body, 1, n)
    BY <2>1, <2>2, SubSeqOfConcat1
  <2>4. SubSeq(body, 1, n) \in Seq(Plain(V))
    BY <2>2
  <2>5. QED
    BY <2>3, <2>4 DEF z
<1>3. QED
  BY <1>1, <1>2

\* The pieces of a text before its semicolon.
LEMMA WithSemicolon ==
  ASSUME NEW V, NEW body \in Seq(Plain(V))
  PROVE  Len(body \o <<End>>) = Len(body) + 1 /\ Len(body) \in Nat
         /\ \A k \in 1..Len(body) : (body \o <<End>>)[k] = body[k]
<1> DEFINE z == <<End>>
<1>1. body \in Seq(Token(Values(V))) /\ z \in Seq(Token(Values(V)))
  BY PlainText, Pieces
<1>2. Len(z) = 1 /\ Len(body) \in Nat
  OBVIOUS
<1> HIDE DEF z
<1>3. Follows(Token(Values(V)), body, z, body \o z)
  BY <1>1, Joint
<1>4. Len(body \o z) = Len(body) + Len(z) /\ \A k \in 1..Len(body) : (body \o z)[k] = body[k]
  BY <1>3, Zenon DEF Follows
<1>5. QED
  BY <1>2, <1>4 DEF z

\* deserialize takes no text without a semicolon.
LEMMA NoSemicolon ==
  ASSUME NEW V, NEW c \in Seq(Plain(V))
  PROVE  deserialize(c) = {}
<1>1. \A k \in 1..Len(c) : c[k] \in Plain(V)
  OBVIOUS
<1>2. End \notin Plain(V)
  BY Pieces
<1>3. QED
  BY <1>1, <1>2, Zenon DEF deserialize

\* load_payload does not miss the semicolon.
LEMMA PlainIsRead ==
  ASSUME NEW p \in Payload, Even(p), NEW text, Words(text) = AllWords(p)
  PROVE  load_payload(text) = {p}
<1> DEFINE w == AllWords(p)
           h == p.hops
<1>1. h \in Nat /\ Len(w) = 4 * h + 6 /\ w[2] = h
  BY WordPlaces
<1>2. Fields(w, h) = p
  BY FieldsAreRead
<1> HIDE DEF w, h
<1>3. ~ (Len(w) < 3 \/ Len(w) < 4 * w[2] + 6)
  BY <1>1
<1>4. Words(text) = w
  BY DEF w
<1>5. QED
  BY <1>1, <1>2, <1>3, <1>4, Zenon DEF load_payload

\* One more word at the end of a text.
LEMMA OneMoreWord ==
  ASSUME NEW V, NEW c \in Seq(Plain(V)), NEW t \in Plain(V), t.is = "word"
  PROVE  /\ Append(c, t) \in Seq(Plain(V)) /\ t.of \in Values(V)
         /\ Words(c) \in Seq(Values(V)) /\ Words(Append(c, t)) = Append(Words(c), t.of)
<1> DEFINE z == <<t>>
           v == t.of
<1>1. v \in Values(V)
  BY DEF Plain, Values
<1>2. Append(c, t) = c \o z
  BY AppendIsConcat
<1>3. z \in Seq(Plain(V))
  OBVIOUS
<1>4. Words(z) = <<v>>
  <2>1. t \in Token(Values(V))
    BY Pieces
  <2>2. Words(z) = Append(<<>>, v)
    BY <2>1, WordsOne, Zenon DEF Taken
  <2>3. QED
    BY <1>1, <2>2
<1> HIDE DEF z, v
<1>5. /\ c \o z \in Seq(Plain(V)) /\ Words(c \o z) = Words(c) \o Words(z)
      /\ Words(c) \in Seq(Values(V))
  BY <1>3, PlainConcat
<1>6. Append(Words(c), v) = Words(c) \o <<v>>
  BY <1>1, <1>5, AppendIsConcat
<1>7. QED
  BY <1>1, <1>2, <1>4, <1>5, <1>6, Zenon DEF v

\* A text as far as a piece, and the piece.
LEMMA OnePieceMore ==
  ASSUME NEW V, NEW body \in Seq(Plain(V)), NEW n \in 0..Len(body) - 1
  PROVE  /\ body[n + 1] \in Plain(V) /\ SubSeq(body, 1, n) \in Seq(Plain(V))
         /\ SubSeq(body, 1, n + 1) = Append(SubSeq(body, 1, n), body[n + 1])
<1> DEFINE c == SubSeq(body, 1, n)
           t == body[n + 1]
<1>1. n + 1 \in 1..Len(body) /\ 1 \in 1..Len(body) /\ (n + 1) - 1 = n /\ n \in 0..Len(body)
      /\ n + 1 \in 1..Len(body) + 1
  OBVIOUS
<1>2. t \in Plain(V)
  BY <1>1
<1>3. c \in Seq(Plain(V))
  BY <1>1, CutBefore
<1>4. SubSeq(body, 1, n + 1) = SubSeq(body, 1, (n + 1) - 1) \o <<t>>
  BY <1>1, SubSeqRecursiveSecond
<1> HIDE DEF t
<1>5. SubSeq(body, 1, n + 1) = c \o <<t>>
  BY <1>1, <1>4
<1> HIDE DEF c
<1>6. Append(c, t) = c \o <<t>>
  BY <1>2, <1>3, AppendIsConcat
<1>7. QED
  BY <1>2, <1>3, <1>5, <1>6, Zenon DEF c, t

\* Words that are fewer than those of a payload, and the first two of them its own.
LEMMA TooFewWords ==
  ASSUME NEW h \in Nat, NEW V, NEW w \in Seq(V), Len(w) < 4 * h + 6,
         Len(w) >= 3 => w[2] = h, NEW text, Words(text) = w
  PROVE  load_payload(text) = {}
<1>1. Len(w) < 3 \/ Len(w) < 4 * w[2] + 6
  OBVIOUS
<1>2. QED
  BY <1>1, Zenon DEF load_payload

\* Neither reader takes a text that has lost its last word.
LEMMA CutIsSeen ==
  ASSUME NEW p \in Payload, Even(p), NEW body \in Seq(Plain(Value)), Words(body) = AllWords(p),
         Len(body) > 0, body[Len(body)] = Word(p.start_time), NEW n \in 0..Len(body) - 1
  PROVE  load_payload(SubSeq(body, 1, n)) = {} /\ deserialize(SubSeq(body, 1, n)) = {}
<1> DEFINE c == SubSeq(body, 1, n)
           w == Words(c)
           h == p.hops
<1>1. p.start_time \in Value
  BY PayloadValues
<1>2. /\ c \in Seq(Plain(Value)) /\ w \in Seq(Values(Value))
      /\ Len(w) < Len(Words(body))
      /\ \A k \in 1..Len(w) : Words(body)[k] = w[k]
  BY <1>1, FewerWords
<1>3. h \in Nat /\ Len(AllWords(p)) = 4 * h + 6 /\ AllWords(p)[2] = h
  BY WordPlaces
<1> HIDE DEF c, h
<1>4. Len(w) >= 3 => w[2] = h
  <2> SUFFICES ASSUME Len(w) >= 3 PROVE w[2] = h
    OBVIOUS
  <2>1. Len(w) \in Nat
    BY <1>2
  <2> HIDE DEF w
  <2>2. 2 \in 1..Len(w)
    BY <2>1
  <2>3. QED
    BY <1>2, <1>3, <2>2
<1>5. Len(w) < 4 * h + 6
  BY <1>2, <1>3
<1>6. load_payload(c) = {}
  BY <1>2, <1>3, <1>4, <1>5, TooFewWords
<1>7. deserialize(c) = {}
  BY <1>2, NoSemicolon
<1>8. QED
  BY <1>6, <1>7, Zenon DEF c

\* Neither reader takes a text that is cut inside a word before the last one.
LEMMA TornWordIsSeen ==
  ASSUME NEW p \in Payload, Even(p), NEW body \in Seq(Plain(Value)), Words(body) = AllWords(p),
         Len(body) > 0, body[Len(body)] = Word(p.start_time), NEW n \in 0..Len(body) - 2,
         body[n + 1].is = "word", NEW v \in Value
  PROVE  LET d == Append(SubSeq(body, 1, n), Word(v))
         IN  load_payload(d) = {} /\ deserialize(d) = {}
<1> DEFINE c == SubSeq(body, 1, n)
           d == Append(c, Word(v))
           t == body[n + 1]
           e == SubSeq(body, 1, n + 1)
           h == p.hops
<1>1. Len(body) \in Nat /\ n \in 0..Len(body) - 1 /\ n + 1 \in 0..Len(body) - 1
  OBVIOUS
<1>2. c \in Seq(Plain(Value)) /\ t \in Plain(Value) /\ e = Append(c, t)
  BY <1>1, OnePieceMore
<1>3. p.start_time \in Value
  BY PayloadValues
<1>4. /\ Words(e) \in Seq(Values(Value)) /\ Len(Words(e)) < Len(Words(body))
      /\ \A k \in 1..Len(Words(e)) : Words(body)[k] = Words(e)[k]
  BY <1>1, <1>3, FewerWords
<1>5. h \in Nat /\ Len(AllWords(p)) = 4 * h + 6 /\ AllWords(p)[2] = h
  BY WordPlaces
<1>6. t.is = "word"
  OBVIOUS
<1> HIDE DEF c, e, t, h
<1>7. t.of \in Values(Value) /\ Words(c) \in Seq(Values(Value)) /\ Words(e) = Append(Words(c), t.of)
  BY <1>2, <1>6, OneMoreWord
<1>8. Word(v) \in Plain(Value) /\ Word(v).is = "word" /\ Word(v).of = v
  BY Pieces
<1>9. /\ d \in Seq(Plain(Value)) /\ v \in Values(Value)
      /\ Words(d) = Append(Words(c), v)
  BY <1>2, <1>8, OneMoreWord, Zenon
<1> DEFINE w == Words(c)
           wd == Words(d)
           we == Words(e)
           o == t.of
<1> HIDE DEF w, wd, we, o, d
<1>10. w \in Seq(Values(Value)) /\ wd = Append(w, v) /\ we = Append(w, o) /\ o \in Values(Value)
  BY <1>7, <1>9, Zenon DEF w, wd, we, o
<1>11. /\ Len(wd) = Len(w) + 1 /\ Len(we) = Len(w) + 1 /\ Len(w) \in Nat
       /\ wd \in Seq(Values(Value))
       /\ \A k \in 1..Len(w) : wd[k] = w[k] /\ we[k] = w[k]
  BY <1>9, <1>10, AppendProperties
<1>12. Len(we) < 4 * h + 6 /\ \A k \in 1..Len(we) : AllWords(p)[k] = we[k]
  BY <1>4, <1>5, Zenon DEF we
<1>13. Len(wd) >= 3 => wd[2] = h
  <2> SUFFICES ASSUME Len(wd) >= 3 PROVE wd[2] = h
    OBVIOUS
  <2>1. 2 \in 1..Len(w) /\ 2 \in 1..Len(we)
    BY <1>11
  <2>2. AllWords(p)[2] = we[2] /\ wd[2] = w[2] /\ we[2] = w[2]
    BY <1>11, <1>12, <2>1, Zenon
  <2>3. AllWords(p)[2] = h
    BY <1>5, Zenon
  <2>4. QED
    BY <2>2, <2>3, Zenon
<1>14. Len(wd) < 4 * h + 6
  BY <1>11, <1>12
<1>15. load_payload(d) = {}
  <2>1. Words(d) = wd
    BY DEF wd
  <2>2. QED
    BY <1>5, <1>11, <1>13, <1>14, <2>1, TooFewWords, Zenon
<1>16. deserialize(d) = {}
  BY <1>9, NoSemicolon
<1>17. QED
  BY <1>15, <1>16, Zenon DEF d, c

\* What AllWords has before the start time.
Front(p) ==
  <<p.found, p.hops, p.current>> \o p.stations \o p.address \o p.routes \o p.time
    \o <<p.destination, p.source>>

\* A payload with another start time.
LEMMA OtherTime ==
  ASSUME NEW p \in Payload, Even(p), NEW q, q = [p EXCEPT !.start_time = Torn]
  PROVE  /\ q \in Payload /\ Even(q) /\ Front(p) \in Seq(Value)
         /\ AllWords(p) = Append(Front(p), p.start_time)
         /\ AllWords(q) = Append(Front(p), Torn)
<1>1. q \in Payload
  BY DEF Payload
<1>2. /\ q.found = p.found /\ q.hops = p.hops /\ q.current = p.current
      /\ q.stations = p.stations /\ q.address = p.address
      /\ q.routes = p.routes /\ q.time = p.time
      /\ q.destination = p.destination /\ q.source = p.source /\ q.start_time = Torn
  BY DEF Payload
<1>3. Even(q)
  BY <1>2 DEF Even
<1> DEFINE n == <<p.found, p.hops, p.current>>
           e == <<p.destination, p.source>>
<1>4. /\ p.stations \in Seq(Value) /\ p.address \in Seq(Value)
      /\ p.routes \in Seq(Value) /\ p.time \in Seq(Value)
      /\ n \in Seq(Value) /\ e \in Seq(Value) /\ p.start_time \in Value
  BY PayloadValues, Zenon
<1> DEFINE f == Front(p)
<1>5. f \in Seq(Value)
  <2>1. f = n \o p.stations \o p.address \o p.routes \o p.time \o e
    BY Zenon DEF Front
  <2> HIDE DEF f, n, e
  <2>2. \A a, b \in Seq(Value) : a \o b \in Seq(Value)
    OBVIOUS
  <2>3. QED
    BY <1>4, <2>1, <2>2, Zenon
<1>6. Torn \in Value
  BY DEF Value
<1>7. AllWords(p) = f \o <<p.start_time>>
  BY Zenon DEF AllWords, Front
<1>8. AllWords(q) = f \o <<Torn>>
  BY <1>2, Zenon DEF AllWords, Front
<1> HIDE DEF f
<1>9. Append(f, p.start_time) = f \o <<p.start_time>> /\ Append(f, Torn) = f \o <<Torn>>
  BY <1>4, <1>5, <1>6, AppendIsConcat
<1>10. QED
  BY <1>1, <1>3, <1>5, <1>7, <1>8, <1>9, Zenon DEF f

\* load_payload takes what is left of the start time for all of it.
LEMMA TornTimeIsRead ==
  ASSUME NEW p \in Payload, Even(p), NEW body \in Seq(Plain(Value)), Words(body) = AllWords(p),
         Len(body) > 0, body[Len(body)] = Word(p.start_time)
  PROVE  LET d == Append(SubSeq(body, 1, Len(body) - 1), Word(Torn))
         IN  load_payload(d) = {[p EXCEPT !.start_time = Torn]} /\ deserialize(d) = {}
<1> DEFINE n == Len(body) - 1
           c == SubSeq(body, 1, n)
           d == Append(c, Word(Torn))
           q == [p EXCEPT !.start_time = Torn]
           v == p.start_time
           f == Front(p)
<1>1. n \in 0..Len(body) - 1 /\ n + 1 = Len(body) /\ SubSeq(body, 1, Len(body)) = body
  BY SubSeqFull
<1>2. c \in Seq(Plain(Value)) /\ body = Append(c, Word(v))
  BY <1>1, OnePieceMore
<1>3. /\ q \in Payload /\ Even(q) /\ f \in Seq(Value)
      /\ AllWords(p) = Append(f, v) /\ AllWords(q) = Append(f, Torn)
  BY OtherTime, Zenon
<1>4. v \in Value /\ Torn \in Value
  BY PayloadValues DEF Value
<1> HIDE DEF n, c, q, v, f
<1>5. /\ Word(v) \in Plain(Value) /\ Word(v).is = "word" /\ Word(v).of = v
      /\ Word(Torn) \in Plain(Value) /\ Word(Torn).is = "word" /\ Word(Torn).of = Torn
  BY <1>4, Pieces
<1>6. Words(c) \in Seq(Values(Value)) /\ Words(Append(c, Word(v))) = Append(Words(c), v)
  BY <1>2, <1>5, OneMoreWord, Zenon
<1>7. d \in Seq(Plain(Value)) /\ Words(d) = Append(Words(c), Torn)
  BY <1>2, <1>5, OneMoreWord, Zenon
<1>8. Words(c) = f
  <2>1. Append(Words(c), v) = Append(f, v)
    BY <1>2, <1>3, <1>6, Zenon
  <2>2. f \in Seq(Values(Value)) /\ v \in Values(Value)
    <3>1. Value \subseteq Values(Value)
      BY DEF Values
    <3>2. QED
      BY <1>3, <1>4, <3>1, SeqMonotonic, Zenon
  <2> DEFINE x == Words(c)
  <2>3. x \in Seq(Values(Value)) /\ Append(x, v) = Append(f, v)
    BY <1>6, <2>1, Zenon
  <2> HIDE DEF x
  <2>4. x = f
    BY <2>2, <2>3, AppendInjective
  <2>5. QED
    BY <2>4 DEF x
<1> HIDE DEF d
<1>9. load_payload(d) = {q}
  <2>1. Words(d) = AllWords(q)
    BY <1>3, <1>7, <1>8, Zenon
  <2>2. QED
    BY <1>3, <2>1, PlainIsRead, Zenon
<1>10. deserialize(d) = {}
  BY <1>7, NoSemicolon
<1>11. QED
  BY <1>9, <1>10, Zenon DEF d, c, n, q

\* The last piece before the semicolon is a word, in both texts.
LEMMA LastIsAWord ==
  ASSUME NEW p \in Payload, NEW body \in {Crafted(p), Serialized(p)}
  PROVE  Len(body) > 0 /\ body[Len(body)] = Word(p.start_time)
<1> DEFINE v == p.start_time
           s == <<v>>
<1>1. v \in Value /\ s \in Seq(Value) /\ Len(s) = 1 /\ s[1] = v
  BY PayloadValues
<1>2. ASSUME NEW t \in Seq(Plain(Value)), NEW u \in Seq(Plain(Value)), body = t \o u,
             Len(u) > 0, u[Len(u)] = Word(v)
      PROVE  Len(body) > 0 /\ body[Len(body)] = Word(v)
  <2>1. Len(t) \in Nat /\ Len(u) \in Nat /\ Len(u) \in 1..Len(u)
    BY <1>2
  <2>2. Follows(Plain(Value), t, u, body)
    BY <1>2, Joint
  <2>3. Len(body) = Len(t) + Len(u) /\ body[Len(t) + Len(u)] = u[Len(u)]
    BY <2>1, <2>2, Zenon DEF Follows
  <2>4. QED
    BY <1>2, <2>1, <2>3
<1> HIDE DEF s
<1>3. /\ Spaced(s) \in Seq(Plain(Value)) /\ Len(Spaced(s)) = 2
      /\ Spaced(s)[2] = Word(v)
  <2>1. /\ Spaced(s) \in Seq(Plain(Value)) /\ Len(Spaced(s)) = 2 * Len(s)
        /\ \A n \in 1..2 * Len(s) :
             Spaced(s)[n] = IF n % 2 = 1 THEN Gap ELSE Word(s[n \div 2])
    BY <1>1, SpacedFacts
  <2>2. 2 \in 1..2 * Len(s) /\ 2 % 2 # 1 /\ 2 \div 2 = 1 /\ 2 * Len(s) = 2
    BY <1>1
  <2>3. Spaced(s)[2] = Word(s[2 \div 2])
    BY <2>1, <2>2, Zenon
  <2>4. QED
    BY <1>1, <2>1, <2>2, <2>3, Zenon
<1>4. /\ Joined(s) \in Seq(Plain(Value)) /\ Len(Joined(s)) = 1
      /\ Joined(s)[1] = Word(v)
  <2> DEFINE t == Spaced(s)
  <2>1. s # <<>> /\ Joined(s) \in Seq(Plain(Value))
    <3>1. Joined(s) \in Seq(Plain(Value))
      BY <1>1, WordsJoined
    <3>2. s # <<>>
      BY <1>1
    <3>3. QED
      BY <3>1, <3>2
  <2>2. Joined(s) = Tail(t)
    BY <2>1 DEF Joined
  <2> HIDE DEF t
  <2>3. t \in Seq(Plain(Value)) /\ Len(t) = 2 /\ t[2] = Word(v) /\ t # <<>>
    <3>1. t \in Seq(Plain(Value)) /\ Len(t) = 2 /\ t[2] = Word(v)
      BY <1>3, Zenon DEF t
    <3>2. t # <<>>
      BY <3>1
    <3>3. QED
      BY <3>1, <3>2, Zenon
  <2>4. Len(Tail(t)) = 1 /\ Tail(t)[1] = t[2]
    BY <2>3, HeadTailProperties
  <2>5. QED
    BY <2>1, <2>2, <2>3, <2>4
<1>5. CASE body = Crafted(p)
  <2>1. PICK t \in Seq(Plain(Value)) : body = t \o Spaced(s)
    BY <1>5, CraftedWords DEF s
  <2> DEFINE u == Spaced(s)
  <2>2. u \in Seq(Plain(Value)) /\ Len(u) > 0 /\ u[Len(u)] = Word(v) /\ body = t \o u
    BY <1>3, <2>1
  <2> HIDE DEF u
  <2>3. QED
    BY <1>2, <2>2
<1>6. CASE body = Serialized(p)
  <2>1. PICK t \in Seq(Plain(Value)) : body = t \o Joined(s)
    BY <1>6, SerializedWords DEF s
  <2> DEFINE u == Joined(s)
  <2>2. u \in Seq(Plain(Value)) /\ Len(u) > 0 /\ u[Len(u)] = Word(v) /\ body = t \o u
    BY <1>4, <2>1
  <2> HIDE DEF u
  <2>3. QED
    BY <1>2, <2>2
<1>7. QED
  BY <1>5, <1>6

\* A payload whose lists are as long as hops says is read as it was written.
LEMMA PayloadSurvives ==
  ASSUME NEW p \in Payload, Even(p)
  PROVE  Survives(p)
<1>1. craft_payload(p) = Crafted(p) \o <<End>> /\ serialize(p) = Serialized(p) \o <<End>>
  BY Zenon DEF craft_payload, serialize, Crafted, Serialized
<1>2. ASSUME NEW text \in {craft_payload(p), serialize(p)}
      PROVE  load_payload(text) = {p} /\ deserialize(text) = {p}
  <2>1. PICK body \in {Crafted(p), Serialized(p)} : text = body \o <<End>>
    BY <1>1
  <2>2. body \in Seq(Plain(Value)) /\ Words(body) = AllWords(p)
    BY CraftedWords, SerializedWords
  <2>3. QED
    BY <2>1, <2>2, TextIsRead, Zenon
<1>3. QED
  BY <1>2, Zenon DEF Survives

\* Of a payload whose text has lost its end no more than the start time is torn.
LEMMA PayloadCut ==
  ASSUME NEW p \in Payload, Even(p)
  PROVE  CutTearsTheTimeOnly(p, Torn)
<1> DEFINE Tears(text) ==
             LET l == Len(text) - 1
             IN  /\ \A n \in 0..l :
                      /\ deserialize(SubSeq(text, 1, n)) = {}
                      /\ load_payload(SubSeq(text, 1, n)) = IF n = l THEN {p} ELSE {}
                 /\ \A n \in 0..l - 1 : text[n + 1].is = "word" =>
                      /\ deserialize(CutInside(text, n, Torn)) = {}
                      /\ load_payload(CutInside(text, n, Torn)) =
                           IF n = l - 1 THEN {[p EXCEPT !.start_time = Torn]} ELSE {}
<1>1. craft_payload(p) = Crafted(p) \o <<End>> /\ serialize(p) = Serialized(p) \o <<End>>
  BY Zenon DEF craft_payload, serialize, Crafted, Serialized
<1>2. ASSUME NEW text \in {craft_payload(p), serialize(p)}
      PROVE  Tears(text)
  <2>1. PICK body \in {Crafted(p), Serialized(p)} : text = body \o <<End>>
    BY <1>1
  <2>2. body \in Seq(Plain(Value)) /\ Words(body) = AllWords(p)
    BY CraftedWords, SerializedWords
  <2>3. Len(body) > 0 /\ body[Len(body)] = Word(p.start_time)
    BY LastIsAWord
  <2> DEFINE l == Len(text) - 1
  <2>4. l = Len(body) /\ l \in Nat /\ \A k \in 1..l : text[k] = body[k]
    BY <2>1, <2>2, WithSemicolon
  <2> HIDE DEF l
  <2>5. \A n \in 0..l : /\ SubSeq(text, 1, n) = SubSeq(body, 1, n)
                        /\ SubSeq(body, 1, n) \in Seq(Plain(Value))
    BY <2>1, <2>2, <2>4, CutBefore
  <2>6. ASSUME NEW n \in 0..l
        PROVE  /\ deserialize(SubSeq(text, 1, n)) = {}
               /\ load_payload(SubSeq(text, 1, n)) = IF n = l THEN {p} ELSE {}
    <3>1. deserialize(SubSeq(text, 1, n)) = {}
      BY <2>5, NoSemicolon
    <3>2. CASE n = l
      <4>1. SubSeq(body, 1, n) = body
        BY <2>2, <2>4, <3>2, SubSeqFull
      <4>2. load_payload(SubSeq(body, 1, n)) = {p}
        BY <2>2, <4>1, PlainIsRead
      <4>3. QED
        BY <2>5, <3>1, <3>2, <4>2, Zenon
    <3>3. CASE n # l
      <4>1. n \in 0..Len(body) - 1
        BY <2>4, <3>3
      <4>2. load_payload(SubSeq(body, 1, n)) = {}
        BY <2>2, <2>3, <4>1, CutIsSeen, Zenon
      <4>3. QED
        BY <2>5, <3>1, <3>3, <4>2, Zenon
    <3>4. QED
      BY <3>2, <3>3
  <2>7. ASSUME NEW n \in 0..l - 1, text[n + 1].is = "word"
        PROVE  /\ deserialize(CutInside(text, n, Torn)) = {}
               /\ load_payload(CutInside(text, n, Torn)) =
                    IF n = l - 1 THEN {[p EXCEPT !.start_time = Torn]} ELSE {}
    <3> DEFINE d == Append(SubSeq(body, 1, n), Word(Torn))
    <3>1. n \in 0..l /\ n + 1 \in 1..l
      BY <2>4
    <3>2. CutInside(text, n, Torn) = d
      BY <2>5, <3>1, Zenon DEF CutInside
    <3>3. CASE n = l - 1
      <4>1. d = Append(SubSeq(body, 1, Len(body) - 1), Word(Torn))
        BY <2>4, <3>3
      <4>2. load_payload(d) = {[p EXCEPT !.start_time = Torn]} /\ deserialize(d) = {}
        <5> HIDE DEF d
        <5> QED BY <2>2, <2>3, <4>1, TornTimeIsRead, Zenon
      <4>3. QED
        BY <3>2, <3>3, <4>2, Zenon
    <3>4. CASE n # l - 1
      <4>1. n \in 0..Len(body) - 2 /\ body[n + 1].is = "word"
        <5>1. text[n + 1] = body[n + 1]
          BY <2>4, <3>1
        <5>2. body[n + 1].is = "word"
          BY <2>7, <5>1, Zenon
        <5>3. QED
          BY <2>4, <3>4, <5>2
      <4>2. Torn \in Value
        BY DEF Value
      <4>3. load_payload(d) = {} /\ deserialize(d) = {}
        BY <2>2, <2>3, <4>1, <4>2, TornWordIsSeen, Zenon
      <4>4. QED
        BY <3>2, <3>4, <4>3, Zenon
    <3>5. QED
      BY <3>3, <3>4
  <2>8. QED
    BY <2>6, <2>7, Zenon DEF l
<1>3. QED
  BY <1>2, Zenon DEF CutTearsTheTimeOnly

(***************************************************************************)
(* Every payload that is ever under way, however long its route, is read   *)
(* as it was written: by C and Python stations, from C and Python stations.*)
(***************************************************************************)
THEOREM PayloadsAreUnderstood == Spec => []PayloadsSurviveTheWire
<1>1. RouteInv => PayloadsSurviveTheWire
  <2> SUFFICES ASSUME RouteInv, NEW m \in net PROVE Survives(m.payload)
    BY DEF PayloadsSurviveTheWire
  <2>1. m.payload \in Payload /\ Even(m.payload)
    BY DEF RouteInv, Good, Datagram, Shape, Even
  <2>2. QED
    BY <2>1, PayloadSurvives
<1>2. QED
  BY <1>1, RouteInvariant, PTL

(***************************************************************************)
(* Of a payload that is ever under way, cut off between two words or       *)
(* inside one, load_payload and deserialize read nothing else than the     *)
(* payload itself: they read nothing at all, or load_payload reads it with *)
(* what the cut has left of the start time.                                *)
(***************************************************************************)
THEOREM CutsTearNothingElse == Spec => []CutsTearTheTimeOnly
<1>1. RouteInv => CutsTearTheTimeOnly
  <2> SUFFICES ASSUME RouteInv, NEW m \in net PROVE CutTearsTheTimeOnly(m.payload, Torn)
    BY DEF CutsTearTheTimeOnly
  <2>1. m.payload \in Payload /\ Even(m.payload)
    BY DEF RouteInv, Good, Datagram, Shape, Even
  <2>2. QED
    BY <2>1, PayloadCut
<1>2. QED
  BY <1>1, RouteInvariant, PTL
=============================================================================
