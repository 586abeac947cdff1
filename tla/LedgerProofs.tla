---------------------------- MODULE LedgerProofs ----------------------------
(***************************************************************************)
(* Proofs about Ledger, for any lines, any length of the file and of the   *)
(* buffer, with and without errors and power losses: the reader accepts    *)
(* what the writer leaves behind, the writer's index is right, and the two *)
(* together keep the promises of Journal.                                  *)
(***************************************************************************)
EXTENDS Ledger, SequenceTheorems, TLAPS

-----------------------------------------------------------------------------
(* Sequences of units *)

Prefix(p, q) == Len(p) <= Len(q) /\ \A i \in 1..Len(p) : p[i] = q[i]

LEMMA Joined ==
    ASSUME NEW S, NEW p \in Seq(S), NEW q \in Seq(S)
    PROVE  /\ p \o q \in Seq(S) /\ Len(p \o q) = Len(p) + Len(q)
           /\ Len(p) \in Nat /\ Len(q) \in Nat
           /\ \A i \in 1..Len(p) : (p \o q)[i] = p[i]
           /\ \A i \in 1..Len(q) : (p \o q)[Len(p) + i] = q[i]
<1>1. /\ p \o q \in Seq(S) /\ Len(p \o q) = Len(p) + Len(q)
      /\ \A i \in 1..(Len(p) + Len(q)) :
            (p \o q)[i] = IF i <= Len(p) THEN p[i] ELSE q[i - Len(p)]
  BY ConcatProperties
<1>2. Len(p) \in Nat /\ Len(q) \in Nat
  BY LenProperties
<1>. QED
  BY <1>1, <1>2

LEMMA PrefixOfJoined ==
    ASSUME NEW S, NEW p \in Seq(S), NEW q \in Seq(S)
    PROVE  Prefix(p, p \o q)
<1>1. /\ Len(p \o q) = Len(p) + Len(q)
      /\ Len(p) \in Nat /\ Len(q) \in Nat
      /\ \A i \in 1..Len(p) : (p \o q)[i] = p[i]
  BY Joined
<1>2. Len(p) <= Len(p \o q)
  BY <1>1
<1>. QED
  BY <1>1, <1>2 DEF Prefix

-----------------------------------------------------------------------------
(* Where the lines are *)

HeadOf(line) == [line |-> line, part |-> "head"]
TailOf(line) == [line |-> line, part |-> "tail"]

\* pos[i] is where the second unit of the i-th line is, or would be if the
\* units reached as far.  Every other unit is the first half of a line.  The
\* lines up to the good-th one have nothing between them; if there is a next
\* one, there is something in front of it.
Placed(units, lines, pos, good) ==
    /\ pos \in [1..Len(lines) -> Nat]
    /\ good \in 0..Len(lines)
    /\ \A i \in 1..Len(lines) : 2 * i <= pos[i]
    /\ \A i, j \in 1..Len(lines) : i < j => pos[i] + 2 <= pos[j]
    /\ \A i \in 1..Len(lines) : pos[i] <= Len(units) =>
          units[pos[i] - 1] = HeadOf(lines[i]) /\ units[pos[i]] = TailOf(lines[i])
    /\ \A k \in 1..Len(units) : units[k].part = "tail" =>
          \E i \in 1..Len(lines) : pos[i] = k
    /\ \A i \in 1..good : pos[i] = 2 * i
    /\ good < Len(lines) => 2 * good + 2 < pos[good + 1]

LEMMA UnitIs ==
    ASSUME NEW u \in Unit
    PROVE  u.line \in Line /\ u.part \in {"head", "tail"} /\ u = [line |-> u.line, part |-> u.part]
BY DEF Unit

LEMMA UnitsAre ==
    ASSUME NEW line \in Line
    PROVE  /\ Units(line) \in Seq(Unit) /\ Len(Units(line)) = 2
           /\ Units(line)[1] = HeadOf(line) /\ Units(line)[2] = TailOf(line)
           /\ HeadOf(line) \in Unit /\ TailOf(line) \in Unit
BY DEF Units, Unit, HeadOf, TailOf

LEMMA LineJoined ==
    ASSUME NEW q \in Seq(Unit), NEW line \in Line
    PROVE  /\ q \o Units(line) \in Seq(Unit) /\ Len(q) \in Nat
           /\ Len(q \o Units(line)) = Len(q) + 2
           /\ \A i \in 1..Len(q) : (q \o Units(line))[i] = q[i]
           /\ (q \o Units(line))[Len(q) + 1] = HeadOf(line)
           /\ (q \o Units(line))[Len(q) + 2] = TailOf(line)
<1>. DEFINE u == Units(line)
<1>1. Len(u) = 2 /\ u[1] = HeadOf(line) /\ u[2] = TailOf(line)
  BY UnitsAre
<1>2. u \in Seq(Unit)
  BY UnitsAre
<1>. HIDE DEF u
<1>3. q \o u \in Seq(Unit) /\ Len(q \o u) = Len(q) + Len(u)
  BY <1>2, Joined
<1>4. Len(q) \in Nat
  BY LenProperties
<1>5. \A i \in 1..Len(q) : (q \o u)[i] = q[i]
  BY <1>2, Joined
<1>6. \A i \in 1..Len(u) : (q \o u)[Len(q) + i] = u[i]
  BY <1>2, Joined
<1>7. (q \o u)[Len(q) + 1] = u[1] /\ (q \o u)[Len(q) + 2] = u[2]
  <2>1. 1 \in 1..Len(u) /\ 2 \in 1..Len(u)
    BY <1>1
  <2>. QED
    BY <1>6, <2>1
<1>. QED
  BY <1>1, <1>3, <1>4, <1>5, <1>7 DEF u

\* No line is nearer to the beginning than its number allows.
LEMMA PlaceIs ==
    ASSUME NEW units, NEW lines \in Seq(Line), NEW pos, NEW good,
           Placed(units, lines, pos, good)
    PROVE  /\ Len(lines) \in Nat
           /\ pos \in [1..Len(lines) -> Nat] /\ good \in 0..Len(lines)
           /\ good \in Nat /\ good <= Len(lines)
           /\ \A i \in 1..Len(lines) : pos[i] \in Nat /\ 2 * i <= pos[i] /\ 2 <= pos[i]
<1>1. pos \in [1..Len(lines) -> Nat] /\ good \in 0..Len(lines)
  BY Zenon DEF Placed
<1>2. \A i \in 1..Len(lines) : 2 * i <= pos[i]
  BY Zenon DEF Placed
<1>3. Len(lines) \in Nat
  BY LenProperties
<1>. QED
  BY <1>1, <1>2, <1>3

LEMMA PlacedPrefix ==
    ASSUME NEW p \in Seq(Unit), NEW q \in Seq(Unit), Prefix(p, q),
           NEW lines \in Seq(Line), NEW pos, NEW good, Placed(q, lines, pos, good)
    PROVE  Placed(p, lines, pos, good)
<1>1. Len(p) \in Nat /\ Len(q) \in Nat /\ Len(p) <= Len(q) /\ Len(lines) \in Nat
  BY DEF Prefix
<1>2. ASSUME NEW i \in 1..Len(lines), pos[i] <= Len(p)
      PROVE  p[pos[i] - 1] = HeadOf(lines[i]) /\ p[pos[i]] = TailOf(lines[i])
  <2>1. pos[i] \in Nat /\ 2 <= pos[i] /\ pos[i] <= Len(q)
    <3>1. pos[i] \in Nat /\ 2 <= pos[i]
      BY PlaceIs
    <3>. QED
      BY <1>1, <1>2, <3>1
  <2>2. pos[i] - 1 \in 1..Len(p) /\ pos[i] \in 1..Len(p)
    BY <1>1, <1>2, <2>1
  <2>3. p[pos[i] - 1] = q[pos[i] - 1] /\ p[pos[i]] = q[pos[i]]
    BY <2>2 DEF Prefix
  <2>. QED
    BY <2>1, <2>3 DEF Placed
<1>3. ASSUME NEW k \in 1..Len(p), p[k].part = "tail"
      PROVE  \E i \in 1..Len(lines) : pos[i] = k
  <2>1. k \in 1..Len(q) /\ p[k] = q[k]
    BY <1>1 DEF Prefix
  <2>. QED
    BY <1>3, <2>1 DEF Placed
<1>. QED
  BY <1>2, <1>3 DEF Placed

\* Half of a line at the end.
LEMMA PlacedHead ==
    ASSUME NEW q \in Seq(Unit), NEW line \in Line,
           NEW lines \in Seq(Line), NEW pos, NEW good, Placed(q, lines, pos, good),
           \A i \in 1..Len(lines) : pos[i] <= Len(q)
    PROVE  Placed(q \o <<HeadOf(line)>>, lines, pos, good)
<1>. DEFINE n == q \o <<HeadOf(line)>>
<1>1. HeadOf(line) \in Unit /\ <<HeadOf(line)>> \in Seq(Unit) /\ Len(<<HeadOf(line)>>) = 1
  BY UnitsAre
<1>2. /\ n \in Seq(Unit) /\ Len(n) = Len(q) + 1 /\ Len(q) \in Nat
      /\ \A i \in 1..Len(q) : n[i] = q[i]
      /\ n[Len(q) + 1] = HeadOf(line) /\ Len(lines) \in Nat
  BY <1>1, ConcatProperties
<1>. HIDE DEF n
<1>3. ASSUME NEW i \in 1..Len(lines)
      PROVE  n[pos[i] - 1] = HeadOf(lines[i]) /\ n[pos[i]] = TailOf(lines[i])
  <2>1. pos[i] \in Nat /\ 2 <= pos[i] /\ pos[i] <= Len(q)
    BY PlaceIs
  <2>2. pos[i] - 1 \in 1..Len(q) /\ pos[i] \in 1..Len(q)
    BY <1>2, <2>1
  <2>3. q[pos[i] - 1] = HeadOf(lines[i]) /\ q[pos[i]] = TailOf(lines[i])
    BY <2>1 DEF Placed
  <2>. QED
    BY <1>2, <2>2, <2>3
<1>4. ASSUME NEW k \in 1..Len(n), n[k].part = "tail"
      PROVE  \E i \in 1..Len(lines) : pos[i] = k
  <2>1. k # Len(q) + 1
    BY <1>2, <1>4 DEF HeadOf
  <2>2. k \in 1..Len(q) /\ n[k] = q[k]
    BY <1>2, <2>1
  <2>. QED
    BY <1>4, <2>2 DEF Placed
<1>5. Placed(n, lines, pos, good)
  BY <1>3, <1>4 DEF Placed
<1>. QED
  BY <1>5 DEF n

\* One more line at the end.
Further(pos, at, n) == [i \in 1..(n + 1) |-> IF i <= n THEN pos[i] ELSE at]

LEMMA PlacedLine ==
    ASSUME NEW q \in Seq(Unit), NEW line \in Line,
           NEW lines \in Seq(Line), NEW pos, NEW good, Placed(q, lines, pos, good),
           \A i \in 1..Len(lines) : pos[i] <= Len(q), 2 * Len(lines) <= Len(q)
    PROVE  Placed(q \o Units(line), Append(lines, line),
                  Further(pos, Len(q) + 2, Len(lines)),
                  IF Len(q) = 2 * good THEN good + 1 ELSE good)
<1>. DEFINE n == q \o Units(line)
            longer == Append(lines, line)
            further == Further(pos, Len(q) + 2, Len(lines))
            better == IF Len(q) = 2 * good THEN good + 1 ELSE good
            L == Len(lines)
<1>1. /\ n \in Seq(Unit) /\ Len(n) = Len(q) + 2 /\ Len(q) \in Nat
      /\ \A i \in 1..Len(q) : n[i] = q[i]
      /\ n[Len(q) + 1] = HeadOf(line) /\ n[Len(q) + 2] = TailOf(line)
  BY LineJoined
<1>2. /\ L \in Nat /\ Len(longer) = L + 1 /\ longer[L + 1] = line
      /\ \A i \in 1..L : longer[i] = lines[i]
  BY AppendProperties
<1>11. \A i \in 1..L : pos[i] \in Nat /\ 2 <= pos[i] /\ pos[i] <= Len(q)
  BY PlaceIs
<1>3. /\ further \in [1..(L + 1) -> Nat] /\ further[L + 1] = Len(q) + 2
      /\ \A i \in 1..L : further[i] = pos[i]
  BY <1>1, <1>2 DEF Further, Placed
<1>. HIDE DEF n, longer, further
<1>4. good \in 0..L /\ better \in 0..(L + 1)
  BY <1>1, <1>2 DEF Placed
<1>5. \A i \in 1..(L + 1) : 2 * i <= further[i]
  <2>1. 2 * (L + 1) <= further[L + 1]
    BY <1>1, <1>2, <1>3
  <2>2. \A i \in 1..L : 2 * i <= further[i]
    BY <1>2, <1>3 DEF Placed
  <2>. QED
    BY <1>2, <2>1, <2>2
<1>6. \A i, j \in 1..(L + 1) : i < j => further[i] + 2 <= further[j]
  <2>. SUFFICES ASSUME NEW i \in 1..(L + 1), NEW j \in 1..(L + 1), i < j
                PROVE  further[i] + 2 <= further[j]
    OBVIOUS
  <2>1. i \in 1..L /\ further[i] = pos[i] /\ pos[i] \in Nat /\ pos[i] <= Len(q)
    <3>1. i \in 1..L
      BY <1>2
    <3>. QED
      BY <3>1, <1>3, <1>11
  <2>2. CASE j = L + 1
    BY <1>1, <1>3, <2>1, <2>2
  <2>3. CASE j \in 1..L
    BY <1>3, <2>1, <2>3 DEF Placed
  <2>. QED
    BY <1>2, <2>2, <2>3
<1>7. ASSUME NEW i \in 1..(L + 1)
      PROVE  n[further[i] - 1] = HeadOf(longer[i]) /\ n[further[i]] = TailOf(longer[i])
  <2>1. CASE i = L + 1
    BY <1>1, <1>2, <1>3, <2>1
  <2>2. CASE i \in 1..L
    <3>1. pos[i] \in Nat /\ 2 <= pos[i] /\ pos[i] <= Len(q)
      BY <1>11, <2>2
    <3>2. pos[i] - 1 \in 1..Len(q) /\ pos[i] \in 1..Len(q)
      BY <1>1, <3>1
    <3>3. q[pos[i] - 1] = HeadOf(lines[i]) /\ q[pos[i]] = TailOf(lines[i])
      BY <2>2, <3>1 DEF Placed
    <3>. QED
      BY <1>1, <1>2, <1>3, <2>2, <3>2, <3>3
  <2>. QED
    BY <1>2, <2>1, <2>2
<1>8. ASSUME NEW k \in 1..Len(n), n[k].part = "tail"
      PROVE  \E i \in 1..(L + 1) : further[i] = k
  <2>1. k # Len(q) + 1
    BY <1>1, <1>8 DEF HeadOf
  <2>2. CASE k = Len(q) + 2
    BY <1>2, <1>3, <2>2
  <2>3. CASE k # Len(q) + 2
    <3>1. k \in 1..Len(q) /\ n[k] = q[k]
      BY <1>1, <2>1, <2>3
    <3>2. PICK i \in 1..L : pos[i] = k
      BY <1>8, <3>1 DEF Placed
    <3>. QED
      BY <1>2, <1>3, <3>2
  <2>. QED
    BY <2>2, <2>3
<1>9. (\A i \in 1..better : further[i] = 2 * i)
      /\ (better < L + 1 => 2 * better + 2 < further[better + 1])
  <2>1. CASE Len(q) = 2 * good
    <3>1. good = L /\ better = L + 1
      BY <1>1, <1>2, <1>4, <2>1
    <3>2. \A i \in 1..L : further[i] = 2 * i
      BY <1>3, <3>1 DEF Placed
    <3>3. further[L + 1] = 2 * (L + 1)
      BY <1>2, <1>3, <2>1, <3>1
    <3>4. ASSUME NEW i \in 1..(L + 1) PROVE further[i] = 2 * i
      <4>1. i \in 1..L \/ i = L + 1
        BY <1>2
      <4>. QED
        BY <3>2, <3>3, <4>1
    <3>. QED
      BY <1>2, <3>1, <3>4
  <2>2. CASE Len(q) # 2 * good
    <3>1. better = good /\ 2 * good < Len(q)
      BY <1>1, <1>2, <1>4, <2>2
    <3>2. \A i \in 1..better : further[i] = 2 * i
      BY <1>2, <1>3, <1>4, <3>1 DEF Placed
    <3>3. 2 * better + 2 < further[better + 1]
      <4>1. CASE good = L
        BY <1>1, <1>2, <1>3, <3>1, <4>1
      <4>2. CASE good < L
        <5>1. good + 1 \in 1..L
          BY <1>2, <1>4, <4>2
        <5>. QED
          BY <1>2, <1>3, <1>4, <3>1, <4>2, <5>1 DEF Placed
      <4>. QED
        BY <1>2, <1>4, <4>1, <4>2
    <3>. QED
      BY <3>2, <3>3
  <2>. QED
    BY <2>1, <2>2
<1>. HIDE DEF L, better
<1>10. Placed(n, longer, further, better)
  BY <1>2, <1>3, <1>4, <1>5, <1>6, <1>7, <1>8, <1>9 DEF Placed
<1>. QED
  BY <1>10 DEF n, longer, further, better, L

-----------------------------------------------------------------------------
(* What the reader makes of it *)

LinesOf(units, n) == [i \in 1..n |-> units[2 * i].line]

\* A line is a head and a tail.
LEMMA LineIs ==
    ASSUME NEW units \in Seq(Unit), NEW i \in Nat \ {0}, 2 * i <= Len(units)
    PROVE  SubSeq(units, 2 * i - 1, 2 * i) = Units(units[2 * i].line) <=>
             units[2 * i - 1] = HeadOf(units[2 * i].line) /\ units[2 * i].part = "tail"
<1>. DEFINE p == SubSeq(units, 2 * i - 1, 2 * i)
            u == Units(units[2 * i].line)
<1>1. Len(units) \in Nat /\ 2 * i - 1 \in 1..Len(units) /\ 2 * i \in 1..Len(units)
  OBVIOUS
<1>2. units[2 * i - 1] \in Unit /\ units[2 * i] \in Unit
  BY <1>1, ElementOfSeq
<1>3. units[2 * i].line \in Line
  BY <1>2, UnitIs
<1>4. \A k \in (2 * i - 1)..(2 * i) : units[k] \in Unit
  BY <1>1, <1>2
<1>5. /\ p \in Seq(Unit) /\ Len(p) = 2
      /\ p[1] = units[2 * i - 1] /\ p[2] = units[2 * i]
  <2>1. 2 * i - 1 \in Int /\ 2 * i \in Int
    OBVIOUS
  <2>2. /\ p \in Seq(Unit)
        /\ Len(p) = IF 2 * i - 1 <= 2 * i THEN 2 * i - (2 * i - 1) + 1 ELSE 0
        /\ \A k \in 1..(2 * i - (2 * i - 1) + 1) : p[k] = units[(2 * i - 1) + k - 1]
    BY <1>4, <2>1, SubSeqProperties
  <2>3. 2 * i - (2 * i - 1) + 1 = 2 /\ (2 * i - 1) + 1 - 1 = 2 * i - 1
        /\ (2 * i - 1) + 2 - 1 = 2 * i
    BY <1>1
  <2>4. Len(p) = 2
    BY <2>2, <2>3
  <2>5. \A k \in 1..2 : p[k] = units[(2 * i - 1) + k - 1]
    BY <2>2, <2>3
  <2>6. p[1] = units[(2 * i - 1) + 1 - 1] /\ p[2] = units[(2 * i - 1) + 2 - 1]
    BY <2>5
  <2>. QED
    BY <2>2, <2>3, <2>4, <2>6
<1>6. /\ u \in Seq(Unit) /\ Len(u) = 2
      /\ u[1] = HeadOf(units[2 * i].line) /\ u[2] = TailOf(units[2 * i].line)
  BY <1>3, UnitsAre
<1>7. units[2 * i] = TailOf(units[2 * i].line) <=> units[2 * i].part = "tail"
  BY <1>2, UnitIs DEF TailOf
<1>. HIDE DEF p, u
<1>8. p = u <=> p[1] = u[1] /\ p[2] = u[2]
  <2>1. ASSUME p[1] = u[1], p[2] = u[2] PROVE p = u
    <3>1. \A k \in 1..Len(p) : p[k] = u[k]
      BY <1>5, <2>1
    <3>. QED
      BY <1>5, <1>6, <3>1, SeqEqual
  <2>. QED
    BY <2>1
<1>9. p = u <=> units[2 * i - 1] = HeadOf(units[2 * i].line) /\ units[2 * i].part = "tail"
  BY <1>5, <1>6, <1>7, <1>8
<1>. QED
  BY <1>9 DEF p, u

\* The number of lines is determined by the units.
LEMMA ReadIs ==
    ASSUME NEW units \in Seq(Unit), NEW what, NEW n \in 0..Len(units), AreLines(units, n)
    PROVE  Read(what, units) =
             IF InOrder(what, LinesOf(units, n)) THEN LinesOf(units, n) ELSE None
<1>1. ASSUME NEW m \in 0..Len(units), NEW k \in 0..Len(units),
             AreLines(units, m), AreLines(units, k)
      PROVE  ~(m < k)
  <2>. SUFFICES ASSUME m < k PROVE FALSE
    OBVIOUS
  <2>1. k \in Nat \ {0} /\ k \in 1..k /\ 2 * k <= Len(units) /\ Len(units) \in Nat
    BY <1>1 DEF AreLines
  <2>2. units[2 * k].part = "tail"
    BY <1>1, <2>1, LineIs DEF AreLines
  <2>3. 2 * k \in (2 * m + 1)..Len(units)
    BY <2>1
  <2>. QED
    BY <1>1, <2>2, <2>3 DEF AreLines
<1>2. (CHOOSE k \in 0..Len(units) : AreLines(units, k)) = n
  <2>1. \A k \in 0..Len(units) : AreLines(units, k) => k = n
    BY <1>1
  <2>. QED
    BY <2>1
<1>. QED
  BY <1>2 DEF Read, LinesOf

\* A part of what is in order is in order.
LEMMA OrderOfPart ==
    ASSUME NEW lines \in Seq(Line), NEW what, InOrder(what, lines),
           NEW n \in 0..Len(lines)
    PROVE  /\ SubSeq(lines, 1, n) \in Seq(Line) /\ Len(SubSeq(lines, 1, n)) = n
           /\ SubSeq(lines, 1, n) = [i \in 1..n |-> lines[i]]
           /\ InOrder(what, [i \in 1..n |-> lines[i]])
<1>. DEFINE part == [i \in 1..n |-> lines[i]]
<1>1. /\ Len(lines) \in Nat /\ n \in Nat /\ n <= Len(lines)
      /\ DOMAIN lines = 1..Len(lines) /\ DOMAIN part = 1..n
      /\ \A i \in 1..n : part[i] = lines[i] /\ lines[i] \in Line
  OBVIOUS
<1>2. part \in Seq(Line) /\ Len(part) = n
  BY <1>1
<1>3. /\ SubSeq(lines, 1, n) \in Seq(Line) /\ Len(SubSeq(lines, 1, n)) = n
      /\ \A i \in 1..n : SubSeq(lines, 1, n)[i] = lines[i]
  <2>1. 1 \in Int /\ n \in Int /\ \A i \in 1..n : lines[i] \in Line
    BY <1>1
  <2>2. /\ SubSeq(lines, 1, n) \in Seq(Line)
        /\ Len(SubSeq(lines, 1, n)) = IF 1 <= n THEN n - 1 + 1 ELSE 0
        /\ \A i \in 1..(n - 1 + 1) : SubSeq(lines, 1, n)[i] = lines[1 + i - 1]
    BY <2>1, SubSeqProperties
  <2>3. Len(SubSeq(lines, 1, n)) = n
    BY <1>1, <2>2
  <2>4. \A i \in 1..n : SubSeq(lines, 1, n)[i] = lines[i]
    BY <1>1, <2>2
  <2>. QED
    BY <2>2, <2>3, <2>4
<1>. HIDE DEF part
<1>4. SubSeq(lines, 1, n) = part
  BY <1>1, <1>2, <1>3, SeqEqual
<1>5. InOrder(what, part)
  <2>. SUFFICES ASSUME NEW i \in 1..n
                PROVE  IF what = "trace" THEN part[i].seq = i
                       ELSE \A j \in 1..(i - 1) : part[j].item # part[i].item
    BY <1>1 DEF InOrder
  <2>1. i \in DOMAIN lines /\ part[i] = lines[i]
    BY <1>1
  <2>2. \A j \in 1..(i - 1) : part[j] = lines[j]
    BY <1>1
  <2>. QED
    BY <2>1, <2>2 DEF InOrder
<1>. QED
  BY <1>3, <1>4, <1>5 DEF part

\* The reader gives as many of the lines as are there with nothing between
\* them, or refuses if one comes behind something else.
ReadsUpTo(units, lines, pos, good, n, what) ==
    /\ 2 * n <= Len(units)
    /\ n = good \/ Len(units) < 2 * n + 2
    /\ \A p \in 1..Len(lines) : pos[p] <= Len(units) => p <= n
    /\ Read(what, units) = SubSeq(lines, 1, n)

LEMMA ReadPlaced ==
    ASSUME NEW units \in Seq(Unit), NEW lines \in Seq(Line), NEW pos, NEW good,
           Placed(units, lines, pos, good), NEW what, InOrder(what, lines)
    PROVE  \/ good < Len(lines) /\ Read(what, units) = None
           \/ \E n \in 0..good : ReadsUpTo(units, lines, pos, good, n, what)
<1>. DEFINE L == Len(units)
<1>1. /\ L \in Nat /\ good \in Nat /\ Len(lines) \in Nat /\ good <= Len(lines)
      /\ \A i \in 1..Len(lines) : pos[i] \in Nat
  BY PlaceIs, LenProperties
<1>2. ASSUME NEW j \in 1..Len(lines), good < j
      PROVE  good + 1 \in 1..Len(lines) /\ pos[good + 1] <= pos[j]
  <2>1. good + 1 \in 1..Len(lines)
    BY <1>1, <1>2
  <2>2. CASE j = good + 1
    BY <1>1, <2>1, <2>2
  <2>3. CASE good + 1 < j
    <3>1. pos[good + 1] + 2 <= pos[j]
      BY <2>1, <2>3 DEF Placed
    <3>. QED
      BY <1>1, <2>1, <3>1
  <2>. QED
    BY <1>1, <1>2, <2>1, <2>2, <2>3
<1>3. CASE good < Len(lines) /\ pos[good + 1] <= L
  <2>1. good + 1 \in 1..Len(lines) /\ pos[good + 1] \in 1..L
        /\ 2 * good + 2 < pos[good + 1] /\ units[pos[good + 1]].part = "tail"
    <3>1. good + 1 \in 1..Len(lines)
      BY <1>1, <1>3
    <3>2. 2 * good + 2 < pos[good + 1]
      BY <1>3 DEF Placed
    <3>3. units[pos[good + 1]] = TailOf(lines[good + 1])
      BY <1>3, <3>1 DEF Placed
    <3>. QED
      BY <1>1, <1>3, <3>1, <3>2, <3>3 DEF TailOf
  <2>2. ASSUME NEW n \in 0..L, AreLines(units, n)
        PROVE  FALSE
    <3>1. pos[good + 1] <= 2 * n
      <4>1. ~ (pos[good + 1] \in (2 * n + 1)..L)
        BY <2>1, <2>2 DEF AreLines
      <4>. QED
        BY <1>1, <2>1, <2>2, <4>1
    <3>2. good + 1 \in 1..n /\ 2 * (good + 1) <= L /\ 2 * (good + 1) \in 1..L
      BY <1>1, <2>1, <2>2, <3>1 DEF AreLines
    <3>3. units[2 * (good + 1)].part = "tail"
      <4>. DEFINE m == good + 1
      <4>1. m \in 1..n /\ m \in Nat \ {0} /\ 2 * m <= Len(units)
        BY <1>1, <3>2
      <4>. HIDE DEF m
      <4>2. SubSeq(units, 2 * m - 1, 2 * m) = Units(units[2 * m].line)
        BY <2>2, <4>1 DEF AreLines
      <4>3. units[2 * m].part = "tail"
        BY <4>1, <4>2, LineIs
      <4>. QED
        BY <4>3 DEF m
    <3>4. PICK j \in 1..Len(lines) : pos[j] = 2 * (good + 1)
      BY <3>2, <3>3 DEF Placed
    <3>5. CASE j <= good
      <4>1. pos[j] = 2 * j
        BY <1>1, <3>5 DEF Placed
      <4>. QED
        BY <1>1, <3>4, <3>5, <4>1
    <3>6. CASE good < j
      BY <1>1, <1>2, <2>1, <3>4, <3>6
    <3>. QED
      BY <1>1, <3>5, <3>6
  <2>. QED
    BY <1>3, <2>2 DEF Read
<1>4. CASE good = Len(lines) \/ L < pos[good + 1]
  <2>1. PICK n \in 0..good : 2 * n <= L /\ (n = good \/ L < 2 * n + 2)
    <3>1. CASE 2 * good <= L
      BY <1>1, <3>1
    <3>2. CASE L < 2 * good
      <4>1. L \div 2 \in 0..good /\ 2 * (L \div 2) <= L /\ L < 2 * (L \div 2) + 2
        BY <1>1, <3>2
      <4>. QED
        BY <4>1
    <3>. QED
      BY <1>1, <3>1, <3>2
  <2>2. ASSUME NEW p \in 1..Len(lines), pos[p] <= L
        PROVE  p <= good /\ p <= n /\ pos[p] = 2 * p
    <3>1. p <= good
      BY <1>1, <1>2, <1>4, <2>2
    <3>2. pos[p] = 2 * p
      BY <1>1, <3>1 DEF Placed
    <3>. QED
      BY <1>1, <2>1, <2>2, <3>1, <3>2
  <2>3. ASSUME NEW i \in 1..n
        PROVE  /\ 2 * i <= L /\ i \in Nat \ {0}
               /\ units[2 * i - 1] = HeadOf(lines[i]) /\ units[2 * i] = TailOf(lines[i])
               /\ units[2 * i].line = lines[i] /\ units[2 * i].part = "tail"
    <3>1. i \in 1..good /\ i \in 1..Len(lines) /\ 2 * i <= L /\ i \in Nat \ {0}
      BY <1>1, <2>1
    <3>2. pos[i] = 2 * i
      BY <3>1, Zenon DEF Placed
    <3>3. units[pos[i] - 1] = HeadOf(lines[i]) /\ units[pos[i]] = TailOf(lines[i])
      BY <3>1, <3>2 DEF Placed
    <3>. QED
      BY <3>1, <3>2, <3>3 DEF TailOf
  <2>4. AreLines(units, n)
    <3>1. ASSUME NEW i \in 1..n
          PROVE  SubSeq(units, 2 * i - 1, 2 * i) = Units(units[2 * i].line)
      <4>1. /\ i \in Nat \ {0} /\ 2 * i <= Len(units)
            /\ units[2 * i - 1] = HeadOf(units[2 * i].line) /\ units[2 * i].part = "tail"
        BY <2>3
      <4>. QED
        BY <4>1, LineIs
    <3>2. ASSUME NEW k \in (2 * n + 1)..L
          PROVE  units[k].part = "head"
      <4>1. k \in 1..L
        BY <1>1, <2>1
      <4>2. units[k].part # "tail"
        <5>. SUFFICES ASSUME units[k].part = "tail" PROVE FALSE
          OBVIOUS
        <5>1. PICK j \in 1..Len(lines) : pos[j] = k
          BY <4>1 DEF Placed
        <5>2. j <= n /\ pos[j] = 2 * j
          BY <1>1, <2>2, <4>1, <5>1
        <5>. QED
          BY <1>1, <2>1, <5>1, <5>2
      <4>3. units[k] \in Unit
        BY <4>1, ElementOfSeq
      <4>. QED
        BY <4>2, <4>3, UnitIs
    <3>. QED
      BY <2>1, <3>1, <3>2 DEF AreLines
  <2>5. LinesOf(units, n) = [i \in 1..n |-> lines[i]]
    BY <2>3 DEF LinesOf
  <2>6. n \in 0..Len(lines) /\ n \in 0..L
    BY <1>1, <2>1
  <2>7. Read(what, units) = SubSeq(lines, 1, n)
    <3>1. InOrder(what, LinesOf(units, n)) /\ SubSeq(lines, 1, n) = LinesOf(units, n)
      BY <2>5, <2>6, OrderOfPart
    <3>. QED
      BY <2>4, <2>6, <3>1, ReadIs
  <2>8. ReadsUpTo(units, lines, pos, good, n, what)
    BY <2>1, <2>2, <2>7 DEF ReadsUpTo
  <2>. QED
    BY <2>8
<1>. QED
  <2>1. good < Len(lines) => pos[good + 1] \in Nat
    BY <1>1
  <2>. QED
    BY <1>1, <1>3, <1>4, <2>1

-----------------------------------------------------------------------------
(* The file object: no call loses, doubles or reorders a unit *)

\* An end w of a call that was given f and b: together they are still q.
Keeps(w, f, q) ==
    /\ w = Ends(w.file, w.buffer, w.reached)
    /\ w.file \in Seq(Unit) /\ w.buffer \in Seq(Unit)
    /\ w.file \o w.buffer = q
    /\ Len(f) <= Len(w.file)

LEMMA Associated ==
    ASSUME NEW p \in Seq(Unit), NEW q \in Seq(Unit), NEW t \in Seq(Unit)
    PROVE  (p \o q) \o t = p \o (q \o t)
BY ConcatAssociative, SMTT(30)

LEMMA DrainKeeps ==
    ASSUME NEW f \in Seq(Unit), NEW b \in Seq(Unit), NEW w \in Drain(f, b)
    PROVE  /\ Keeps(w, f, f \o b)
           /\ w.reached \in {"flush", "raised"}
           /\ w.reached = "flush" => w.buffer = <<>>
<1>1. /\ f \o b \in Seq(Unit) /\ Len(f \o b) = Len(f) + Len(b)
      /\ Len(f) \in Nat /\ Len(b) \in Nat /\ <<>> \in Seq(Unit)
  BY Joined, EmptySeq
<1>2. CASE w = Ends(f \o b, <<>>, "flush")
  <2>1. (f \o b) \o <<>> = f \o b
    BY <1>1, ConcatEmptySeq
  <2>. QED
    BY <1>1, <1>2, <2>1 DEF Keeps, Ends
<1>3. ASSUME NEW n \in 0..(Len(b) - 1),
             w = Ends(f \o SubSeq(b, 1, n), SubSeq(b, n + 1, Len(b)), "raised")
      PROVE  Keeps(w, f, f \o b) /\ w.reached = "raised"
  <2>. DEFINE x == SubSeq(b, 1, n)
              y == SubSeq(b, n + 1, Len(b))
  <2>1. \A i \in 1..Len(b) : b[i] \in Unit
    BY ElementOfSeq
  <2>2. x \in Seq(Unit)
    <3>1. 1 \in Int /\ n \in Int /\ \A i \in 1..n : b[i] \in Unit
      BY <1>1, <2>1
    <3>. QED
      BY <3>1, SubSeqProperties
  <2>3. y \in Seq(Unit)
    <3>1. n + 1 \in Int /\ Len(b) \in Int /\ \A i \in (n + 1)..Len(b) : b[i] \in Unit
      BY <1>1, <2>1
    <3>. QED
      BY <3>1, SubSeqProperties
  <2>4. x \o y = b
    <3>1. 1 \in 1..(Len(b) + 1) /\ n \in (1 - 1)..Len(b) /\ Len(b) \in n..Len(b)
      BY <1>1
    <3>2. x \o y = SubSeq(b, 1, Len(b))
      BY <3>1, ConcatAdjacentSubSeq
    <3>3. SubSeq(b, 1, Len(b)) = b
      BY SubSeqFull
    <3>. QED
      BY <3>2, <3>3
  <2>. HIDE DEF x, y
  <2>5. (f \o x) \o y = f \o (x \o y)
    BY <2>2, <2>3, Associated, SMTT(30)
  <2>6. f \o x \in Seq(Unit) /\ Len(f \o x) = Len(f) + Len(x) /\ Len(x) \in Nat
    BY <2>2, Joined
  <2>7. w.file = f \o x /\ w.buffer = y /\ w.reached = "raised"
        /\ w = Ends(w.file, w.buffer, w.reached)
    BY <1>3 DEF Ends, x, y
  <2>8. Keeps(w, f, f \o b)
    <3>1. w.file \o w.buffer = f \o b
      BY <2>4, <2>5, <2>7
    <3>2. Len(f) \in Nat /\ Len(f) <= Len(w.file)
      BY <1>1, <2>6, <2>7
    <3>. QED
      BY <2>3, <2>6, <2>7, <3>1, <3>2 DEF Keeps
  <2>. QED
    BY <2>7, <2>8
<1>4. \/ w = Ends(f \o b, <<>>, "flush")
      \/ \E n \in 0..(Len(b) - 1) :
            w = Ends(f \o SubSeq(b, 1, n), SubSeq(b, n + 1, Len(b)), "raised")
  BY DEF Drain
<1>5. Ends(f \o b, <<>>, "flush").reached = "flush" /\ Ends(f \o b, <<>>, "flush").buffer = <<>>
  BY DEF Ends
<1>. QED
  BY <1>2, <1>3, <1>4, <1>5

\* What a write may end in: the line is behind what was there, or it raised
\* and at most the first half of the line is.
Takes(w, f, q, line) ==
    \/ w.reached = "buffered" /\ Keeps(w, f, q \o Units(line))
    \/ w.reached = "raised" /\ Keeps(w, f, q \o <<HeadOf(line)>>)
    \/ w.reached = "raised" /\ Keeps(w, f, q)

LEMMA LargeTakes ==
    ASSUME NEW f \in Seq(Unit), NEW line \in Line, NEW w \in WriteLarge(f, Units(line))
    PROVE  Takes(w, f, f, line)
<1>. DEFINE u == Units(line)
<1>1. /\ u \in Seq(Unit) /\ u = <<HeadOf(line)>> \o <<TailOf(line)>>
      /\ u[1] = HeadOf(line) /\ u[2] = TailOf(line)
      /\ HeadOf(line) \in Unit /\ TailOf(line) \in Unit
      /\ <<HeadOf(line)>> \in Seq(Unit) /\ <<TailOf(line)>> \in Seq(Unit)
      /\ <<>> \in Seq(Unit)
  <2>1. u = <<HeadOf(line)>> \o <<TailOf(line)>>
    BY DEF u, Units, HeadOf, TailOf
  <2>. QED
    BY <2>1, UnitsAre
<1>. HIDE DEF u
<1>2. f \o u \in Seq(Unit) /\ (f \o u) \o <<>> = f \o u /\ f \o <<>> = f
  BY <1>1, Joined, ConcatEmptySeq
<1>3. f \o <<HeadOf(line)>> \in Seq(Unit)
      /\ (f \o <<HeadOf(line)>>) \o <<>> = f \o <<HeadOf(line)>>
  BY <1>1, Joined, ConcatEmptySeq
<1>4. (f \o <<HeadOf(line)>>) \o <<TailOf(line)>> = f \o u
  BY <1>1, Associated
<1>5. /\ Len(f) \in Nat /\ Len(f) <= Len(f \o u)
      /\ Len(f) <= Len(f \o <<HeadOf(line)>>)
  <2>1. Len(f \o u) = Len(f) + Len(u) /\ Len(u) \in Nat /\ Len(f) \in Nat
    BY <1>1, Joined
  <2>2. Len(f \o <<HeadOf(line)>>) = Len(f) + Len(<<HeadOf(line)>>)
        /\ Len(<<HeadOf(line)>>) \in Nat
    BY <1>1, Joined
  <2>. QED
    BY <2>1, <2>2
<1>6. \/ w = Ends(f \o u, <<>>, "buffered")
      \/ w = Ends(f \o <<HeadOf(line)>>, <<TailOf(line)>>, "buffered")
      \/ w = Ends(f \o <<HeadOf(line)>>, <<>>, "raised")
      \/ w = Ends(f, <<>>, "raised")
  BY <1>1 DEF WriteLarge, u
<1>7. CASE w = Ends(f \o u, <<>>, "buffered")
  BY <1>1, <1>2, <1>5, <1>7 DEF Takes, Keeps, Ends, u
<1>8. CASE w = Ends(f \o <<HeadOf(line)>>, <<TailOf(line)>>, "buffered")
  BY <1>1, <1>3, <1>4, <1>5, <1>8 DEF Takes, Keeps, Ends, u
<1>9. CASE w = Ends(f \o <<HeadOf(line)>>, <<>>, "raised")
  BY <1>1, <1>3, <1>5, <1>9 DEF Takes, Keeps, Ends
<1>10. CASE w = Ends(f, <<>>, "raised")
  BY <1>1, <1>2, <1>5, <1>10 DEF Takes, Keeps, Ends
<1>. QED
  BY <1>6, <1>7, <1>8, <1>9, <1>10

LEMMA OverflowTakes ==
    ASSUME file \in Seq(Unit), buffer \in Seq(Unit), NEW line \in Line,
           NEW w \in Overflow(Units(line))
    PROVE  Takes(w, file, file \o buffer, line)
<1>1. PICK d \in Drain(file, buffer) :
         IF d.reached = "raised" THEN w = d
         ELSE IF IsLarge(Units(line)) THEN w \in WriteLarge(d.file, Units(line))
         ELSE w = Ends(d.file, Units(line), "buffered")
  BY DEF Overflow
<1>2. /\ Keeps(d, file, file \o buffer)
      /\ d.reached \in {"flush", "raised"}
      /\ d.reached = "flush" => d.buffer = <<>>
  BY DrainKeeps
<1>3. CASE d.reached = "raised"
  BY <1>1, <1>2, <1>3 DEF Takes
<1>4. CASE d.reached = "flush"
  <2>1. d.file \in Seq(Unit) /\ d.file = file \o buffer /\ Len(file) <= Len(d.file)
    <3>1. d.file \o <<>> = d.file
      BY <1>2, ConcatEmptySeq DEF Keeps
    <3>. QED
      BY <1>2, <1>4, <3>1 DEF Keeps
  <2>2. CASE IsLarge(Units(line))
    <3>1. Takes(w, d.file, d.file, line)
      BY <1>1, <1>4, <2>1, <2>2, LargeTakes
    <3>2. Takes(w, file, d.file, line)
      <4>1. \A q : Keeps(w, d.file, q) => Keeps(w, file, q)
        <5>. SUFFICES ASSUME NEW q, Keeps(w, d.file, q) PROVE Keeps(w, file, q)
          OBVIOUS
        <5>1. Len(file) \in Nat /\ Len(d.file) \in Nat /\ Len(w.file) \in Nat
          BY <2>1, LenProperties DEF Keeps
        <5>. QED
          BY <2>1, <5>1 DEF Keeps
      <4>. QED
        BY <3>1, <4>1 DEF Takes
    <3>. QED
      BY <2>1, <3>2
  <2>3. CASE ~IsLarge(Units(line))
    <3>1. w = Ends(d.file, Units(line), "buffered")
      BY <1>1, <1>4, <2>3
    <3>. QED
      BY <2>1, <3>1, UnitsAre DEF Takes, Keeps, Ends
  <2>. QED
    BY <2>2, <2>3
<1>. QED
  BY <1>2, <1>3, <1>4

LEMMA WriteTakes ==
    ASSUME file \in Seq(Unit), buffer \in Seq(Unit), NEW line \in Line,
           NEW w \in Write(Units(line))
    PROVE  Takes(w, file, file \o buffer, line)
<1>1. CASE w \in Overflow(Units(line))
  BY <1>1, OverflowTakes
<1>2. CASE w = Ends(file, buffer \o Units(line), "buffered")
  <2>1. /\ buffer \o Units(line) \in Seq(Unit) /\ Units(line) \in Seq(Unit)
        /\ Len(file) \in Nat
    BY UnitsAre, LineJoined
  <2>2. file \o (buffer \o Units(line)) = (file \o buffer) \o Units(line)
    BY <2>1, Associated
  <2>3. Keeps(w, file, (file \o buffer) \o Units(line)) /\ w.reached = "buffered"
    <3>1. w = Ends(w.file, w.buffer, w.reached) /\ w.file = file
          /\ w.buffer = buffer \o Units(line) /\ w.reached = "buffered"
      BY <1>2 DEF Ends
    <3>. QED
      BY <2>1, <2>2, <3>1 DEF Keeps
  <2>. QED
    BY <2>3 DEF Takes
<1>. QED
  BY <1>1, <1>2 DEF Write

\* flush and fsync only move the buffer into the file; what is flushed leaves
\* the buffer empty.
LEMMA PersistKeeps ==
    ASSUME NEW w, w = Ends(w.file, w.buffer, "buffered"),
           w.file \in Seq(Unit), w.buffer \in Seq(Unit),
           NEW durability \in {"buffered", "flush", "fsync"}, NEW v \in Persist(w, durability)
    PROVE  /\ Keeps(v, w.file, w.file \o w.buffer)
           /\ v.reached \in {"buffered", "flush", "fsync", "raised"}
           /\ v.reached \in {"flush", "fsync"} => v.buffer = <<>>
<1>1. CASE durability = "buffered"
  <2>1. v = w
    BY <1>1 DEF Persist
  <2>2. Len(w.file) \in Nat /\ w.reached = "buffered"
    BY DEF Ends
  <2>. QED
    BY <2>1, <2>2 DEF Keeps
<1>2. CASE durability = "flush"
  <2>1. v \in Drain(w.file, w.buffer)
    BY <1>2 DEF Persist
  <2>. QED
    BY <2>1, DrainKeeps
<1>3. CASE durability = "fsync"
  <2>1. PICK d \in Drain(w.file, w.buffer) :
           \/ v = [d EXCEPT !.reached = IF @ = "flush" THEN "fsync" ELSE @]
           \/ v = [d EXCEPT !.reached = "raised"]
    BY <1>3 DEF Persist
  <2>2. /\ Keeps(d, w.file, w.file \o w.buffer)
        /\ d.reached \in {"flush", "raised"}
        /\ d.reached = "flush" => d.buffer = <<>>
    BY DrainKeeps
  <2>3. v = Ends(d.file, d.buffer, v.reached)
        /\ (v.reached = "raised" \/ (v.reached = "fsync" /\ d.reached = "flush"))
    <3>1. d = [file |-> d.file, buffer |-> d.buffer, reached |-> d.reached]
      BY <2>2 DEF Keeps, Ends
    <3>. QED
      BY <2>1, <2>2, <3>1 DEF Ends
  <2>4. v.file = d.file /\ v.buffer = d.buffer
    BY <2>3 DEF Ends
  <2>. QED
    BY <2>2, <2>3, <2>4 DEF Keeps
<1>. QED
  BY <1>1, <1>2, <1>3

-----------------------------------------------------------------------------
(* The inductive invariant *)

\* Where the lines are that the writer has accepted.  They are in the order
\* and at the distance they were written in; those that were promised are in
\* the file, on the disk if fsync was asked for.
Laid(pos, good) ==
    /\ Placed(file \o buffer, log, pos, good)
    /\ good = Len(log) \/ health = "spoilt"
    /\ writer = "open" => \A i \in 1..Len(log) : pos[i] <= Len(file \o buffer)
    /\ writer = "open" /\ health = "sound" => Len(file \o buffer) = 2 * Len(log)
    /\ \A i \in 1..Len(log) : i <= promised["flush"] => pos[i] <= Len(file)
    /\ \A i \in 1..Len(log) : i <= promised["fsync"] => pos[i] <= disk

\* What was fsynced was flushed, and the index is that of the lines accepted.
Indexed ==
    /\ promised["fsync"] <= promised["flush"]
    /\ InOrder(kind, log)
    /\ kind = "evidence" => ids = {log[i].item : i \in DOMAIN log}

IInv == TypeOK /\ Indexed /\ \E pos, good : Laid(pos, good)

LEMMA OrderOfLonger ==
    ASSUME NEW lines \in Seq(Line), NEW line \in Line, NEW what, InOrder(what, lines),
           IF what = "trace" THEN line.seq = Len(lines) + 1
           ELSE \A i \in DOMAIN lines : lines[i].item # line.item
    PROVE  InOrder(what, Append(lines, line))
<1>. DEFINE longer == Append(lines, line)
<1>1. /\ Len(lines) \in Nat /\ DOMAIN lines = 1..Len(lines)
      /\ DOMAIN longer = 1..(Len(lines) + 1)
      /\ longer[Len(lines) + 1] = line
      /\ \A i \in 1..Len(lines) : longer[i] = lines[i]
  BY AppendProperties
<1>. HIDE DEF longer
<1>2. ASSUME NEW i \in 1..(Len(lines) + 1)
      PROVE  IF what = "trace" THEN longer[i].seq = i
             ELSE \A j \in 1..(i - 1) : longer[j].item # longer[i].item
  <2>1. CASE i = Len(lines) + 1
    BY <1>1, <2>1
  <2>2. CASE i # Len(lines) + 1
    <3>1. i \in 1..Len(lines) /\ longer[i] = lines[i]
      BY <1>1, <2>2
    <3>2. \A j \in 1..(i - 1) : longer[j] = lines[j]
      BY <1>1, <3>1
    <3>. QED
      BY <1>1, <3>1, <3>2 DEF InOrder
  <2>. QED
    BY <2>1, <2>2
<1>3. InOrder(what, longer)
  BY <1>1, <1>2 DEF InOrder
<1>. QED
  BY <1>3 DEF longer

LEMMA KeepsPrefix ==
    ASSUME NEW w, NEW f, NEW q, Keeps(w, f, q)
    PROVE  /\ Prefix(w.file, q)
           /\ w.buffer = <<>> => w.file = q
           /\ Len(w.file) + Len(w.buffer) = Len(q)
<1>1. /\ w.file \in Seq(Unit) /\ w.buffer \in Seq(Unit)
      /\ q = w.file \o w.buffer
  BY DEF Keeps
<1>2. Prefix(w.file, q)
  BY <1>1, PrefixOfJoined
<1>3. w.buffer = <<>> => w.file = q
  BY <1>1, ConcatEmptySeq
<1>4. Len(w.file) + Len(w.buffer) = Len(q)
  BY <1>1, Joined
<1>. QED
  BY <1>2, <1>3, <1>4

\* What holds of the units whoever takes the next step.
LEMMA UnitsTyped ==
    ASSUME TypeOK, NEW pos, NEW good, Laid(pos, good)
    PROVE  /\ file \in Seq(Unit) /\ buffer \in Seq(Unit) /\ file \o buffer \in Seq(Unit)
           /\ Len(file) \in Nat /\ Len(buffer) \in Nat /\ Len(log) \in Nat
           /\ Len(file \o buffer) = Len(file) + Len(buffer)
           /\ Prefix(file, file \o buffer)
           /\ disk \in Nat /\ disk <= Len(file) /\ MaxUnits \in Nat
           /\ promised["flush"] \in 0..Len(log) /\ promised["fsync"] \in 0..Len(log)
           /\ good \in 0..Len(log)
           /\ \A i \in 1..Len(log) : pos[i] \in Nat /\ 2 * i <= pos[i]
           /\ writer = "open" => 2 * Len(log) <= Len(file \o buffer)
<1>1. /\ file \in Seq(Unit) /\ buffer \in Seq(Unit) /\ log \in Seq(Line)
      /\ disk \in 0..Len(file) /\ MaxUnits \in Nat
      /\ promised["flush"] \in 0..Len(log) /\ promised["fsync"] \in 0..Len(log)
  BY LedgerAssumption DEF TypeOK
<1>2. /\ Len(file) \in Nat /\ Len(buffer) \in Nat /\ Len(log) \in Nat
      /\ file \o buffer \in Seq(Unit) /\ Len(file \o buffer) = Len(file) + Len(buffer)
      /\ \A i \in 1..Len(file) : (file \o buffer)[i] = file[i]
  BY <1>1, Joined
<1>3. Prefix(file, file \o buffer)
  BY <1>2 DEF Prefix
<1>4. good \in 0..Len(log) /\ \A i \in 1..Len(log) : pos[i] \in Nat /\ 2 * i <= pos[i]
  BY <1>2 DEF Laid, Placed
<1>5. writer = "open" => 2 * Len(log) <= Len(file \o buffer)
  <2>. SUFFICES ASSUME writer = "open" PROVE 2 * Len(log) <= Len(file \o buffer)
    OBVIOUS
  <2>1. CASE Len(log) = 0
    BY <1>2, <2>1
  <2>2. CASE Len(log) # 0
    <3>1. Len(log) \in 1..Len(log)
      BY <1>2, <2>2
    <3>2. pos[Len(log)] <= Len(file \o buffer)
      BY <3>1 DEF Laid
    <3>. QED
      BY <1>2, <1>4, <3>1, <3>2
  <2>. QED
    BY <2>1, <2>2
<1>. QED
  BY <1>1, <1>2, <1>3, <1>4, <1>5

LEMMA InitIInv == Init => IInv
<1>. SUFFICES ASSUME Init PROVE IInv
  OBVIOUS
<1>1. <<>> \in Seq(Unit) /\ <<>> \in Seq(Line) /\ Len(<<>>) = 0 /\ <<>> \o <<>> = <<>>
  BY EmptySeq, ConcatEmptySeq
<1>2. TypeOK
  BY <1>1, LedgerAssumption DEF Init, TypeOK
<1>3. Indexed
  BY <1>1 DEF Init, Indexed, InOrder
<1>4. Placed(<<>>, <<>>, [i \in 1..0 |-> 0], 0)
  BY <1>1 DEF Placed
<1>5. Laid([i \in 1..0 |-> 0], 0)
  BY <1>1, <1>4 DEF Init, Laid
<1>. QED
  BY <1>2, <1>3, <1>5 DEF IInv

-----------------------------------------------------------------------------
(* Steps.  The number of lines with nothing between them never falls. *)

LEMMA LineTyped ==
    ASSUME TypeOK, Indexed, NEW pos, NEW good, Laid(pos, good), NEW item \in Item,
           MayAppend(item)
    PROVE  /\ LineOf(item) \in Line
           /\ Len(file \o buffer) + 2 <= MaxUnits
           /\ InOrder(kind, Append(log, LineOf(item)))
<1>. DEFINE line == LineOf(item)
<1>1. nextSeq = Len(log) + 1 /\ log \in Seq(Line) /\ kind \in {"trace", "evidence"}
  BY DEF TypeOK
<1>2. /\ Len(log) \in Nat /\ MaxUnits \in Nat /\ Len(file \o buffer) + 2 <= MaxUnits
      /\ Len(file \o buffer) \in Nat /\ 2 * Len(log) <= Len(file \o buffer)
  BY UnitsTyped DEF MayAppend
<1>3. line \in Line
  <2>1. 0 \in 0..MaxUnits /\ nextSeq \in 0..MaxUnits
    BY <1>1, <1>2
  <2>. QED
    BY <2>1 DEF LineOf, Line
<1>4. kind = "trace" => line.seq = Len(log) + 1
  BY <1>1 DEF LineOf
<1>5. kind # "trace" => \A i \in DOMAIN log : log[i].item # line.item
  BY <1>1 DEF LineOf, Indexed, MayAppend
<1>. HIDE DEF line
<1>6. InOrder(kind, Append(log, line))
  BY <1>1, <1>3, <1>4, <1>5, OrderOfLonger DEF Indexed
<1>. QED
  BY <1>2, <1>3, <1>6 DEF line

LEMMA RejectedStep ==
    ASSUME TypeOK, Indexed, NEW pos, NEW good, Laid(pos, good), NEW item \in Item,
           MayAppend(item), UNCHANGED <<kind, writer, entry>>,
           NEW w \in Write(Units(LineOf(item))), w.reached = "raised", Rejected(w)
    PROVE  TypeOK' /\ Indexed' /\ Laid(pos, good)'
<1>. DEFINE q == file \o buffer
            n == w.file \o w.buffer
            line == LineOf(item)
<1>1. /\ q \in Seq(Unit) /\ Len(q) \in Nat /\ Len(file) \in Nat
      /\ line \in Line /\ Len(q) + 2 <= MaxUnits
      /\ file \in Seq(Unit) /\ buffer \in Seq(Unit) /\ log \in Seq(Line)
      /\ Len(log) \in Nat /\ disk \in Nat /\ disk <= Len(file) /\ MaxUnits \in Nat
      /\ \A i \in 1..Len(log) : pos[i] \in Nat
  BY UnitsTyped, LineTyped, Joined DEF TypeOK
<1>2. /\ writer = "open" /\ writer' = writer /\ kind' = kind
      /\ entry' \in {"new", "durable", "lost"} /\ entry' # "lost"
  BY DEF MayAppend, TypeOK
<1>3. Takes(w, file, q, line)
  BY <1>1, WriteTakes
<1>4. /\ w.file \in Seq(Unit) /\ w.buffer \in Seq(Unit) /\ Len(file) <= Len(w.file)
      /\ n = q \/ n = q \o <<HeadOf(line)>>
  BY <1>3 DEF Takes, Keeps
<1>5. /\ n \in Seq(Unit) /\ Len(n) = Len(w.file) + Len(w.buffer)
      /\ Len(w.file) \in Nat /\ Len(w.buffer) \in Nat /\ Len(n) \in Nat
  <2>1. /\ n \in Seq(Unit) /\ Len(n) = Len(w.file) + Len(w.buffer)
        /\ Len(w.file) \in Nat /\ Len(w.buffer) \in Nat
    BY <1>4, Joined
  <2>. QED
    BY <2>1, LenProperties
<1>6. /\ Placed(n, log, pos, good)
      /\ n = q \/ Len(n) = Len(q) + 1
  <2>1. CASE n = q
    BY <2>1 DEF Laid
  <2>2. CASE n = q \o <<HeadOf(line)>>
    <3>1. Len(n) = Len(q) + 1
      <4>1. <<HeadOf(line)>> \in Seq(Unit) /\ Len(<<HeadOf(line)>>) = 1
        BY <1>1, UnitsAre
      <4>2. Len(q \o <<HeadOf(line)>>) = Len(q) + Len(<<HeadOf(line)>>)
        BY <1>1, <4>1, Joined
      <4>. QED
        BY <2>2, <4>1, <4>2
    <3>2. \A i \in 1..Len(log) : pos[i] <= Len(q)
      BY <1>2 DEF Laid
    <3>3. Placed(q, log, pos, good)
      BY DEF Laid
    <3>. HIDE DEF q, line
    <3>4. Placed(q \o <<HeadOf(line)>>, log, pos, good)
      BY <1>1, <3>2, <3>3, PlacedHead
    <3>. QED
      BY <2>2, <3>1, <3>4
  <2>. QED
    BY <1>4, <2>1, <2>2
<1>. HIDE DEF q, n, line
<1>7. Len(q) <= Len(n) /\ Len(n) <= MaxUnits
  <2>1. CASE n = q
    BY <1>1, <2>1
  <2>2. CASE Len(n) = Len(q) + 1
    BY <1>1, <2>2
  <2>. QED
    BY <1>6, <2>1, <2>2
<1>8. /\ file' = w.file /\ buffer' = w.buffer
      /\ UNCHANGED <<disk, nextSeq, ids, log, promised>>
      /\ health' = IF health = "sound" /\ Len(q) < Len(n) THEN "cut" ELSE health
  BY DEF Rejected, indexVars, q, n
<1>9. TypeOK'
  <2>1. health' \in {"sound", "cut", "spoilt"}
    BY <1>8 DEF TypeOK
  <2>2. disk' \in 0..Len(file')
    BY <1>1, <1>4, <1>5, <1>8
  <2>3. Len(file') + Len(buffer') <= MaxUnits
    BY <1>5, <1>7, <1>8
  <2>. QED
    BY <1>2, <1>4, <1>8, <2>1, <2>2, <2>3 DEF TypeOK
<1>10. Indexed'
  BY <1>2, <1>8 DEF Indexed
<1>11. Laid(pos, good)'
  <2>1. Placed(file' \o buffer', log', pos, good)
    BY <1>6, <1>8 DEF n
  <2>2. good = Len(log') \/ health' = "spoilt"
    BY <1>8 DEF Laid
  <2>3. \A i \in 1..Len(log') : pos[i] <= Len(file' \o buffer')
    <3>1. \A i \in 1..Len(log) : pos[i] <= Len(q)
      BY <1>2 DEF Laid, q
    <3>2. ASSUME NEW i \in 1..Len(log)
          PROVE  pos[i] <= Len(n)
      <4>1. pos[i] \in Nat /\ pos[i] <= Len(q) /\ Len(q) \in Nat /\ Len(n) \in Nat
        BY <1>1, <1>5, <3>1
      <4>. QED
        BY <1>7, <4>1
    <3>. QED
      BY <1>8, <3>2 DEF n
  <2>4. health' = "sound" => Len(file' \o buffer') = 2 * Len(log')
    <3>. SUFFICES ASSUME health' = "sound" PROVE Len(n) = 2 * Len(log)
      BY <1>8 DEF n
    <3>1. health = "sound" /\ ~(Len(q) < Len(n))
      BY <1>8
    <3>2. n = q
      BY <1>1, <1>6, <3>1
    <3>. QED
      BY <1>2, <3>1, <3>2 DEF Laid, q
  <2>5. \A i \in 1..Len(log) : i <= promised["flush"] => pos[i] <= Len(w.file)
    BY <1>1, <1>4, <1>5 DEF Laid
  <2>6. \A i \in 1..Len(log) : i <= promised["fsync"] => pos[i] <= disk
    BY DEF Laid
  <2>. QED
    BY <1>8, <2>1, <2>2, <2>3, <2>4, <2>5, <2>6 DEF Laid
<1>. QED
  BY <1>9, <1>10, <1>11

\* A line that is accepted is behind what was there, in the file or the buffer.
LEMMA AcceptedKeeps ==
    ASSUME file \in Seq(Unit), buffer \in Seq(Unit), NEW line \in Line,
           NEW durability \in {"buffered", "flush", "fsync"},
           NEW w \in Write(Units(line)), w.reached # "raised",
           NEW v \in Persist(w, durability)
    PROVE  /\ Keeps(v, file, (file \o buffer) \o Units(line))
           /\ v.reached \in {"buffered", "flush", "fsync", "raised"}
           /\ v.reached \in {"flush", "fsync"} => v.buffer = <<>>
<1>. DEFINE n == (file \o buffer) \o Units(line)
<1>1. w.reached = "buffered" /\ Keeps(w, file, n)
  BY WriteTakes DEF Takes
<1>. HIDE DEF n
<1>2. /\ w = Ends(w.file, w.buffer, "buffered")
      /\ w.file \in Seq(Unit) /\ w.buffer \in Seq(Unit)
      /\ w.file \o w.buffer = n /\ Len(file) <= Len(w.file)
  BY <1>1 DEF Keeps
<1>3. /\ Keeps(v, w.file, n)
      /\ v.reached \in {"buffered", "flush", "fsync", "raised"}
      /\ v.reached \in {"flush", "fsync"} => v.buffer = <<>>
  BY <1>2, PersistKeeps
<1>4. Len(file) \in Nat /\ Len(w.file) \in Nat /\ Len(v.file) \in Nat
  BY <1>2, <1>3, LenProperties DEF Keeps
<1>5. Len(file) <= Len(v.file)
  BY <1>2, <1>3, <1>4 DEF Keeps
<1>6. Keeps(v, file, n)
  BY <1>3, <1>5 DEF Keeps
<1>. QED
  BY <1>3, <1>6 DEF n

\* Where the lines are after one more.
Longer(pos) == Further(pos, Len(file \o buffer) + 2, Len(log))
Better(good) == IF Len(file \o buffer) = 2 * good THEN good + 1 ELSE good

LEMMA AcceptedStep ==
    ASSUME TypeOK, Indexed, NEW pos, NEW good, Laid(pos, good), NEW item \in Item,
           NEW durability \in {"buffered", "flush", "fsync"},
           MayAppend(item), UNCHANGED <<kind, writer, entry>>,
           NEW w \in Write(Units(LineOf(item))), w.reached # "raised",
           Accepted(LineOf(item), w, durability)
    PROVE  TypeOK' /\ Indexed' /\ \E p, g : Laid(p, g)' /\ good <= g
<1>. DEFINE q == file \o buffer
            line == LineOf(item)
            n == q \o Units(line)
            L == Len(log)
<1>. PICK further, better : further = Longer(pos) /\ better = Better(good)
  OBVIOUS
<1>1. /\ q \in Seq(Unit) /\ Len(q) \in Nat /\ Len(file) \in Nat /\ Len(file) <= Len(q)
      /\ line \in Line /\ Len(q) + 2 <= MaxUnits
      /\ file \in Seq(Unit) /\ buffer \in Seq(Unit) /\ log \in Seq(Line)
      /\ L \in Nat /\ disk \in Nat /\ disk <= Len(file) /\ MaxUnits \in Nat
      /\ \A i \in 1..L : pos[i] \in Nat
      /\ good \in 0..L /\ InOrder(kind, Append(log, line))
      /\ promised["flush"] \in 0..L /\ promised["fsync"] \in 0..L
  BY UnitsTyped, LineTyped, Joined DEF TypeOK
<1>2. /\ writer = "open" /\ writer' = writer /\ kind' = kind
      /\ entry' \in {"new", "durable", "lost"} /\ entry' # "lost"
  BY DEF MayAppend, TypeOK
<1>3. /\ \A i \in 1..L : pos[i] <= Len(q)
      /\ 2 * L <= Len(q)
  BY <1>2, UnitsTyped DEF Laid
<1>4. PICK v \in Persist(w, durability) :
         /\ file' = v.file
         /\ buffer' = v.buffer
         /\ disk' = IF v.reached = "fsync" THEN Len(v.file) ELSE disk
         /\ promised' = [d \in {"flush", "fsync"} |->
                            IF v.reached \in {d, "fsync"} THEN Len(log') ELSE promised[d]]
  BY DEF Accepted
<1>5. /\ Keeps(v, file, n)
      /\ v.reached \in {"buffered", "flush", "fsync", "raised"}
      /\ v.reached \in {"flush", "fsync"} => v.buffer = <<>>
  BY <1>1, <1>4, AcceptedKeeps
<1>6. n \in Seq(Unit) /\ Len(n) = Len(q) + 2
  BY <1>1, LineJoined
<1>7. /\ file' \in Seq(Unit) /\ buffer' \in Seq(Unit) /\ file' \o buffer' = n
      /\ Len(file') \in Nat /\ Len(file) <= Len(file')
      /\ Len(file') + Len(buffer') = Len(q) + 2
      /\ v.reached \in {"flush", "fsync"} => file' = n
  <2>1. Len(v.file) \in Nat
    BY <1>5, LenProperties DEF Keeps
  <2>. HIDE DEF n
  <2>2. Len(v.file) + Len(v.buffer) = Len(n) /\ (v.buffer = <<>> => v.file = n)
    BY <1>5, KeepsPrefix
  <2>. QED
    BY <1>4, <1>5, <1>6, <2>1, <2>2 DEF Keeps
<1>8. Placed(n, Append(log, line), further, better)
  <2>1. Placed(q, log, pos, good)
    BY DEF Laid
  <2>2. Placed(q \o Units(line), Append(log, line), Further(pos, Len(q) + 2, Len(log)),
               IF Len(q) = 2 * good THEN good + 1 ELSE good)
    <3>. HIDE DEF q, line
    <3>. QED
      BY <1>1, <1>3, <2>1, PlacedLine
  <2>. QED
    BY <2>2 DEF Longer, Better
<1>9. /\ further[L + 1] = Len(q) + 2
      /\ \A i \in 1..L : further[i] = pos[i]
  BY <1>1 DEF Further, Longer
<1>10. /\ log' = Append(log, line) /\ log' \in Seq(Line) /\ Len(log') = L + 1
       /\ log'[L + 1] = line /\ DOMAIN log' = 1..(L + 1) /\ DOMAIN log = 1..L
       /\ \A i \in 1..L : log'[i] = log[i]
       /\ health' = IF health = "sound" THEN "sound" ELSE "spoilt"
       /\ nextSeq' = nextSeq + 1
       /\ ids' = IF kind = "evidence" THEN ids \cup {line.item} ELSE ids
  BY <1>1, AppendProperties DEF Accepted
<1>11. line.item = item
  BY DEF LineOf
<1>12. better = IF Len(q) = 2 * good THEN good + 1 ELSE good
  BY DEF Better
<1>. HIDE DEF q, line, n, L
<1>13. ASSUME NEW d \in {"flush", "fsync"}
       PROVE  /\ promised'[d] = IF v.reached \in {d, "fsync"} THEN L + 1 ELSE promised[d]
              /\ promised'[d] \in 0..(L + 1)
  BY <1>1, <1>4, <1>10
<1>14. TypeOK'
  <2>1. disk' \in 0..Len(file')
    BY <1>1, <1>4, <1>7
  <2>2. promised' \in [{"flush", "fsync"} -> 0..Len(log')]
    BY <1>4, <1>10, <1>13
  <2>3. nextSeq' = Len(log') + 1 /\ ids' \subseteq Item
    BY <1>10, <1>11 DEF TypeOK, L
  <2>4. Len(file') + Len(buffer') <= MaxUnits
    BY <1>1, <1>7
  <2>5. /\ kind' \in {"trace", "evidence"} /\ writer' \in {"open", "closed", "dead"}
        /\ health' \in {"sound", "cut", "spoilt"}
    BY <1>2, <1>10 DEF TypeOK
  <2>. QED
    BY <1>2, <1>7, <1>10, <2>1, <2>2, <2>3, <2>4, <2>5 DEF TypeOK
<1>15. Indexed'
  <2>1. promised'["fsync"] <= promised'["flush"]
    <3>1. promised["fsync"] <= promised["flush"]
      BY DEF Indexed
    <3>2. CASE v.reached = "fsync"
      BY <1>1, <1>13, <3>2
    <3>3. CASE v.reached # "fsync"
      BY <1>1, <1>13, <3>1, <3>3
    <3>. QED
      BY <3>2, <3>3
  <2>2. kind = "evidence" => ids' = {log'[i].item : i \in DOMAIN log'}
    <3>. SUFFICES ASSUME kind = "evidence" PROVE ids' = {log'[i].item : i \in 1..(L + 1)}
      BY <1>10
    <3>1. ids = {log[i].item : i \in 1..L}
      BY <1>10 DEF Indexed
    <3>2. ids' = ids \cup {log'[L + 1].item}
      BY <1>10
    <3>3. 1..(L + 1) = (1..L) \cup {L + 1}
      BY <1>1
    <3>. QED
      BY <1>10, <3>1, <3>2, <3>3
  <2>. QED
    BY <1>1, <1>2, <1>10, <2>1, <2>2 DEF Indexed
<1>16. Laid(further, better)'
  <2>1. Placed(file' \o buffer', log', further, better)
    BY <1>7, <1>8, <1>10
  <2>2. better = Len(log') \/ health' = "spoilt"
    <3>1. CASE health = "sound"
      <4>1. good = L /\ Len(q) = 2 * L
        BY <1>2, <3>1 DEF Laid, L, q
      <4>. QED
        BY <1>10, <1>12, <4>1
    <3>2. CASE health # "sound"
      BY <1>10, <3>2
    <3>. QED
      BY <3>1, <3>2
  <2>3. ASSUME NEW i \in 1..(L + 1)
        PROVE  i = L + 1 \/ (i \in 1..L /\ further[i] = pos[i] /\ pos[i] \in Nat)
    BY <1>1, <1>9
  <2>4. \A i \in 1..(L + 1) : further[i] <= Len(n)
    <3>. SUFFICES ASSUME NEW i \in 1..(L + 1) PROVE further[i] <= Len(n)
      OBVIOUS
    <3>1. CASE i = L + 1
      BY <1>1, <1>6, <1>9, <3>1
    <3>2. CASE i \in 1..L
      <4>1. further[i] = pos[i] /\ pos[i] \in Nat /\ pos[i] <= Len(q)
        BY <1>1, <1>3, <1>9, <3>2
      <4>. QED
        BY <1>1, <1>6, <4>1
    <3>. QED
      BY <2>3, <3>1, <3>2
  <2>5. health' = "sound" => Len(n) = 2 * (L + 1)
    <3>. SUFFICES ASSUME health' = "sound" PROVE Len(n) = 2 * (L + 1)
      OBVIOUS
    <3>1. health = "sound"
      BY <1>10
    <3>2. Len(q) = 2 * L
      BY <1>2, <3>1 DEF Laid, L, q
    <3>. QED
      BY <1>1, <1>6, <3>2
  <2>6. ASSUME NEW i \in 1..(L + 1), i <= promised'["flush"]
        PROVE  further[i] <= Len(file')
    <3>1. CASE v.reached \in {"flush", "fsync"}
      BY <1>7, <2>4, <3>1
    <3>2. CASE v.reached \notin {"flush", "fsync"}
      <4>1. i <= promised["flush"] /\ promised["flush"] \in 0..L
        BY <1>1, <1>13, <2>6, <3>2
      <4>2. i \in 1..L /\ further[i] = pos[i] /\ pos[i] \in Nat
        BY <1>1, <2>3, <4>1
      <4>3. pos[i] <= Len(file)
        BY <4>1, <4>2 DEF Laid, L
      <4>. QED
        BY <1>1, <1>7, <4>2, <4>3
    <3>. QED
      BY <3>1, <3>2
  <2>7. ASSUME NEW i \in 1..(L + 1), i <= promised'["fsync"]
        PROVE  further[i] <= disk'
    <3>1. CASE v.reached = "fsync"
      <4>1. disk' = Len(n)
        BY <1>4, <1>7, <3>1
      <4>. QED
        BY <2>4, <4>1
    <3>2. CASE v.reached # "fsync"
      <4>1. i <= promised["fsync"] /\ promised["fsync"] \in 0..L
        BY <1>1, <1>13, <2>7, <3>2
      <4>2. i \in 1..L /\ further[i] = pos[i] /\ pos[i] \in Nat
        BY <1>1, <2>3, <4>1
      <4>3. pos[i] <= disk
        BY <4>1, <4>2 DEF Laid, L
      <4>. QED
        BY <1>4, <3>2, <4>2, <4>3
    <3>. QED
      BY <3>1, <3>2
  <2>. QED
    BY <1>7, <1>10, <2>1, <2>2, <2>4, <2>5, <2>6, <2>7 DEF Laid
<1>17. good <= better
  BY <1>1, <1>12
<1>. QED
  BY <1>14, <1>15, <1>16, <1>17

\* The end of the writer, or of the power: the buffer is gone, the file is a
\* part of what was written, and what is still promised is in it.
LEMMA EndedStep ==
    ASSUME TypeOK, Indexed, NEW pos, NEW good, Laid(pos, good),
           writer' \in {"closed", "dead"}, buffer' = <<>>,
           entry' \in {"new", "durable", "lost"},
           file' \in Seq(Unit), Prefix(file', file \o buffer),
           UNCHANGED <<kind, disk, nextSeq, ids, log, health>>, disk <= Len(file'),
           promised' \in [{"flush", "fsync"} -> 0..Len(log)],
           promised'["fsync"] = promised["fsync"],
           promised'["fsync"] <= promised'["flush"],
           \A i \in 1..Len(log) : i <= promised'["flush"] => pos[i] <= Len(file')
    PROVE  TypeOK' /\ Indexed' /\ Laid(pos, good)'
<1>1. /\ <<>> \in Seq(Unit) /\ Len(<<>>) = 0
      /\ file' \o buffer' = file' /\ Len(file') \in Nat
  BY EmptySeq, ConcatEmptySeq, LenProperties
<1>2. /\ file \o buffer \in Seq(Unit) /\ Len(file \o buffer) = Len(file) + Len(buffer)
      /\ log \in Seq(Line) /\ disk \in Nat /\ MaxUnits \in Nat
      /\ Len(file) + Len(buffer) <= MaxUnits /\ Len(file) + Len(buffer) \in Nat
  BY UnitsTyped DEF TypeOK
<1>3. Len(file') <= MaxUnits
  <2>1. Len(file') <= Len(file) + Len(buffer)
    BY <1>2 DEF Prefix
  <2>. QED
    BY <1>1, <1>2, <2>1
<1>4. TypeOK'
  <2>1. disk' \in 0..Len(file')
    BY <1>1, <1>2
  <2>2. Len(file') + Len(buffer') <= MaxUnits
    BY <1>1, <1>3
  <2>. QED
    BY <1>1, <2>1, <2>2 DEF TypeOK
<1>5. Indexed'
  BY DEF Indexed
<1>6. Laid(pos, good)'
  <2>1. Placed(file \o buffer, log, pos, good)
    BY DEF Laid
  <2>2. Placed(file', log, pos, good)
    BY <1>2, <2>1, PlacedPrefix
  <2>3. \A i \in 1..Len(log) : i <= promised["fsync"] => pos[i] <= disk
    BY DEF Laid
  <2>4. good = Len(log) \/ health = "spoilt"
    BY DEF Laid
  <2>. QED
    BY <1>1, <2>2, <2>3, <2>4 DEF Laid
<1>. QED
  BY <1>4, <1>5, <1>6

LEMMA CloseStep ==
    ASSUME TypeOK, Indexed, NEW pos, NEW good, Laid(pos, good), Close
    PROVE  TypeOK' /\ Indexed' /\ Laid(pos, good)'
<1>1. PICK w \in Drain(file, buffer) :
         /\ file' = w.file
         /\ promised' = IF w.reached = "raised" THEN promised
                        ELSE [promised EXCEPT !["flush"] = Len(log)]
  BY DEF Close
<1>2. /\ writer = "open" /\ writer' = "closed" /\ buffer' = <<>>
      /\ entry' \in {"new", "durable", "lost"}
      /\ UNCHANGED <<kind, disk, nextSeq, ids, log, health>>
  BY DEF Close, indexVars, TypeOK
<1>3. /\ file \in Seq(Unit) /\ buffer \in Seq(Unit) /\ Len(file) \in Nat
      /\ Len(log) \in Nat /\ disk \in Nat /\ disk <= Len(file)
      /\ promised["flush"] \in 0..Len(log) /\ promised["fsync"] \in 0..Len(log)
      /\ \A i \in 1..Len(log) : pos[i] \in Nat
      /\ promised \in [{"flush", "fsync"} -> 0..Len(log)]
  BY UnitsTyped DEF TypeOK
<1>4. /\ Keeps(w, file, file \o buffer)
      /\ w.reached \in {"flush", "raised"}
      /\ w.reached = "flush" => w.buffer = <<>>
  BY <1>3, DrainKeeps
<1>5. /\ w.file \in Seq(Unit) /\ Prefix(w.file, file \o buffer) /\ Len(file) <= Len(w.file)
      /\ Len(w.file) \in Nat
      /\ w.reached = "flush" => w.file = file \o buffer
  <2>1. w.file \in Seq(Unit) /\ Len(file) <= Len(w.file)
    BY <1>4 DEF Keeps
  <2>2. Len(w.file) \in Nat
    BY <2>1, LenProperties
  <2>. QED
    BY <1>4, <2>1, <2>2, KeepsPrefix
<1>6. disk <= Len(file')
  BY <1>1, <1>3, <1>5
<1>7. /\ promised' \in [{"flush", "fsync"} -> 0..Len(log)]
      /\ promised'["fsync"] = promised["fsync"]
      /\ promised'["fsync"] <= promised'["flush"]
  <2>1. CASE w.reached = "raised"
    BY <1>1, <1>3, <2>1 DEF Indexed
  <2>2. CASE w.reached = "flush"
    <3>1. promised' = [promised EXCEPT !["flush"] = Len(log)]
      BY <1>1, <2>2
    <3>2. promised'["flush"] = Len(log) /\ promised'["fsync"] = promised["fsync"]
      BY <1>3, <3>1
    <3>. QED
      BY <1>3, <3>1, <3>2
  <2>. QED
    BY <1>4, <2>1, <2>2
<1>8. ASSUME NEW i \in 1..Len(log), i <= promised'["flush"]
      PROVE  pos[i] <= Len(file')
  <2>1. CASE w.reached = "raised"
    <3>1. pos[i] <= Len(file)
      BY <1>1, <1>8, <2>1 DEF Laid
    <3>. QED
      BY <1>1, <1>3, <1>5, <3>1
  <2>2. CASE w.reached = "flush"
    BY <1>1, <1>2, <1>5, <2>2 DEF Laid
  <2>. QED
    BY <1>4, <2>1, <2>2
<1>9. file' \in Seq(Unit) /\ Prefix(file', file \o buffer)
  BY <1>1, <1>5
<1>. QED
  BY <1>2, <1>6, <1>7, <1>8, <1>9, EndedStep

LEMMA DieStep ==
    ASSUME TypeOK, Indexed, NEW pos, NEW good, Laid(pos, good), Die
    PROVE  TypeOK' /\ Indexed' /\ Laid(pos, good)'
<1>1. /\ writer' = "dead" /\ buffer' = <<>> /\ file' = file
      /\ entry' \in {"new", "durable", "lost"}
      /\ UNCHANGED <<kind, disk, nextSeq, ids, log, health, promised>>
  BY DEF Die, indexVars, historyVars, TypeOK
<1>2. /\ file' \in Seq(Unit) /\ Prefix(file', file \o buffer) /\ disk <= Len(file')
      /\ promised \in [{"flush", "fsync"} -> 0..Len(log)]
  BY <1>1, UnitsTyped DEF TypeOK
<1>3. /\ promised'["fsync"] <= promised'["flush"]
      /\ \A i \in 1..Len(log) : i <= promised'["flush"] => pos[i] <= Len(file')
  BY <1>1 DEF Indexed, Laid
<1>. QED
  BY <1>1, <1>2, <1>3, EndedStep

LEMMA PowerLossStep ==
    ASSUME TypeOK, Indexed, NEW pos, NEW good, Laid(pos, good), PowerLoss
    PROVE  TypeOK' /\ Indexed' /\ Laid(pos, good)'
<1>1. PICK n \in disk..Len(file) : file' = SubSeq(file, 1, n)
  BY DEF PowerLoss
<1>2. /\ writer' \in {"closed", "dead"} /\ buffer' = <<>>
      /\ entry' \in {"new", "durable", "lost"}
      /\ UNCHANGED <<kind, disk, nextSeq, ids, log, health>>
      /\ promised' = [promised EXCEPT !["flush"] = promised["fsync"]]
  BY DEF PowerLoss, indexVars, TypeOK
<1>3. /\ file \in Seq(Unit) /\ Len(file) \in Nat /\ disk \in Nat /\ n \in Nat
      /\ disk <= n /\ n <= Len(file) /\ Prefix(file, file \o buffer)
      /\ promised \in [{"flush", "fsync"} -> 0..Len(log)]
      /\ Len(file \o buffer) \in Nat
  BY UnitsTyped, LenProperties DEF TypeOK
<1>4. /\ file' \in Seq(Unit) /\ Len(file') = n
      /\ \A i \in 1..n : file'[i] = file[i]
  <2>. DEFINE p == SubSeq(file, 1, n)
  <2>1. 1 \in Int /\ n \in Int /\ \A i \in 1..n : file[i] \in Unit
    BY <1>3, ElementOfSeq
  <2>2. /\ p \in Seq(Unit) /\ Len(p) = IF 1 <= n THEN n - 1 + 1 ELSE 0
        /\ \A i \in 1..(n - 1 + 1) : p[i] = file[1 + i - 1]
    BY <2>1, SubSeqProperties
  <2>. HIDE DEF p
  <2>3. Len(p) = n
    BY <1>3, <2>2
  <2>4. \A i \in 1..n : p[i] = file[i]
    BY <1>3, <2>2
  <2>5. file' = p
    BY <1>1 DEF p
  <2>. QED
    BY <2>2, <2>3, <2>4, <2>5
<1>5. Prefix(file', file \o buffer)
  <2>1. Len(file') <= Len(file \o buffer)
    BY <1>3, <1>4 DEF Prefix
  <2>2. \A i \in 1..Len(file') : file'[i] = (file \o buffer)[i]
    BY <1>3, <1>4 DEF Prefix
  <2>. QED
    BY <2>1, <2>2 DEF Prefix
<1>6. /\ promised' \in [{"flush", "fsync"} -> 0..Len(log)]
      /\ promised'["fsync"] = promised["fsync"] /\ promised'["flush"] = promised["fsync"]
      /\ promised["fsync"] \in Nat
  BY <1>2, <1>3
<1>7. ASSUME NEW i \in 1..Len(log), i <= promised'["flush"]
      PROVE  pos[i] <= Len(file')
  <2>1. pos[i] <= disk /\ pos[i] \in Nat
    BY <1>6, <1>7, UnitsTyped DEF Laid
  <2>. QED
    BY <1>3, <1>4, <2>1
<1>8. promised'["fsync"] <= promised'["flush"] /\ disk <= Len(file')
  BY <1>3, <1>4, <1>6
<1>. QED
  BY <1>2, <1>4, <1>5, <1>6, <1>7, <1>8, EndedStep

LEMMA SyncDirectoryStep ==
    ASSUME TypeOK, Indexed, NEW pos, NEW good, Laid(pos, good), SyncDirectory
    PROVE  TypeOK' /\ Indexed' /\ Laid(pos, good)'
<1>1. /\ entry' = "durable"
      /\ UNCHANGED <<kind, writer, file, buffer, disk, nextSeq, ids, log, promised, health>>
  BY DEF SyncDirectory, indexVars, historyVars
<1>2. TypeOK'
  BY <1>1 DEF TypeOK
<1>3. Indexed'
  BY <1>1 DEF Indexed
<1>4. Laid(pos, good)'
  BY <1>1 DEF Laid
<1>. QED
  BY <1>2, <1>3, <1>4

LEMMA Step ==
    ASSUME TypeOK, Indexed, NEW pos, NEW good, Laid(pos, good), [Next]_vars
    PROVE  TypeOK' /\ Indexed' /\ \E p, g : Laid(p, g)' /\ good <= g
<1>1. good <= good
  BY UnitsTyped
<1>2. ASSUME NEW item \in Item, NEW durability \in {"buffered", "flush", "fsync"},
             AppendLine(item, durability)
      PROVE  TypeOK' /\ Indexed' /\ \E p, g : Laid(p, g)' /\ good <= g
  <2>1. PICK w \in Write(Units(LineOf(item))) :
           IF w.reached = "raised" THEN Rejected(w) ELSE Accepted(LineOf(item), w, durability)
    BY <1>2 DEF AppendLine
  <2>2. MayAppend(item) /\ UNCHANGED <<kind, writer, entry>>
    BY <1>2 DEF AppendLine
  <2>3. CASE w.reached = "raised"
    <3>1. TypeOK' /\ Indexed' /\ Laid(pos, good)'
      BY <2>1, <2>2, <2>3, RejectedStep
    <3>. QED
      BY <1>1, <3>1
  <2>4. CASE w.reached # "raised"
    BY <2>1, <2>2, <2>4, AcceptedStep
  <2>. QED
    BY <2>3, <2>4
<1>3. CASE Close \/ SyncDirectory \/ Die \/ PowerLoss
  <2>1. TypeOK' /\ Indexed' /\ Laid(pos, good)'
    BY <1>3, CloseStep, SyncDirectoryStep, DieStep, PowerLossStep
  <2>. QED
    BY <1>1, <2>1
<1>4. CASE UNCHANGED vars
  <2>. USE DEF vars, fileVars, indexVars, historyVars
  <2>1. TypeOK'
    BY <1>4 DEF TypeOK
  <2>2. Indexed'
    BY <1>4 DEF Indexed
  <2>3. Laid(pos, good)'
    BY <1>4 DEF Laid
  <2>. QED
    BY <1>1, <2>1, <2>2, <2>3
<1>. QED
  BY <1>2, <1>3, <1>4 DEF Next

-----------------------------------------------------------------------------
(* What a reader is shown *)

LEMMA ShownIs ==
    ASSUME NEW f \in Seq(Unit), NEW lines \in Seq(Line), NEW pos, NEW good,
           Placed(f, lines, pos, good), NEW what, InOrder(what, lines),
           NEW least \in 0..Len(lines),
           \A i \in 1..Len(lines) : i <= least => pos[i] <= Len(f)
    PROVE  \/ good < Len(lines) /\ Read(what, f) = None
           \/ \E n \in least..good :
                 /\ 2 * n <= Len(f)
                 /\ n = good \/ Len(f) < 2 * n + 2
                 /\ Read(what, f) = SubSeq(lines, 1, n)
                 /\ Read(what, f) # None /\ Len(Read(what, f)) = n
<1>1. Len(lines) \in Nat /\ good \in 0..Len(lines) /\ least \in Nat
  BY DEF Placed
<1>2. ASSUME NEW n \in 0..good, ReadsUpTo(f, lines, pos, good, n, what)
      PROVE  /\ n \in least..good
             /\ 2 * n <= Len(f)
             /\ n = good \/ Len(f) < 2 * n + 2
             /\ Read(what, f) = SubSeq(lines, 1, n)
             /\ Read(what, f) # None /\ Len(Read(what, f)) = n
  <2>1. n \in least..good
    <3>1. CASE least = 0
      BY <1>1, <3>1
    <3>2. CASE least # 0
      <4>1. least \in 1..Len(lines) /\ pos[least] <= Len(f)
        BY <1>1, <3>2
      <4>2. least <= n
        BY <1>2, <4>1 DEF ReadsUpTo
      <4>. QED
        BY <1>1, <4>2
    <3>. QED
      BY <3>1, <3>2
  <2>2. n \in 0..Len(lines)
    BY <1>1
  <2>3. SubSeq(lines, 1, n) \in Seq(Line) /\ Len(SubSeq(lines, 1, n)) = n
    BY <2>2, OrderOfPart
  <2>. QED
    BY <1>2, <2>1, <2>3, NoneAssumption DEF ReadsUpTo
<1>. QED
  BY <1>2, ReadPlaced

\* The file holds the lines as far as it reaches.
LEMMA FilePlaced ==
    ASSUME NEW f \in Seq(Unit), NEW b \in Seq(Unit), NEW lines \in Seq(Line),
           NEW pos, NEW good, Placed(f \o b, lines, pos, good)
    PROVE  Placed(f, lines, pos, good)
<1>. DEFINE q == f \o b
<1>1. q \in Seq(Unit) /\ Prefix(f, q)
  BY Joined, PrefixOfJoined
<1>2. Placed(q, lines, pos, good)
  OBVIOUS
<1>. HIDE DEF q
<1>. QED
  BY <1>1, <1>2, PlacedPrefix

LEMMA AlwaysIInv == Spec => []IInv
<1>1. IInv /\ [Next]_vars => IInv'
  <2>. SUFFICES ASSUME IInv, [Next]_vars PROVE IInv'
    OBVIOUS
  <2>1. PICK pos, good : Laid(pos, good)
    BY DEF IInv
  <2>2. TypeOK' /\ Indexed' /\ \E p, g : Laid(p, g)'
    BY <2>1, Step DEF IInv
  <2>. QED
    BY <2>2 DEF IInv
<1>. QED
  BY <1>1, InitIInv, PTL DEF Spec

\* For any lines and bounds: the type invariant, the bound on the units and the
\* number of the next line included.
THEOREM TypeCorrect == Spec => []TypeOK
<1>1. IInv => TypeOK
  BY DEF IInv
<1>. QED
  BY <1>1, AlwaysIInv, PTL

\* Whatever raised, was tried again or was interrupted, the reader accepts the
\* file, unless a line was accepted after an append that left half of a large
\* line in the file, or a power loss took the new file itself.
THEOREM FileAccepted == Spec => []ReaderAccepts
<1>1. IInv => ReaderAccepts
  <2>. SUFFICES ASSUME IInv, health # "spoilt" PROVE Read(kind, file) # None
    BY DEF ReaderAccepts, Shown
  <2>1. PICK pos, good : Laid(pos, good)
    BY DEF IInv
  <2>2. /\ file \in Seq(Unit) /\ buffer \in Seq(Unit) /\ log \in Seq(Line)
        /\ InOrder(kind, log) /\ Len(log) \in Nat /\ good = Len(log)
    BY <2>1 DEF IInv, TypeOK, Indexed, Laid
  <2>3. Placed(file, log, pos, good)
    BY <2>1, <2>2, FilePlaced DEF Laid
  <2>4. 0 \in 0..Len(log) /\ ~(good < Len(log))
        /\ \A i \in 1..Len(log) : i <= 0 => pos[i] <= Len(file)
    BY <2>2
  <2>. QED
    BY <2>2, <2>3, <2>4, ShownIs
<1>. QED
  BY <1>1, AlwaysIInv, PTL

\* While the writer is open, each line that its index has is in the file or in
\* the buffer as a whole, and nothing else is.
THEOREM IndexIsRight == Spec => []ClaimsAreWritten
<1>1. IInv => ClaimsAreWritten
  <2>. SUFFICES ASSUME IInv, writer = "open", health = "sound"
                PROVE  /\ Read(kind, file \o buffer) = log
                       /\ kind = "evidence" => ids = {log[i].item : i \in DOMAIN log}
    BY DEF ClaimsAreWritten
  <2>. DEFINE q == file \o buffer
  <2>1. PICK pos, good : Laid(pos, good)
    BY DEF IInv
  <2>2. /\ q \in Seq(Unit) /\ log \in Seq(Line) /\ Len(log) \in Nat
        /\ InOrder(kind, log) /\ Placed(q, log, pos, good)
        /\ good = Len(log) /\ Len(q) = 2 * Len(log)
    BY <2>1, UnitsTyped DEF IInv, TypeOK, Indexed, Laid
  <2>. HIDE DEF q
  <2>3. PICK n \in 0..good : ReadsUpTo(q, log, pos, good, n, kind)
    BY <2>2, ReadPlaced
  <2>4. n = Len(log)
    BY <2>2, <2>3 DEF ReadsUpTo
  <2>5. Read(kind, q) = log
    BY <2>2, <2>3, <2>4, SubSeqFull DEF ReadsUpTo
  <2>. QED
    BY <2>5 DEF q, IInv, Indexed
<1>. QED
  BY <1>1, AlwaysIInv, PTL

-----------------------------------------------------------------------------
(* Refinement of Journal *)

\* A reader is given the lines that are in the file without anything between.
Given(shown, f, lines, good, least) ==
    \E n \in least..good :
       /\ 2 * n <= Len(f)
       /\ n = good \/ Len(f) < 2 * n + 2
       /\ shown = SubSeq(lines, 1, n)
       /\ shown # None /\ Len(shown) = n

LEMMA ReadGiven ==
    ASSUME NEW f \in Seq(Unit), NEW b \in Seq(Unit), NEW lines \in Seq(Line),
           NEW pos, NEW good, Placed(f \o b, lines, pos, good),
           NEW what, InOrder(what, lines), NEW least \in 0..Len(lines),
           \A i \in 1..Len(lines) : i <= least => pos[i] <= Len(f)
    PROVE  \/ good < Len(lines) /\ Read(what, f) = None
           \/ Given(Read(what, f), f, lines, good, least)
<1>1. Placed(f, lines, pos, good)
  BY FilePlaced
<1>. QED
  BY <1>1, ShownIs DEF Given

\* A longer file gives at least as many lines.
LEMMA GivenMore ==
    ASSUME NEW f \in Seq(Unit), NEW h \in Seq(Unit), Len(f) <= Len(h),
           NEW lines, NEW more, NEW least, NEW most,
           NEW good \in Nat, NEW better \in Nat, good <= better,
           least \in Nat, most \in Nat,
           NEW s, NEW t, Given(s, f, lines, good, least), Given(t, h, more, better, most)
    PROVE  Len(s) <= Len(t)
<1>1. PICK n \in least..good : 2 * n <= Len(f) /\ Len(s) = n
  BY DEF Given
<1>2. PICK m \in most..better : (m = better \/ Len(h) < 2 * m + 2) /\ Len(t) = m
  BY DEF Given
<1>3. Len(f) \in Nat /\ Len(h) \in Nat
  BY LenProperties
<1>. QED
  BY <1>1, <1>2, <1>3

LEMMA ShowsGiven ==
    ASSUME TypeOK, Indexed, NEW pos, NEW good, Laid(pos, good)
    PROVE  \/ health = "spoilt" /\ Read(kind, file) = None
           \/ Given(Read(kind, file), file, log, good, promised["flush"])
<1>1. /\ file \in Seq(Unit) /\ buffer \in Seq(Unit) /\ log \in Seq(Line)
      /\ promised["flush"] \in 0..Len(log) /\ Len(log) \in Nat
      /\ InOrder(kind, log) /\ Placed(file \o buffer, log, pos, good)
      /\ \A i \in 1..Len(log) : i <= promised["flush"] => pos[i] <= Len(file)
      /\ good = Len(log) \/ health = "spoilt"
  BY DEF TypeOK, Indexed, Laid
<1>2. \/ good < Len(log) /\ Read(kind, file) = None
      \/ Given(Read(kind, file), file, log, good, promised["flush"])
  BY <1>1, ReadGiven
<1>. QED
  BY <1>1, <1>2

\* The same of the next state.
LEMMA ShowsGivenNext ==
    ASSUME TypeOK', Indexed', NEW pos, NEW good, Laid(pos, good)'
    PROVE  \/ health' = "spoilt" /\ Read(kind', file') = None
           \/ Given(Read(kind', file'), file', log', good, promised'["flush"])
<1>1. /\ file' \in Seq(Unit) /\ buffer' \in Seq(Unit) /\ log' \in Seq(Line)
      /\ promised'["flush"] \in 0..Len(log') /\ Len(log') \in Nat
      /\ InOrder(kind', log') /\ Placed(file' \o buffer', log', pos, good)
      /\ \A i \in 1..Len(log') : i <= promised'["flush"] => pos[i] <= Len(file')
      /\ good = Len(log') \/ health' = "spoilt"
  BY DEF TypeOK, Indexed, Laid
<1>2. \/ good < Len(log') /\ Read(kind', file') = None
      \/ Given(Read(kind', file'), file', log', good, promised'["flush"])
  BY <1>1, ReadGiven
<1>. QED
  BY <1>1, <1>2

\* What a reader is given is a part of what was accepted, as long as was
\* promised at least.
LEMMA ShowsMap ==
    ASSUME TypeOK', Indexed', NEW pos, NEW good, Laid(pos, good)', entry' # "lost"
    PROVE  Promises!Shows(promised'["flush"])
<1>. Shown' = Read(kind', file')
  BY DEF Shown
<1>1. /\ promised'["flush"] \in 0..Len(log') /\ Len(log') \in Nat
      /\ good \in 0..Len(log')
  BY DEF TypeOK, Laid, Placed
<1>2. CASE health' = "spoilt" /\ Read(kind', file') = None
  BY <1>2 DEF Promises!Shows
<1>3. CASE Given(Read(kind', file'), file', log', good, promised'["flush"])
  <2>1. PICK n \in promised'["flush"]..good : Read(kind', file') = SubSeq(log', 1, n)
    BY <1>3 DEF Given
  <2>2. n \in promised'["flush"]..Len(log')
    BY <1>1
  <2>. QED
    BY <2>1, <2>2 DEF Promises!Shows
<1>. QED
  BY <1>2, <1>3, ShowsGivenNext

\* A step that leaves the file at least as long, and takes back no promise.
LEMMA WriteMaps ==
    ASSUME TypeOK, Indexed, NEW pos, NEW good, Laid(pos, good),
           TypeOK', Indexed', NEW p, NEW g, Laid(p, g)', good <= g,
           kind' = kind, entry' = entry, entry # "lost", Len(file) <= Len(file'),
           promised["flush"] <= promised'["flush"],
           promised["fsync"] <= promised'["fsync"],
           Promises!Break \/ (\E l \in Line : Promises!Accept(l)) \/ UNCHANGED <<log, health>>
    PROVE  Promises!Write
<1>. Shown = Read(kind, file) /\ Shown' = Read(kind', file')
  BY DEF Shown
<1>1. /\ promised["flush"] \in Nat /\ promised["fsync"] \in Nat
      /\ promised'["flush"] \in 0..Len(log') /\ promised'["fsync"] \in 0..Len(log')
      /\ promised'["fsync"] <= promised'["flush"] /\ Len(log') \in Nat
      /\ file \in Seq(Unit) /\ file' \in Seq(Unit)
      /\ good \in Nat /\ g \in Nat
  BY DEF TypeOK, Indexed, Laid, Placed
<1>2. Read(kind, file) # None /\ Read(kind', file') # None =>
        Len(Read(kind, file)) <= Len(Read(kind', file'))
  <2>. SUFFICES ASSUME Read(kind, file) # None, Read(kind', file') # None
                PROVE  Len(Read(kind, file)) <= Len(Read(kind', file'))
    OBVIOUS
  <2>1. Given(Read(kind, file), file, log, good, promised["flush"])
    BY ShowsGiven
  <2>2. Given(Read(kind', file'), file', log', g, promised'["flush"])
    BY ShowsGivenNext
  <2>3. promised'["flush"] \in Nat
    BY <1>1
  <2>. QED
    BY <1>1, <2>1, <2>2, <2>3, GivenMore
<1>3. Promises!Shows(promised'["flush"])
  BY ShowsMap
<1>4. /\ promised'["fsync"] \in promised["fsync"]..Len(log')
      /\ promised'["flush"] \in
            (promised["flush"]..Len(log')) \cap (promised'["fsync"]..Len(log'))
  BY <1>1
<1>. QED
  BY <1>2, <1>3, <1>4 DEF Promises!Write

LEMMA RejectedMaps ==
    ASSUME TypeOK, Indexed, NEW pos, NEW good, Laid(pos, good), NEW item \in Item,
           MayAppend(item), UNCHANGED <<kind, writer, entry>>,
           NEW w \in Write(Units(LineOf(item))), w.reached = "raised", Rejected(w)
    PROVE  Promises!Write
<1>1. TypeOK' /\ Indexed' /\ Laid(pos, good)'
  BY RejectedStep
<1>2. /\ file \in Seq(Unit) /\ buffer \in Seq(Unit) /\ LineOf(item) \in Line
      /\ good <= good /\ promised["flush"] \in Nat /\ promised["fsync"] \in Nat
  BY UnitsTyped, LineTyped
<1>3. Len(file) <= Len(file')
  BY <1>2, WriteTakes DEF Takes, Keeps, Rejected
<1>4. promised["flush"] <= promised'["flush"] /\ promised["fsync"] <= promised'["fsync"]
  BY <1>2 DEF Rejected
<1>5. Promises!Break \/ UNCHANGED <<log, health>>
  BY DEF Promises!Break, Rejected
<1>6. entry # "lost"
  BY DEF MayAppend, TypeOK
<1>. QED
  BY <1>1, <1>2, <1>3, <1>4, <1>5, <1>6, WriteMaps

LEMMA AcceptedMaps ==
    ASSUME TypeOK, Indexed, NEW pos, NEW good, Laid(pos, good), NEW item \in Item,
           NEW durability \in {"buffered", "flush", "fsync"},
           MayAppend(item), UNCHANGED <<kind, writer, entry>>,
           NEW w \in Write(Units(LineOf(item))), w.reached # "raised",
           Accepted(LineOf(item), w, durability)
    PROVE  Promises!Write
<1>1. PICK p, g : TypeOK' /\ Indexed' /\ Laid(p, g)' /\ good <= g
  BY AcceptedStep
<1>2. /\ file \in Seq(Unit) /\ buffer \in Seq(Unit) /\ LineOf(item) \in Line
      /\ promised["flush"] \in 0..Len(log) /\ promised["fsync"] \in 0..Len(log)
      /\ log \in Seq(Line) /\ Len(log) \in Nat
  BY UnitsTyped, LineTyped DEF TypeOK
<1>3. PICK v \in Persist(w, durability) :
         /\ file' = v.file
         /\ promised' = [d \in {"flush", "fsync"} |->
                            IF v.reached \in {d, "fsync"} THEN Len(log') ELSE promised[d]]
  BY DEF Accepted
<1>4. Len(file) <= Len(file')
  BY <1>2, <1>3, AcceptedKeeps DEF Keeps
<1>5. log' = Append(log, LineOf(item)) /\ Len(log') = Len(log) + 1
  BY <1>2, AppendProperties DEF Accepted
<1>6. promised["flush"] <= promised'["flush"] /\ promised["fsync"] <= promised'["fsync"]
  <2>1. ASSUME NEW d \in {"flush", "fsync"} PROVE promised[d] <= promised'[d]
    <3>1. promised'[d] = Len(log) + 1 \/ promised'[d] = promised[d]
      BY <1>3, <1>5
    <3>. QED
      BY <1>2, <3>1
  <2>. QED
    BY <2>1
<1>7. Promises!Accept(LineOf(item))
  BY DEF Accepted, Promises!Accept
<1>8. entry # "lost"
  BY DEF MayAppend, TypeOK
<1>. QED
  BY <1>1, <1>2, <1>4, <1>6, <1>7, <1>8, WriteMaps

LEMMA CloseMaps ==
    ASSUME TypeOK, Indexed, NEW pos, NEW good, Laid(pos, good), Close
    PROVE  Promises!Write
<1>1. TypeOK' /\ Indexed' /\ Laid(pos, good)'
  BY CloseStep
<1>2. PICK w \in Drain(file, buffer) :
         /\ file' = w.file
         /\ promised' = IF w.reached = "raised" THEN promised
                        ELSE [promised EXCEPT !["flush"] = Len(log)]
  BY DEF Close
<1>3. /\ file \in Seq(Unit) /\ buffer \in Seq(Unit) /\ good <= good
      /\ promised \in [{"flush", "fsync"} -> 0..Len(log)] /\ Len(log) \in Nat
  BY UnitsTyped DEF TypeOK
<1>4. Len(file) <= Len(file')
  BY <1>2, <1>3, DrainKeeps DEF Keeps
<1>5. promised["flush"] <= promised'["flush"] /\ promised["fsync"] <= promised'["fsync"]
  BY <1>2, <1>3
<1>6. entry # "lost" /\ UNCHANGED <<kind, entry, log, health>>
  BY DEF Close, TypeOK
<1>. QED
  BY <1>1, <1>3, <1>4, <1>5, <1>6, WriteMaps

LEMMA DieMaps ==
    ASSUME TypeOK, Indexed, NEW pos, NEW good, Laid(pos, good), Die
    PROVE  Promises!Write
<1>1. TypeOK' /\ Indexed' /\ Laid(pos, good)'
  BY DieStep
<1>2. entry # "lost" /\ UNCHANGED <<kind, entry, file, log, health, promised>>
  BY DEF Die, historyVars, TypeOK
<1>3. /\ Len(file) \in Nat /\ good <= good
      /\ promised["flush"] \in Nat /\ promised["fsync"] \in Nat
  BY UnitsTyped
<1>4. /\ Len(file) <= Len(file') /\ promised["flush"] <= promised'["flush"]
      /\ promised["fsync"] <= promised'["fsync"]
  BY <1>2, <1>3
<1>. QED
  BY <1>1, <1>2, <1>3, <1>4, WriteMaps

LEMMA SyncDirectoryMaps == SyncDirectory => Promises!SyncDirectory
<1>. SUFFICES ASSUME SyncDirectory PROVE Promises!SyncDirectory
  OBVIOUS
<1>1. /\ entry = "new" /\ entry' = "durable"
      /\ UNCHANGED <<kind, file, log, promised, health>>
  BY DEF SyncDirectory, historyVars
<1>2. Shown' = Shown
  BY <1>1 DEF Shown
<1>. QED
  BY <1>1, <1>2 DEF Promises!SyncDirectory

\* A power loss leaves what was fsynced, or nothing of a file whose directory
\* was not.
LEMMA PowerLossMaps ==
    ASSUME TypeOK, Indexed, NEW pos, NEW good, Laid(pos, good), PowerLoss
    PROVE  Promises!PowerLoss
<1>1. TypeOK' /\ Indexed' /\ Laid(pos, good)'
  BY PowerLossStep
<1>2. /\ promised'["flush"] = promised["fsync"] /\ promised'["fsync"] = promised["fsync"]
      /\ UNCHANGED <<log, health>>
  BY DEF PowerLoss, TypeOK
<1>3. CASE entry' = "lost"
  <2>1. entry # "durable" /\ Shown' = None
    BY <1>3 DEF PowerLoss, TypeOK, Shown
  <2>. QED
    BY <1>2, <1>3, <2>1 DEF Promises!PowerLoss
<1>4. CASE entry' # "lost"
  <2>1. entry # "lost" /\ entry' = "durable"
    BY <1>4 DEF PowerLoss, TypeOK
  <2>2. Promises!Shows(promised'["flush"])
    BY <1>1, <1>4, ShowsMap
  <2>3. Promises!Shows(promised["fsync"])
    BY <1>2, <2>2
  <2>. QED
    BY <1>2, <2>1, <2>3 DEF Promises!PowerLoss
<1>. QED
  BY <1>3, <1>4

LEMMA InitMaps == Init => Promises!Init
<1>. SUFFICES ASSUME Init PROVE Promises!Init
  OBVIOUS
<1>1. /\ <<>> \in Seq(Unit) /\ Len(<<>>) = 0 /\ 0 \in 0..Len(<<>>)
      /\ LinesOf(<<>>, 0) = <<>>
  BY EmptySeq DEF LinesOf
<1>2. AreLines(<<>>, 0) /\ InOrder(kind, <<>>)
  BY <1>1 DEF AreLines, InOrder
<1>3. Read(kind, <<>>) = <<>>
  BY <1>1, <1>2, ReadIs
<1>. QED
  BY <1>3 DEF Init, Promises!Init, Shown

LEMMA NextMaps == IInv /\ [Next]_vars => [Promises!Next]_(Promises!vars)
<1>. SUFFICES ASSUME IInv, [Next]_vars PROVE [Promises!Next]_(Promises!vars)
  OBVIOUS
<1>1. PICK pos, good : TypeOK /\ Indexed /\ Laid(pos, good)
  BY DEF IInv
<1>2. ASSUME NEW item \in Item, NEW durability \in {"buffered", "flush", "fsync"},
             AppendLine(item, durability)
      PROVE  Promises!Write
  <2>1. PICK w \in Write(Units(LineOf(item))) :
           IF w.reached = "raised" THEN Rejected(w) ELSE Accepted(LineOf(item), w, durability)
    BY <1>2 DEF AppendLine
  <2>2. MayAppend(item) /\ UNCHANGED <<kind, writer, entry>>
    BY <1>2 DEF AppendLine
  <2>3. CASE w.reached = "raised"
    BY <1>1, <2>1, <2>2, <2>3, RejectedMaps
  <2>4. CASE w.reached # "raised"
    BY <1>1, <2>1, <2>2, <2>4, AcceptedMaps
  <2>. QED
    BY <2>3, <2>4
<1>3. CASE Close
  BY <1>1, <1>3, CloseMaps DEF Promises!Next
<1>4. CASE Die
  BY <1>1, <1>4, DieMaps DEF Promises!Next
<1>5. CASE PowerLoss
  BY <1>1, <1>5, PowerLossMaps DEF Promises!Next
<1>6. CASE SyncDirectory
  BY <1>6, SyncDirectoryMaps DEF Promises!Next
<1>7. CASE UNCHANGED vars
  <2>1. UNCHANGED <<kind, entry, file, log, promised, health>>
    BY <1>7 DEF vars, fileVars, historyVars
  <2>2. Shown' = Shown
    BY <2>1 DEF Shown
  <2>. QED
    BY <2>1, <2>2 DEF Promises!vars
<1>. QED
  BY <1>2, <1>3, <1>4, <1>5, <1>6, <1>7 DEF Next, Promises!Next

\* The two writers and their reader implement Journal: a reader is given the
\* accepted lines in their order and without a gap, never fewer than an append
\* or a close has promised; only a power loss takes lines away from it, none of
\* the fsynced ones while the file is there, and the file itself only if no
\* fsync of its directory has followed its creation.
THEOREM LedgerKeepsJournal == Spec => JournalSpec
BY InitMaps, NextMaps, AlwaysIInv, PTL DEF Spec, JournalSpec, Promises!Spec
=============================================================================
