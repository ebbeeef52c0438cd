----------------------- MODULE CalendarService_proofs -----------------------
(***************************************************************************)
(* Theorems about the two loops of the calendar service, for any calendar, *)
(* zone, hour, horizon and grace. RefreshWindow: a sound block is read     *)
(* wherever it lies in the document, and a reminder is handed over by the  *)
(* first refresh of the time in which it can be picked up. DailySummary:   *)
(* the clocks show the local times in an order that they break only over   *)
(* midnight, so that the loop sleeps for the first evening that is not     *)
(* seen to, wakes at its time and lists the agenda of the day after.       *)
(***************************************************************************)
EXTENDS RefreshWindow, DailySummary, FiniteSetTheorems, FunctionTheorems,
        WellFoundedInduction, NaturalsInduction, SequenceTheorems, TLAPS

(* The arithmetic of recurrences.                                           *)

LEMMA Quotient ==
  ASSUME NEW p \in Nat \ {0}, NEW a \in Int
  PROVE  /\ a \div p \in Int /\ a % p \in 0..p - 1
         /\ a = (a \div p) * p + (a % p)
OBVIOUS

LEMMA Scaled ==
  ASSUME NEW p \in Nat \ {0}, NEW a \in Int, NEW b \in Int, a < b
  PROVE  a * p + p <= b * p
<1>1. a + 1 <= b
  OBVIOUS
<1>2. (a + 1) * p <= b * p
  BY <1>1
<1>3. (a + 1) * p = a * p + p
  OBVIOUS
<1> QED BY <1>2, <1>3

(* Two starts of one rule are whole periods apart.                         *)
LEMMA PeriodsApart ==
  ASSUME NEW p \in Nat \ {0}, NEW c \in Int, NEW r \in Int, NEW s \in Int,
         (r - c) % p = 0, (s - c) % p = 0
  PROVE  \E k \in Int : s - r = k * p /\ (r < s => k >= 1)
<1> DEFINE a == (r - c) \div p
           b == (s - c) \div p
           x == a * p
           y == b * p
<1>1. a \in Int /\ b \in Int /\ r - c = x /\ s - c = y
  BY Quotient
<1>2. b - a \in Int /\ (b - a) * p = y - x /\ x \in Int /\ y \in Int
  BY <1>1
<1>3. a < b => 1 <= b - a
  BY <1>1
<1>4. (a < b => x + p <= y) /\ (b < a => y + p <= x) /\ (a = b => x = y)
  BY <1>1, Scaled
<1> HIDE DEF a, b, x, y
<1>5. s - r = (b - a) * p
  BY <1>1, <1>2
<1>6. r < s => b - a >= 1
  BY <1>1, <1>2, <1>3, <1>4
<1> QED BY <1>2, <1>5, <1>6

(* A rule has few starts in a window before a start of its own.            *)
LEMMA FewBefore ==
  ASSUME NEW p \in Nat \ {0}, NEW c \in Int, NEW s \in Int, (s - c) % p = 0,
         NEW from \in Int, NEW w \in Nat, s - from <= w,
         NEW S, \A r \in S : r \in Int /\ from <= r /\ r < s /\ (r - c) % p = 0
  PROVE  Cardinality(S) <= w \div p
<1> DEFINE q == w \div p
           T == 1..q
           f == [r \in S |-> CHOOSE k \in Int : s - r = k * p /\ k >= 1]
<1>1. q \in Int /\ w < q * p + p /\ q >= 0
  <2> DEFINE y == q * p
  <2>1. q \in Int /\ y \in Int /\ w = y + (w % p) /\ w % p \in 0..p - 1
    BY Quotient
  <2>2. q < 0 => y + p <= 0
    BY <2>1, Scaled
  <2> HIDE DEF q, y
  <2>3. w < y + p /\ q >= 0
    BY <2>1, <2>2
  <2> QED BY <2>1, <2>3 DEF y
<1>2. \A r \in S : f[r] \in Int /\ s - r = f[r] * p /\ f[r] >= 1
  <2> TAKE r \in S
  <2>1. r \in Int /\ r < s /\ (r - c) % p = 0
    OBVIOUS
  <2>2. \E k \in Int : s - r = k * p /\ (r < s => k >= 1)
    BY <2>1, PeriodsApart
  <2> QED BY <2>1, <2>2
<1> HIDE DEF q, f
<1>3. \A r \in S : f[r] \in T
  <2> TAKE r \in S
  <2>1. f[r] \in Int /\ s - r = f[r] * p /\ f[r] >= 1
    BY <1>2
  <2>2. s - r <= w
    OBVIOUS
  <2>3. q < f[r] => q * p + p <= f[r] * p
    BY <1>1, <2>1, Scaled
  <2> DEFINE k == f[r]
             x == q * p
             y == k * p
  <2>4. k \in Int /\ x \in Int /\ y \in Int /\ s - r = y /\ k >= 1 /\ w < x + p
        /\ (q < k => x + p <= y)
    BY <1>1, <2>1, <2>3
  <2> HIDE DEF k, x, y
  <2>5. k <= q
    BY <1>1, <2>2, <2>4
  <2> QED BY <1>1, <2>1, <2>5 DEF k
<1>4. f \in [S -> T]
  <2>1. f = [r \in S |-> f[r]]
    BY DEF f
  <2> QED BY <1>3, <2>1
<1>5. \A r1, r2 \in S : f[r1] = f[r2] => r1 = r2
  <2> TAKE r1, r2 \in S
  <2> HAVE f[r1] = f[r2]
  <2> DEFINE y == f[r1] * p
  <2>1. y \in Int /\ s - r1 = y /\ s - r2 = y
    BY <1>2
  <2> HIDE DEF y
  <2>2. r1 \in Int /\ r2 \in Int
    OBVIOUS
  <2> QED BY <2>1, <2>2
<1>6. f \in Injection(S, T)
  BY <1>4, <1>5 DEF Injection, IsInjective
<1>7. IsFiniteSet(T) /\ Cardinality(T) = q
  BY <1>1, FS_Interval
<1>8. Cardinality(S) <= Cardinality(T)
  BY <1>6, <1>7, FS_Injection
<1> QED BY <1>7, <1>8 DEF q

(* What a rule means is what it expands to, in a window that it does not   *)
(* crowd (the five hundred of expand_recurrence).                          *)
LEMMA ExpandedIfUncrowded ==
  ASSUME NEW e, e.period \in Nat \ {0}, e.start \in Int,
         NEW s \in Int, s \in Recurrences(e, s, s),
         NEW now \in Int, NEW w \in Nat, now <= s, s <= now + w,
         w \div e.period < Limit
  PROVE  s \in Recurrences(e, now, now + w)
<1> DEFINE starts == {r \in now..now + w :
                        /\ r >= e.start
                        /\ (r - e.start) % e.period = 0
                        /\ e.until.form = "none" \/ r <= LastStart(e)
                        /\ r \notin Excluded(e)}
           S == {r \in starts : r < s}
<1>1. s \in starts
  BY DEF Recurrences
<1>2. \A r \in S : r \in Int /\ now <= r /\ r < s /\ (r - e.start) % e.period = 0
  OBVIOUS
<1>3. (s - e.start) % e.period = 0
  BY <1>1
<1> HIDE DEF S
<1>4. Cardinality(S) <= w \div e.period
  BY <1>2, <1>3, FewBefore
<1>5. IsFiniteSet(S)
  <2>1. S \subseteq now..now + w
    BY DEF S
  <2>2. now + w \in Int
    OBVIOUS
  <2>3. IsFiniteSet(now..now + w)
    BY <2>2, FS_Interval
  <2> QED BY <2>1, <2>3, FS_Subset
<1>6. Cardinality(S) < Limit
  <2>1. Cardinality(S) \in Nat /\ w \div e.period \in Int /\ Limit \in Int
    <3>1. Cardinality(S) \in Nat
      BY <1>5, FS_CardinalityType
    <3>2. w \div e.period \in Int
      BY Quotient
    <3> QED BY <3>1, <3>2, FeedAssumption
  <2> QED BY <1>4, <2>1
<1> QED BY <1>1, <1>6 DEF Recurrences, S
-----------------------------------------------------------------------------
(* RefreshWindow                                                            *)

(* The least of a set of numbers.                                          *)
Before == {p \in Nat \X Nat : p[1] < p[2]}

LEMMA Least ==
  ASSUME NEW S, S \subseteq Nat, S # {}
  PROVE  \E i \in S : \A j \in S : i <= j
<1>1. IsWellFoundedOn(Before, Nat)
  BY NatLessThanWellFounded DEF OpToRel, Before
<1>2. PICK i \in S : \A j \in S : <<j, i>> \notin Before
  BY <1>1, WFMin
<1>3. \A j \in S : ~(j < i)
  BY <1>2 DEF Before
<1> QED BY <1>3

PickedUp(e, s, t) ==
  /\ From(e, s, t) >= 0 /\ Until(e, s, t) >= From(e, s, t)
  /\ last > 0 /\ last >= From(e, s, t) /\ longest <= Until(e, s, t) - From(e, s, t)
  /\ ~Dense(e)
  => <<e, s, t>> \in handed

(* A reminder was handed over if the last refresh came after it could be   *)
(* picked up and no pause was longer than the time for it.                 *)
WindowInv ==
  /\ text \in Calendars
  /\ clock \in Nat /\ last \in Nat /\ longest \in Nat /\ last <= clock
  /\ \A i \in Sound(text) :
       \A s \in TrueStarts(text[i][2]), t \in text[i][2].triggers :
         PickedUp(text[i][2], s, t)

LEMMA EventTypes ==
  ASSUME NEW e \in Events
  PROVE  /\ e.start \in Int /\ e.period \in Nat
         /\ e.exdates \in Seq(SUBSET Int) /\ e.triggers \subseteq Int
BY WindowAssumption

LEMMA TextTypes ==
  ASSUME NEW x \in Calendars, NEW i \in DOMAIN x
  PROVE  x \in Seq({"whole", "open", "bad"} \X Events)
         /\ x[i][1] \in {"whole", "open", "bad"} /\ x[i][2] \in Events
BY WindowAssumption

(* What a series means at a time, the rule expands to at that time alone.  *)
LEMMA TrueStartsExpand ==
  ASSUME NEW e \in Events, e.period # 0, NEW s \in TrueStarts(e)
  PROVE  s \in Recurrences(e, s, s)
<1> DEFINE starts == {r \in s..s : /\ r >= e.start
                                   /\ (r - e.start) % e.period = 0
                                   /\ e.until.form = "none" \/ r <= LastStart(e)
                                   /\ r \notin Excluded(e)}
           S == {r \in starts : r < s}
<1>1. s \in Int
  BY FeedAssumption, WindowAssumption DEF TrueStarts
<1>2. s \notin Excluded(e)
  <2>1. CASE e.exdates = <<>>
    BY <2>1 DEF Excluded
  <2>2. CASE e.exdates # <<>>
    <3>1. 1 \in DOMAIN e.exdates
      BY <2>2, EventTypes
    <3> QED BY <2>2, <3>1 DEF Excluded, TrueStarts
  <2> QED BY <2>1, <2>2
<1>3. s \in starts
  BY <1>1, <1>2 DEF TrueStarts
<1>4. S = {}
  BY <1>1
<1>5. Cardinality(S) < Limit
  <2>1. Cardinality({}) = 0
    BY FS_EmptySet
  <2> QED BY <1>4, <2>1, FeedAssumption
<1> QED BY <1>3, <1>5 DEF Recurrences

(* A refresh in time hands the reminder over.                              *)
LEMMA InTime ==
  ASSUME NEW e \in Events, NEW s \in TrueStarts(e), NEW t \in e.triggers,
         NEW now \in Nat, From(e, s, t) <= now, now <= Until(e, s, t), ~Dense(e)
  PROVE  <<s, t>> \in Reminders(e, now)
<1>1. s \in Int /\ t \in Int /\ e.period \in Nat /\ Horizon \in Nat \ {0} /\ Grace \in Nat
      /\ Limit \in Int
  BY FeedAssumption, WindowAssumption, EventTypes DEF TrueStarts
<1>2. now - Grace <= s + t /\ s + t <= now + Horizon
  BY <1>1 DEF From, Until
<1>3. s \in Starts(e, now, now + Horizon)
  <2>1. CASE e.period = 0
    BY <2>1 DEF Starts, TrueStarts
  <2>2. CASE e.period # 0
    <3>1. now <= s /\ s <= now + Horizon
      BY <1>1, <2>2 DEF From, Until
    <3>2. s \in Recurrences(e, s, s)
      BY <2>2, TrueStartsExpand
    <3> DEFINE q == Horizon \div e.period
    <3>3. q \in Int
      <4> DEFINE p == e.period
      <4>1. p \in Nat \ {0} /\ Horizon \in Int
        BY <1>1, <2>2
      <4> HIDE DEF p
      <4>2. Horizon \div p \in Int
        BY <4>1, Quotient
      <4> QED BY <4>2 DEF p
    <3>4. ~(q >= Limit)
      BY <2>2 DEF Dense
    <3> HIDE DEF q
    <3>5. q < Limit
      BY <1>1, <3>3, <3>4
    <3>6. e.period \in Nat \ {0} /\ e.start \in Int /\ Horizon \in Nat /\ now \in Int
      BY <1>1, <2>2, EventTypes
    <3>7. s \in Recurrences(e, now, now + Horizon)
      BY <1>1, <3>1, <3>2, <3>5, <3>6, ExpandedIfUncrowded DEF q
    <3> QED BY <2>2, <3>7 DEF Starts
  <2> QED BY <2>1, <2>2
<1> DEFINE r == <<s, t>>
<1>4. r \in Starts(e, now, now + Horizon) \X e.triggers /\ r[1] = s /\ r[2] = t
  BY <1>3
<1> HIDE DEF r
<1>5. r \in Reminders(e, now)
  BY <1>2, <1>4 DEF Reminders
<1> QED BY <1>5 DEF r
-----------------------------------------------------------------------------
(* How the blocks of a text lie in the document: FlattenSeq, unfolded.     *)
LineSet == {Begin, End, Garbled} \cup {<<"event", e>> : e \in Events}
Blocks(x) == [i \in DOMAIN x |-> Lines(x[i])]
Prefix(S, i, f) == IF i = 1 THEN S[i] ELSE f[i - 1] \o S[i]

(* A recursive function on an initial segment of the numbers exists.       *)
LEMMA PrefixesExist ==
  ASSUME NEW S
  PROVE  \A n \in Nat : \E f : f = [i \in 1..n |-> Prefix(S, i, f)]
<1> DEFINE Bad == {n \in Nat : ~\E f : f = [i \in 1..n |-> Prefix(S, i, f)]}
<1>1. Bad \subseteq Nat
  OBVIOUS
<1>2. ASSUME Bad # {}
      PROVE  FALSE
  <2>1. PICK n \in Bad : \A m \in Bad : n <= m
    BY <1>1, <1>2, Least
  <2>2. n \in Nat
    OBVIOUS
  <2>3. n # 0
    <3> DEFINE f == [i \in 1..0 |-> 0]
    <3>1. f = [i \in 1..0 |-> Prefix(S, i, f)]
      OBVIOUS
    <3> HIDE DEF f
    <3>2. \E g : g = [i \in 1..0 |-> Prefix(S, i, g)]
      BY <3>1
    <3> QED BY <2>1, <3>2
  <2>4. n - 1 \in Nat /\ n - 1 \notin Bad
    BY <2>1, <2>2, <2>3
  <2>5. PICK f : f = [i \in 1..n - 1 |-> Prefix(S, i, f)]
    BY <2>4
  <2> DEFINE v == Prefix(S, n, f)
             g == [i \in 1..n |-> IF i = n THEN v ELSE f[i]]
  <2>6. \A i \in 1..n - 1 : g[i] = f[i]
    BY <2>2
  <2>7. \A i \in 1..n : g[i] = Prefix(S, i, g)
    <3> TAKE i \in 1..n
    <3>1. CASE i = 1 /\ n = 1
      BY <3>1 DEF Prefix
    <3>2. CASE i # 1
      <4>1. i - 1 \in 1..n - 1
        BY <2>2, <3>2
      <4>2. g[i - 1] = f[i - 1]
        BY <2>6, <4>1
      <4>3. CASE i = n
        <5>1. g[i] = Prefix(S, i, f)
          BY <2>2, <4>3
        <5> HIDE DEF g, v
        <5> QED BY <3>2, <4>2, <5>1 DEF Prefix
      <4>4. CASE i # n
        <5>1. i \in 1..n - 1
          BY <2>2, <4>4
        <5>2. g[i] = f[i] /\ f[i] = Prefix(S, i, f)
          BY <2>5, <2>6, <5>1
        <5> HIDE DEF g, v
        <5> QED BY <3>2, <4>2, <5>2 DEF Prefix
      <4> QED BY <4>3, <4>4
    <3>3. CASE i = 1 /\ n # 1
      <4>1. i \in 1..n - 1
        BY <2>2, <2>3, <3>3
      <4>2. g[i] = f[i] /\ f[i] = Prefix(S, i, f)
        BY <2>5, <2>6, <4>1
      <4> HIDE DEF g, v
      <4> QED BY <3>3, <4>2 DEF Prefix
    <3> QED BY <3>1, <3>2, <3>3
  <2>8. g = [i \in 1..n |-> g[i]]
    OBVIOUS
  <2> HIDE DEF g, v
  <2>9. g = [i \in 1..n |-> Prefix(S, i, g)]
    BY <2>7, <2>8
  <2> QED BY <2>1, <2>9
<1> QED BY <1>2

LEMMA Flattened ==
  ASSUME NEW S, NEW n \in Nat, Len(S) = n, n # 0
  PROVE  \E f : f = [i \in 1..n |-> Prefix(S, i, f)] /\ FlattenSeq(S) = f[n]
<1> DEFINE f == CHOOSE g : g = [i \in 1..n |-> Prefix(S, i, g)]
<1>1. f = [i \in 1..n |-> Prefix(S, i, f)]
  BY PrefixesExist
<1>2. FlattenSeq(S) = f[n]
  BY DEF FlattenSeq, Prefix
<1> HIDE DEF f
<1> QED BY <1>1, <1>2

(* What a block looks like.                                                *)
LEMMA LinesAre ==
  ASSUME NEW b \in {"whole", "open", "bad"} \X Events
  PROVE  /\ Lines(b) \in Seq(LineSet) /\ Len(Lines(b)) >= 2 /\ Lines(b)[1] = Begin
         /\ b[1] # "open" => Lines(b)[Len(Lines(b))] = End
         /\ b[1] = "whole" => /\ Len(Lines(b)) = 3
                              /\ Lines(b)[2] = <<"event", b[2]>> /\ Lines(b)[3] = End
<1>1. <<"event", b[2]>> \in LineSet /\ {Begin, End, Garbled} \subseteq LineSet
  BY DEF LineSet
<1> DEFINE v == <<"event", b[2]>>
<1>2. CASE b[1] = "whole"
  <2>1. Lines(b) = <<Begin, v, End>>
    BY <1>2 DEF Lines
  <2> HIDE DEF v
  <2>2. <<Begin, v, End>> \in Seq(LineSet)
    BY <1>1 DEF v
  <2> QED BY <1>2, <2>1, <2>2 DEF v
<1>3. CASE b[1] = "open"
  <2>1. Lines(b) = <<Begin, v>>
    BY <1>3 DEF Lines
  <2> HIDE DEF v
  <2>2. <<Begin, v>> \in Seq(LineSet)
    BY <1>1 DEF v
  <2> QED BY <1>3, <2>1, <2>2
<1>4. CASE b[1] = "bad"
  <2>1. Lines(b) = <<Begin, Garbled, v, End>>
    BY <1>4 DEF Lines
  <2> HIDE DEF v
  <2>2. <<Begin, Garbled, v, End>> \in Seq(LineSet)
    BY <1>1 DEF v
  <2> QED BY <1>4, <2>1, <2>2
<1> QED BY <1>2, <1>3, <1>4

(* Block i of S lies in d from the line after `off`.                       *)
LiesAt(S, i, d, off) ==
  /\ off \in Nat /\ off + Len(S[i]) <= Len(d)
  /\ \A k \in 1..Len(S[i]) : d[off + k] = S[i][k]
  /\ i = 1 => off = 0
  /\ i # 1 => off >= 1 /\ d[off] = S[i - 1][Len(S[i - 1])]

LEMMA Layout ==
  ASSUME NEW n \in Nat, NEW V, NEW S \in Seq(Seq(V)), n <= Len(S), n >= 1,
         \A i \in 1..n : Len(S[i]) >= 1,
         NEW f, f = [i \in 1..n |-> Prefix(S, i, f)]
  PROVE  \A m \in 1..n :
           /\ f[m] \in Seq(V) /\ Len(f[m]) >= 1
           /\ f[m][Len(f[m])] = S[m][Len(S[m])]
           /\ \A i \in 1..m : \E off \in Nat : LiesAt(S, i, f[m], off)
<1> DEFINE Good(m) == /\ f[m] \in Seq(V) /\ Len(f[m]) >= 1
                      /\ f[m][Len(f[m])] = S[m][Len(S[m])]
                      /\ \A i \in 1..m : \E off \in Nat : LiesAt(S, i, f[m], off)
           Bad == {m \in 1..n : ~Good(m)}
<1>1. \A m \in 1..n : f[m] = Prefix(S, m, f) /\ S[m] \in Seq(V) /\ Len(S[m]) \in Nat
                      /\ Len(S[m]) >= 1
  <2> TAKE m \in 1..n
  <2>1. m \in 1..Len(S)
    OBVIOUS
  <2>2. S[m] \in Seq(V)
    BY <2>1
  <2>3. f[m] = Prefix(S, m, f)
    OBVIOUS
  <2> HIDE DEF Good
  <2>4. Len(S[m]) >= 1
    OBVIOUS
  <2> QED BY <2>2, <2>3, <2>4
<1> HIDE DEF Good
<1>2. ASSUME Bad # {}
      PROVE  FALSE
  <2>1. PICK m \in Bad : \A k \in Bad : m <= k
    <3>1. Bad \subseteq Nat
      OBVIOUS
    <3> HIDE DEF Bad
    <3> QED BY <1>2, <3>1, Least
  <2>2. m \in 1..n /\ ~Good(m)
    OBVIOUS
  <2>3. m # 1
    <3>1. SUFFICES ASSUME m = 1 PROVE Good(1)
      BY <2>2
    <3>2. f[1] = S[1] /\ S[1] \in Seq(V) /\ Len(S[1]) >= 1
      BY <1>1 DEF Prefix
    <3>3. LiesAt(S, 1, f[1], 0)
      BY <3>2 DEF LiesAt
    <3> QED BY <3>2, <3>3 DEF Good
  <2>4. m - 1 \in 1..n /\ m - 1 \notin Bad
    BY <2>1, <2>2, <2>3
  <2>5. Good(m - 1)
    BY <2>4
  <2> DEFINE d == f[m - 1]
             s == S[m]
             e == d \o s
             l == Len(d)
  <2>6. d \in Seq(V) /\ s \in Seq(V) /\ Len(d) >= 1 /\ Len(s) >= 1
        /\ d[Len(d)] = S[m - 1][Len(S[m - 1])]
    BY <1>1, <2>2, <2>4, <2>5 DEF Good
  <2>7. f[m] = e
    BY <1>1, <2>2, <2>3 DEF Prefix
  <2>8. \A i \in 1..m - 1 : \E off \in Nat : LiesAt(S, i, d, off)
    BY <2>5 DEF Good
  <2> HIDE DEF d, s
  <2>9. /\ e \in Seq(V) /\ Len(e) = l + Len(s) /\ l \in Nat /\ Len(s) \in Nat
        /\ \A k \in 1..l : e[k] = d[k]
        /\ \A k \in 1..Len(s) : e[l + k] = s[k]
    BY <2>6
  <2> HIDE DEF e, l
  <2>10. l >= 1 /\ d[l] = S[m - 1][Len(S[m - 1])] /\ Len(s) >= 1
    BY <2>6 DEF l
  <2>11. Len(e) >= 1 /\ e[Len(e)] = s[Len(s)]
    <3> DEFINE k == Len(s)
    <3>1. k \in Nat /\ k >= 1 /\ Len(e) = l + k /\ l \in Nat
      BY <2>9, <2>10
    <3>2. k \in 1..k => e[l + k] = s[k]
      BY <2>9
    <3> HIDE DEF k
    <3>3. k \in 1..k /\ l + k >= 1
      BY <3>1
    <3>4. e[Len(e)] = s[k]
      BY <3>1, <3>2, <3>3
    <3> QED BY <3>1, <3>3, <3>4 DEF k
  <2>12. ASSUME NEW i \in 1..m - 1
         PROVE  \E off \in Nat : LiesAt(S, i, e, off)
    <3>1. PICK off \in Nat : LiesAt(S, i, d, off)
      BY <2>8
    <3>2. Len(S[i]) \in Nat /\ i \in 1..n
      BY <1>1, <2>2
    <3>3. off + Len(S[i]) <= l
      BY <3>1 DEF LiesAt, l
    <3>4. \A k \in 1..Len(S[i]) : e[off + k] = S[i][k]
      <4> TAKE k \in 1..Len(S[i])
      <4>1. off + k \in 1..l
        BY <2>9, <3>2, <3>3
      <4> QED BY <2>9, <3>1, <4>1 DEF LiesAt
    <3>5. off >= 1 => e[off] = d[off]
      <4>1. off >= 1 => off \in 1..l
        BY <2>9, <3>2, <3>3
      <4> QED BY <2>9, <4>1
    <3>6. off + Len(S[i]) <= Len(e)
      <4>1. Len(e) = l + Len(s) /\ l \in Nat /\ Len(s) \in Nat
        BY <2>9
      <4>2. l <= Len(e) /\ Len(e) \in Nat
        BY <4>1
      <4> DEFINE x == off + Len(S[i])
                 y == Len(e)
      <4>3. x \in Nat /\ x <= l /\ l <= y /\ l \in Nat /\ y \in Nat
        BY <3>2, <3>3, <4>1, <4>2
      <4> HIDE DEF x, y
      <4>4. x <= y
        BY <4>3
      <4> QED BY <4>4 DEF x, y
    <3>7. LiesAt(S, i, e, off)
      BY <3>1, <3>4, <3>5, <3>6 DEF LiesAt
    <3> QED BY <3>7
  <2>13. LiesAt(S, m, e, l)
    <3>1. l \in 1..l
      BY <2>9, <2>10
    <3>2. e[l] = d[l]
      BY <2>9, <3>1
    <3>3. l + Len(S[m]) <= Len(e) /\ l \in Nat
      BY <2>9 DEF s
    <3>4. \A k \in 1..Len(S[m]) : e[l + k] = S[m][k]
      BY <2>9 DEF s
    <3>5. e[l] = S[m - 1][Len(S[m - 1])]
      BY <2>10, <3>2
    <3> QED BY <2>3, <2>10, <3>3, <3>4, <3>5 DEF LiesAt
  <2>14. \A i \in 1..m : \E off \in Nat : LiesAt(S, i, e, off)
    <3> TAKE i \in 1..m
    <3>1. i \in 1..m - 1 \/ i = m
      BY <2>2
    <3> QED BY <2>9, <2>12, <2>13, <3>1
  <2>15. Good(m)
    BY <2>7, <2>9, <2>11, <2>14 DEF Good, s
  <2> QED BY <2>2, <2>15
<1>3. \A m \in 1..n : Good(m)
  BY <1>2
<1> QED BY <1>3 DEF Good
-----------------------------------------------------------------------------
LEMMA ThreeLines ==
  ASSUME NEW V, NEW d \in Seq(V), Len(d) = 3
  PROVE  d = <<d[1], d[2], d[3]>>
OBVIOUS

(* A document in which <<Begin, event, End>> starts after an End, or at    *)
(* its head, is read (split_vcalendar_blocks).                             *)
LEMMA BlockIsRead ==
  ASSUME NEW d \in Seq(LineSet), NEW off \in Nat, off + 3 <= Len(d), NEW e,
         d[off + 1] = Begin, d[off + 2] = <<"event", e>>, d[off + 3] = End,
         off = 0 \/ d[off] = End,
         Len(d) = 3 \/ \E m \in Marks(d) : m # off + 1
  PROVE  e \in EventsIn(d)
<1> DEFINE b == off + 1
           block == <<Begin, <<"event", e>>, End>>
           Ends(c) == {x \in DOMAIN d : x > c /\ d[x] = End}
<1>1. Begin # End /\ <<"event", e>> \notin {Begin, End, Garbled}
  BY DEF Begin, End, Garbled
<1>2. b \in Nat /\ DOMAIN d = 1..Len(d) /\ Len(d) \in Nat
  OBVIOUS
<1>3. e \in BlockEvents(block)
  <2> DEFINE v == <<"event", e>>
  <2>1. v \notin {Begin, End, Garbled} /\ v[2] = e
    BY <1>1
  <2> HIDE DEF v
  <2>2. <<Begin, v, End>>[2] = v /\ Len(<<Begin, v, End>>) = 3
        /\ <<Begin, v, End>>[1] = Begin /\ <<Begin, v, End>>[3] = End
    OBVIOUS
  <2> DEFINE c == <<Begin, v, End>>
  <2> HIDE DEF c
  <2>3. c[2] = v /\ Len(c) = 3 /\ c[1] = Begin /\ c[3] = End
    BY <2>2 DEF c
  <2>4. e \in BlockEvents(c)
    BY <2>1, <2>3 DEF BlockEvents
  <2> QED BY <2>4 DEF c, v
<1>4. b \in Marks(d)
  BY <1>2 DEF Marks
<1>5. CASE Cardinality(Marks(d)) <= 1
  <2>1. \A m \in Marks(d) : m = b
    <3>1. SUFFICES ASSUME NEW m \in Marks(d), m # b PROVE FALSE
      OBVIOUS
    <3> HIDE DEF b
    <3>2. IsFiniteSet({b}) /\ Cardinality({b}) = 1
      BY FS_Singleton
    <3>3. IsFiniteSet({b} \cup {m}) /\ Cardinality({b} \cup {m}) = 2
      <4>1. m \notin {b}
        BY <3>1
      <4>2. IsFiniteSet({b} \cup {m}) /\ Cardinality({b} \cup {m}) = Cardinality({b}) + 1
        BY <3>2, <4>1, FS_AddElement
      <4> DEFINE o == Cardinality({b})
                 z == Cardinality({b} \cup {m})
      <4>3. o = 1 /\ z = o + 1
        BY <3>2, <4>2
      <4> HIDE DEF o, z
      <4>4. z = 2
        BY <4>3
      <4> QED BY <4>2, <4>4 DEF z
    <3>4. {b} \cup {m} \subseteq Marks(d)
      BY <1>4, <3>1
    <3>5. IsFiniteSet(Marks(d))
      <4>1. Marks(d) \subseteq 1..Len(d)
        BY <1>2 DEF Marks
      <4>2. IsFiniteSet(1..Len(d))
        BY <1>2, FS_Interval
      <4> QED BY <4>1, <4>2, FS_Subset
    <3>6. 2 <= Cardinality(Marks(d)) /\ Cardinality(Marks(d)) \in Nat
      BY <3>3, <3>4, <3>5, FS_Subset, FS_CardinalityType
    <3> QED BY <1>5, <3>6
  <2>2. Len(d) = 3 /\ off = 0
    BY <1>2, <2>1
  <2>3. d = block
    <3>1. d[1] = Begin /\ d[2] = <<"event", e>> /\ d[3] = End
      BY <2>2
    <3>2. d = <<d[1], d[2], d[3]>>
      BY <2>2, ThreeLines
    <3> QED BY <3>1, <3>2
  <2>4. SplitBlocks(d) = {d}
    BY <1>5 DEF SplitBlocks
  <2> HIDE DEF block
  <2> QED BY <1>3, <2>3, <2>4 DEF EventsIn
<1>6. CASE ~(Cardinality(Marks(d)) <= 1)
  <2> DEFINE heads == {h \in Marks(d) : \A c \in Marks(d) :
                                          c < h => \E x \in Ends(c) : x < h}
  <2>1. \A c \in Marks(d) : c < b => \E x \in Ends(c) : x < b
    <3> SUFFICES ASSUME NEW c \in Marks(d), c < b PROVE \E x \in Ends(c) : x < b
      OBVIOUS
    <3>1. c \in 1..Len(d) /\ d[c] = Begin
      BY <1>2 DEF Marks
    <3>2. off # 0 /\ d[off] = End /\ c <= off
      BY <1>2, <3>1
    <3>3. c # off
      BY <1>1, <3>1, <3>2
    <3>4. off \in DOMAIN d /\ off > c /\ off < b
      BY <1>2, <3>1, <3>2, <3>3
    <3> QED BY <3>2, <3>4
  <2>2. b \in heads
    BY <1>4, <2>1
  <2>3. off + 3 \in Ends(b) /\ \A x \in Ends(b) : off + 3 <= x
    <3>1. off + 3 \in DOMAIN d /\ off + 3 > b
      BY <1>2
    <3>2. off + 2 \notin Ends(b)
      BY <1>1
    <3>3. \A x \in Ends(b) : x \in Nat /\ x > off + 1 /\ x # off + 2
      BY <1>2, <3>2
    <3> QED BY <3>1, <3>3
  <2>4. Ends(b) # {} /\ Min(Ends(b)) = off + 3
    <3> DEFINE M == Ends(b)
               z == off + 3
    <3>1. z \in M /\ \A x \in M : z <= x
      BY <2>3
    <3>2. \A x \in M : x \in Nat
      BY <1>2
    <3> HIDE DEF M, z
    <3>3. Min(M) \in M /\ \A x \in M : Min(M) <= x
      BY <3>1 DEF Min
    <3>4. Min(M) = z
      BY <3>1, <3>2, <3>3
    <3> QED BY <3>1, <3>4 DEF M, z
  <2>5. SplitBlocks(d) =
          {SubSeq(d, h, IF Ends(h) = {} THEN Len(d) ELSE Min(Ends(h))) : h \in heads}
    BY <1>6 DEF SplitBlocks
  <2>6. SubSeq(d, b, off + 3) \in SplitBlocks(d)
    <3> DEFINE R(h) == SubSeq(d, h, IF Ends(h) = {} THEN Len(d) ELSE Min(Ends(h)))
    <3>1. R(b) = SubSeq(d, b, off + 3)
      BY <2>4
    <3> HIDE DEF b, heads
    <3>2. R(b) \in SplitBlocks(d)
      BY <2>2, <2>5
    <3> QED BY <3>1, <3>2
  <2>7. SubSeq(d, b, off + 3) = block
    <3>1. Len(SubSeq(d, b, off + 3)) = 3
      BY <1>2
    <3>2. \A k \in 1..3 : SubSeq(d, b, off + 3)[k] = d[off + k]
      BY <1>2
    <3>3. SubSeq(d, b, off + 3) \in Seq(LineSet)
      BY <1>2
    <3> DEFINE q == SubSeq(d, b, off + 3)
    <3> HIDE DEF q
    <3>4. q \in Seq(LineSet) /\ Len(q) = 3 /\ q[1] = Begin /\ q[2] = <<"event", e>>
          /\ q[3] = End
      BY <3>1, <3>2, <3>3 DEF q
    <3>5. q = <<Begin, <<"event", e>>, End>>
      <4>1. q = <<q[1], q[2], q[3]>>
        BY <3>4, ThreeLines
      <4> QED BY <3>4, <4>1
    <3> QED BY <3>5 DEF q
  <2> HIDE DEF block
  <2> QED BY <1>3, <2>6, <2>7 DEF EventsIn
<1> QED BY <1>5, <1>6

LEMMA SoundIsRead ==
  ASSUME NEW x \in Calendars, NEW i \in Sound(x)
  PROVE  x[i][2] \in EventsIn(Document(x))
<1> DEFINE n == Len(x)
           S == Blocks(x)
<1>1. n \in Nat /\ i \in 1..n /\ DOMAIN x = 1..n /\ n >= 1
  BY TextTypes, WindowAssumption DEF Sound
<1>2. \A j \in 1..n : x[j] \in {"whole", "open", "bad"} \X Events
  BY <1>1, WindowAssumption
<1>3. \A j \in 1..n : S[j] = Lines(x[j]) /\ S[j] \in Seq(LineSet) /\ Len(S[j]) >= 2
  BY <1>1, <1>2, LinesAre DEF Blocks
<1>4. S \in Seq(Seq(LineSet)) /\ Len(S) = n
  BY <1>1, <1>3 DEF Blocks
<1> HIDE DEF S
<1>5. PICK f : f = [j \in 1..n |-> Prefix(S, j, f)] /\ FlattenSeq(S) = f[n]
  BY <1>1, <1>4, Flattened
<1> DEFINE d == f[n]
<1>6. d = Document(x)
  BY <1>5 DEF Document, Blocks, S
<1>7. \A j \in 1..n : Len(S[j]) >= 1
  <2> TAKE j \in 1..n
  <2>1. Len(S[j]) \in Nat /\ Len(S[j]) >= 2
    BY <1>3
  <2> QED BY <2>1
<1>8. d \in Seq(LineSet) /\ \A j \in 1..n : \E off \in Nat : LiesAt(S, j, d, off)
  <2>1. n \in 1..n /\ n <= Len(S)
    BY <1>1, <1>4
  <2> QED BY <1>1, <1>4, <1>5, <1>7, <2>1, Layout
<1> HIDE DEF d
<1>9. PICK off \in Nat : LiesAt(S, i, d, off)
  BY <1>1, <1>8
<1>10. S[i] = Lines(x[i]) /\ Len(S[i]) = 3 /\ S[i][1] = Begin
       /\ S[i][2] = <<"event", x[i][2]>> /\ S[i][3] = End
  BY <1>1, <1>2, <1>3, LinesAre DEF Sound
<1>11. off + 3 <= Len(d) /\ d[off + 1] = Begin /\ d[off + 2] = <<"event", x[i][2]>>
       /\ d[off + 3] = End
  BY <1>9, <1>10 DEF LiesAt
<1>12. off = 0 \/ d[off] = End
  <2>1. CASE i = 1
    BY <1>9, <2>1 DEF LiesAt
  <2>2. CASE i # 1
    <3>1. i - 1 \in 1..n /\ x[i - 1][1] # "open"
      BY <1>1, <2>2 DEF Sound
    <3>2. S[i - 1][Len(S[i - 1])] = End
      BY <1>2, <1>3, <3>1, LinesAre
    <3> QED BY <1>9, <2>2, <3>2 DEF LiesAt
  <2> QED BY <2>1, <2>2
<1>13. \A j \in 1..n : \A o \in Nat : LiesAt(S, j, d, o) => o + 1 \in Marks(d)
  <2> TAKE j \in 1..n
  <2> TAKE o \in Nat
  <2> HAVE LiesAt(S, j, d, o)
  <2>1. S[j][1] = Begin /\ Len(S[j]) \in Nat /\ Len(S[j]) >= 2
    BY <1>2, <1>3, LinesAre
  <2>2. d[o + 1] = Begin /\ o + 2 <= Len(d)
    BY <2>1 DEF LiesAt
  <2> QED BY <1>8, <2>2 DEF Marks
<1>14. Len(d) = 3 \/ \E m \in Marks(d) : m # off + 1
  <2>1. CASE n = 1
    <3>1. d = S[1] /\ i = 1
      BY <1>1, <1>5, <2>1 DEF d, Prefix
    <3> QED BY <1>10, <3>1
  <2>2. CASE n # 1
    <3>1. 1 \in 1..n /\ 2 \in 1..n
      BY <1>1, <2>2
    <3>2. PICK o \in Nat : LiesAt(S, 2, d, o)
      BY <1>8, <3>1
    <3>3. PICK u \in Nat : LiesAt(S, 1, d, u)
      BY <1>8, <3>1
    <3>4. o >= 1 /\ u = 0
      BY <3>2, <3>3 DEF LiesAt
    <3>5. o + 1 \in Marks(d) /\ u + 1 \in Marks(d)
      BY <1>13, <3>1, <3>2, <3>3
    <3> QED BY <3>4, <3>5
  <2> QED BY <2>1, <2>2
<1>15. x[i][2] \in EventsIn(d)
  BY <1>8, <1>11, <1>12, <1>14, BlockIsRead
<1> QED BY <1>6, <1>15
-----------------------------------------------------------------------------
LEMMA WindowTimes ==
  ASSUME NEW x \in Calendars, NEW i \in Sound(x),
         NEW s \in TrueStarts(x[i][2]), NEW t \in x[i][2].triggers
  PROVE  /\ x[i][2] \in Events
         /\ From(x[i][2], s, t) \in Int /\ Until(x[i][2], s, t) \in Int
<1>1. i \in DOMAIN x
  BY DEF Sound
<1>2. x[i][2] \in Events
  BY <1>1, TextTypes
<1>3. s \in Int /\ t \in Int
  BY <1>2, EventTypes, WindowAssumption, FeedAssumption DEF TrueStarts
<1> QED BY <1>2, <1>3, FeedAssumption DEF From, Until

LEMMA RefreshKeepsInv ==
  ASSUME WindowInv, RefreshOnce
  PROVE  WindowInv'
<1>1. text' = text /\ clock' = clock /\ last' = clock /\ text \in Calendars
      /\ longest' = (IF clock - last > longest THEN clock - last ELSE longest)
      /\ clock \in Nat /\ last \in Nat /\ longest \in Nat /\ last <= clock
  BY DEF RefreshOnce, WindowInv
<1>2. longest' \in Nat /\ longest <= longest' /\ clock - last <= longest'
  BY <1>1
<1>3. ASSUME NEW i \in Sound(text), NEW s \in TrueStarts(text[i][2]),
             NEW t \in text[i][2].triggers
      PROVE  (PickedUp(text[i][2], s, t))'
  <2> DEFINE e == text[i][2]
             from == From(e, s, t)
             to == Until(e, s, t)
  <2>1. e \in Events /\ from \in Int /\ to \in Int
    BY <1>1, <1>3, WindowTimes
  <2>2. SUFFICES ASSUME from >= 0, to >= from, clock >= from, longest' <= to - from, ~Dense(e)
                 PROVE  <<e, s, t>> \in handed'
    BY <1>1 DEF PickedUp, From, Until, Dense
  <2>3. PickedUp(e, s, t)
    BY <1>3 DEF WindowInv
  <2>4. e \in EventsIn(Document(text))
    BY <1>1, <1>3, SoundIsRead
  <2> HIDE DEF e, from, to
  <2>5. CASE last > 0 /\ last >= from
    <3>1. longest <= to - from
      BY <1>1, <1>2, <2>1, <2>2
    <3>2. <<e, s, t>> \in handed
      BY <2>2, <2>3, <2>5, <3>1 DEF PickedUp, from, to
    <3> QED BY <3>2 DEF RefreshOnce
  <2>6. CASE ~(last > 0 /\ last >= from)
    <3>1. from <= clock /\ clock <= to
      BY <1>1, <1>2, <2>1, <2>2, <2>6
    <3>2. s \in TrueStarts(e) /\ t \in e.triggers
      BY <1>3 DEF e
    <3>3. <<s, t>> \in Reminders(e, clock)
      BY <1>1, <2>1, <2>2, <3>1, <3>2, InTime DEF from, to
    <3> DEFINE r == <<s, t>>
    <3>4. r \in Reminders(e, clock) /\ r[1] = s /\ r[2] = t
      BY <3>3
    <3> HIDE DEF r
    <3>5. <<e, r[1], r[2]>> \in {<<e, q[1], q[2]>> : q \in Reminders(e, clock)}
      BY <3>4
    <3>6. <<e, s, t>> \in {<<e, q[1], q[2]>> : q \in Reminders(e, clock)}
      BY <3>4, <3>5
    <3>7. <<e, s, t>> \in UNION {{<<a, q[1], q[2]>> : q \in Reminders(a, clock)} :
                                   a \in EventsIn(Document(text))}
      BY <2>4, <3>6
    <3> QED BY <3>7 DEF RefreshOnce
  <2> QED BY <2>5, <2>6
<1>4. \A i \in Sound(text)' :
        \A s \in TrueStarts(text'[i][2]), t \in text'[i][2].triggers :
          (PickedUp(text[i][2], s, t))'
  BY <1>1, <1>3 DEF Sound
<1> QED BY <1>1, <1>2, <1>4 DEF WindowInv

LEMMA WindowStep ==
  ASSUME WindowInv, [WindowNext]_windowVars
  PROVE  WindowInv'
<1>1. CASE RefreshOnce
  BY <1>1, RefreshKeepsInv
<1>2. CASE HourPasses
  <2>1. clock' \in Nat /\ last <= clock' /\ UNCHANGED <<text, handed, last, longest>>
    BY <1>2 DEF HourPasses, WindowInv
  <2> QED BY <2>1 DEF WindowInv, PickedUp
<1>3. CASE UNCHANGED windowVars
  BY <1>3 DEF windowVars, WindowInv, PickedUp
<1> QED BY <1>1, <1>2, <1>3 DEF WindowNext

LEMMA WindowImplies ==
  ASSUME WindowInv
  PROVE  MissedOnlyInPause
<1> SUFFICES ASSUME NEW i \in Sound(text), NEW s \in TrueStarts(text[i][2]),
                    NEW t \in text[i][2].triggers,
                    From(text[i][2], s, t) >= 0,
                    Until(text[i][2], s, t) >= From(text[i][2], s, t),
                    clock > Until(text[i][2], s, t),
                    Quiet <= Until(text[i][2], s, t) - From(text[i][2], s, t),
                    ~Dense(text[i][2])
             PROVE  <<text[i][2], s, t>> \in handed
  BY DEF MissedOnlyInPause
<1> DEFINE e == text[i][2]
           from == From(e, s, t)
           to == Until(e, s, t)
<1>1. from \in Int /\ to \in Int
  BY WindowTimes DEF WindowInv
<1>2. PickedUp(e, s, t)
  BY DEF WindowInv
<1>3. from >= 0 /\ to >= from /\ clock > to /\ Quiet <= to - from /\ ~Dense(e)
  OBVIOUS
<1> HIDE DEF e, from, to
<1>4. last > 0 /\ last >= from /\ longest <= to - from
  BY <1>1, <1>3 DEF WindowInv, Quiet
<1>5. <<e, s, t>> \in handed
  BY <1>2, <1>3, <1>4 DEF PickedUp, from, to
<1> QED BY <1>5 DEF e

(* For any calendar, horizon, grace and limit: a reminder that no refresh  *)
(* handed over was missed because the refreshes paused, because its rule   *)
(* is too dense or its block unsound (do_refresh, parse).                  *)
THEOREM RemindersAreHandedOver == WindowSpec => []MissedOnlyInPause
<1>1. WindowInit => WindowInv
  <2> SUFFICES ASSUME WindowInit PROVE WindowInv
    OBVIOUS
  <2>1. ASSUME NEW i \in Sound(text), NEW s \in TrueStarts(text[i][2]),
               NEW t \in text[i][2].triggers
        PROVE  PickedUp(text[i][2], s, t)
    <3> DEFINE e == text[i][2]
    <3>1. text \in Calendars /\ last = 0 /\ longest = 0
      BY DEF WindowInit
    <3> QED BY <2>1, <3>1 DEF PickedUp
  <2> QED BY <2>1 DEF WindowInit, WindowInv
<1>2. WindowInv /\ [WindowNext]_windowVars => WindowInv'
  BY WindowStep
<1>3. WindowInv => MissedOnlyInPause
  BY WindowImplies
<1> QED BY <1>1, <1>2, <1>3, PTL DEF WindowSpec
-----------------------------------------------------------------------------
(* Nothing but the calendar's own events is ever handed over.              *)
LEMMA DocumentIsLines ==
  ASSUME NEW x \in Calendars
  PROVE  Document(x) \in Seq(LineSet)
<1> DEFINE n == Len(x)
           S == Blocks(x)
<1>1. n \in Nat /\ DOMAIN x = 1..n
  BY WindowAssumption
<1>2. \A j \in 1..n : S[j] \in Seq(LineSet) /\ Len(S[j]) \in Nat /\ Len(S[j]) >= 2
  <2> TAKE j \in 1..n
  <2>1. x[j] \in {"whole", "open", "bad"} \X Events
    BY <1>1, WindowAssumption
  <2>2. S[j] = Lines(x[j])
    BY <1>1 DEF Blocks
  <2>3. Lines(x[j]) \in Seq(LineSet) /\ Len(Lines(x[j])) >= 2
    BY <2>1, LinesAre
  <2> QED BY <2>2, <2>3
<1>3. S \in Seq(Seq(LineSet)) /\ Len(S) = n
  BY <1>1, <1>2 DEF Blocks
<1>4. Document(x) = FlattenSeq(S)
  BY DEF Document, Blocks
<1> HIDE DEF S, n
<1>5. CASE n = 0
  <2>1. Document(x) = S
    BY <1>3, <1>4, <1>5 DEF FlattenSeq
  <2>2. S = <<>>
    BY <1>3, <1>5
  <2> QED BY <2>1, <2>2
<1>6. CASE n # 0
  <2>1. n >= 1 /\ n <= Len(S) /\ n \in 1..n
    BY <1>1, <1>3, <1>6
  <2>2. PICK f : f = [j \in 1..n |-> Prefix(S, j, f)] /\ FlattenSeq(S) = f[n]
    BY <1>1, <1>3, <1>6, Flattened
  <2>3. \A j \in 1..n : Len(S[j]) >= 1
    BY <1>2
  <2>4. f[n] \in Seq(LineSet)
    BY <1>1, <1>3, <2>1, <2>2, <2>3, Layout
  <2> QED BY <1>4, <2>2, <2>4
<1> QED BY <1>5, <1>6

LEMMA BlocksAreLines ==
  ASSUME NEW d \in Seq(LineSet), NEW b \in SplitBlocks(d)
  PROVE  b \in Seq(LineSet)
<1> DEFINE Ends(c) == {x \in DOMAIN d : x > c /\ d[x] = End}
           ReachOf(c) == IF Ends(c) = {} THEN Len(d) ELSE Min(Ends(c))
           heads == {h \in Marks(d) : \A c \in Marks(d) :
                                        c < h => \E x \in Ends(c) : x < h}
<1>1. CASE Cardinality(Marks(d)) <= 1
  BY <1>1 DEF SplitBlocks
<1>2. CASE ~(Cardinality(Marks(d)) <= 1)
  <2>1. PICK h \in Marks(d) : b = SubSeq(d, h, ReachOf(h))
    <3>1. SplitBlocks(d) = {SubSeq(d, h, ReachOf(h)) : h \in heads}
      BY <1>2 DEF SplitBlocks
    <3> HIDE DEF ReachOf
    <3>2. \E h \in heads : b = SubSeq(d, h, ReachOf(h))
      BY <3>1
    <3> QED BY <3>2
  <2>2. h \in 1..Len(d) /\ Len(d) \in Nat
    BY <2>1 DEF Marks
  <2>3. ReachOf(h) \in 1..Len(d)
    <3>1. CASE Ends(h) = {}
      BY <2>2, <3>1
    <3>2. CASE Ends(h) # {}
      <4> DEFINE M == Ends(h)
      <4>1. M \subseteq 1..Len(d) /\ M \subseteq Nat /\ M # {}
        BY <2>2, <3>2
      <4> HIDE DEF M
      <4>2. PICK z \in M : \A y \in M : z <= y
        BY <4>1, Least
      <4>3. Min(M) \in M
        BY <4>2 DEF Min
      <4> QED BY <3>2, <4>1, <4>3 DEF M
    <3> QED BY <3>1, <3>2
  <2> DEFINE l == ReachOf(h)
  <2>4. l \in 1..Len(d)
    BY <2>3
  <2> HIDE DEF l
  <2>5. SubSeq(d, h, l) \in Seq(LineSet)
    BY <2>2, <2>4
  <2> QED BY <2>1, <2>5 DEF l
<1> QED BY <1>1, <1>2

LEMMA EventsAreKnown ==
  ASSUME NEW x \in Calendars
  PROVE  EventsIn(Document(x)) \subseteq Events
<1> DEFINE d == Document(x)
<1>1. d \in Seq(LineSet)
  BY DocumentIsLines
<1> HIDE DEF d
<1> SUFFICES ASSUME NEW b \in SplitBlocks(d), NEW e \in BlockEvents(b)
             PROVE  e \in Events
  BY DEF EventsIn, d
<1>2. b \in Seq(LineSet)
  BY <1>1, BlocksAreLines
<1>3. PICK i \in 2..Len(b) - 1 : e = b[i][2] /\ b[i] \notin {Begin, End, Garbled}
  BY DEF BlockEvents
<1>4. b[i] \in LineSet
  BY <1>2, <1>3
<1>5. PICK v \in Events : b[i] = <<"event", v>>
  BY <1>3, <1>4 DEF LineSet
<1> QED BY <1>3, <1>5

WindowTimesOK ==
  /\ clock \in Nat /\ clock <= MaxTime
  /\ last \in Nat /\ last <= clock /\ longest \in Nat /\ longest <= clock
  /\ text \in Calendars
  /\ \A h \in handed : h[1] \in Events

(* The refresh loop's variables keep their types, and what it handed over  *)
(* are reminders of the calendar's own events (parse, do_refresh).         *)
THEOREM WindowIsTyped == WindowSpec => []WindowTypeOK
<1>1. WindowInit => WindowTimesOK
  BY WindowAssumption DEF WindowInit, WindowTimesOK
<1>2. WindowTimesOK /\ RefreshOnce => WindowTimesOK'
  <2> SUFFICES ASSUME WindowTimesOK, RefreshOnce PROVE WindowTimesOK'
    OBVIOUS
  <2>1. \A h \in handed' : h[1] \in Events
    <3> SUFFICES ASSUME NEW h \in handed', h \notin handed PROVE h[1] \in Events
      BY DEF WindowTimesOK
    <3>1. PICK e \in EventsIn(Document(text)) :
            h \in {<<e, r[1], r[2]>> : r \in Reminders(e, clock)}
      BY DEF RefreshOnce
    <3>2. h[1] = e
      BY <3>1
    <3> QED BY <3>1, <3>2, EventsAreKnown DEF WindowTimesOK
  <2>2. text' = text /\ clock' = clock /\ last' = clock
        /\ longest' = IF clock - last > longest THEN clock - last ELSE longest
    BY DEF RefreshOnce
  <2>3. clock - last \in Nat /\ clock - last <= clock
    BY DEF WindowTimesOK
  <2> QED BY <2>1, <2>2, <2>3 DEF WindowTimesOK
<1>3. WindowTimesOK /\ (HourPasses \/ UNCHANGED windowVars) => WindowTimesOK'
  BY WindowAssumption DEF WindowTimesOK, HourPasses, windowVars
<1>4. WindowTimesOK => WindowTypeOK
  BY WindowAssumption DEF WindowTimesOK, WindowTypeOK
<1> QED BY <1>1, <1>2, <1>3, <1>4, PTL DEF WindowSpec, WindowNext
-----------------------------------------------------------------------------
(* DailySummary: dates and zones.                                           *)

(* The date of a local time is the one whose hours it is among.            *)
LEMMA DateBounds ==
  ASSUME NEW l \in Int
  PROVE  /\ DateOf(l) \in Int
         /\ DateOf(l) * Day <= l /\ l < DateOf(l) * Day + Day
BY FeedAssumption DEF DateOf

LEMMA Multiples ==
  ASSUME NEW a \in Int, NEW b \in Int, a < b
  PROVE  a * Day + Day <= b * Day
<1>1. a + 1 <= b /\ Day \in Nat
  BY FeedAssumption
<1>2. (a + 1) * Day <= b * Day
  BY <1>1
<1>3. (a + 1) * Day = a * Day + Day
  BY <1>1
<1> QED BY <1>1, <1>2, <1>3

LEMMA DatesInOrder ==
  ASSUME NEW l \in Int, NEW m \in Int, l <= m
  PROVE  DateOf(l) <= DateOf(m)
<1>1. CASE DateOf(m) < DateOf(l)
  <2>1. DateOf(m) * Day + Day <= DateOf(l) * Day
    BY <1>1, DateBounds, Multiples
  <2> DEFINE x == DateOf(m) * Day
             y == DateOf(l) * Day
  <2>2. x \in Int /\ y \in Int /\ Day \in Int /\ x + Day <= y /\ y <= l /\ m < x + Day
    BY <2>1, DateBounds, FeedAssumption
  <2> HIDE DEF x, y
  <2> QED BY <2>2
<1> QED BY <1>1, DateBounds

LEMMA DateOfHour ==
  ASSUME NEW d \in Int, NEW h \in 0..Day - 1
  PROVE  d * Day + h \in Int /\ DateOf(d * Day + h) = d
<1> DEFINE l == d * Day + h
           e == DateOf(l)
           x == d * Day
           y == e * Day
<1>1. Day \in Nat /\ x \in Int /\ h \in Int /\ 0 <= h /\ h < Day
  BY FeedAssumption
<1>2. l \in Int
  BY <1>1
<1>3. e \in Int /\ y \in Int /\ y <= l /\ l < y + Day
  BY <1>1, <1>2, DateBounds
<1>4. (e < d => y + Day <= x) /\ (d < e => x + Day <= y)
  BY <1>3, Multiples
<1>5. l = x + h
  OBVIOUS
<1> HIDE DEF l, e, x, y
<1>6. ~(e < d) /\ ~(d < e)
  BY <1>1, <1>2, <1>3, <1>4, <1>5
<1> QED BY <1>2, <1>3, <1>6 DEF l, e

LEMMA NextDate ==
  ASSUME NEW l \in Int, NEW d \in Int, l < d * Day + Day
  PROVE  DateOf(l) <= d
<1>1. CASE d < DateOf(l)
  <2>1. d * Day + Day <= DateOf(l) * Day
    BY <1>1, DateBounds, Multiples
  <2> DEFINE x == d * Day
             y == DateOf(l) * Day
  <2>2. x \in Int /\ y \in Int /\ Day \in Int /\ x + Day <= y /\ y <= l /\ l < x + Day
    BY <2>1, DateBounds, FeedAssumption
  <2> HIDE DEF x, y
  <2> QED BY <2>2
<1> QED BY <1>1, DateBounds
-----------------------------------------------------------------------------
ZoneOK == zone \in Zones
HourOf(d) == d * Day + hour
HasHour(d) == InstantsOf(HourOf(d)) # {}
Earliest(l) == Min(InstantsOf(l))
Fire(d) == Earliest(HourOf(d))

LEMMA ZoneTypes ==
  ASSUME ZoneOK
  PROVE  /\ zone.at \in Int /\ zone.before \in Int /\ zone.after \in Int
         /\ 1 - Day <= zone.before /\ zone.before <= Day - 1
         /\ 1 - Day <= zone.after /\ zone.after <= Day - 1
BY SummaryAssumption, FeedAssumption DEF ZoneOK

LEMMA LocalType ==
  ASSUME ZoneOK, NEW u \in Int
  PROVE  LocalAt(u) \in Int /\ LocalAt(u) = u + (IF u < zone.at THEN zone.before ELSE zone.after)
BY ZoneTypes DEF LocalAt, OffsetAt

LEMMA EarliestIs ==
  ASSUME ZoneOK, NEW l \in Int, InstantsOf(l) # {}
  PROVE  /\ Earliest(l) \in Int /\ LocalAt(Earliest(l)) = l
         /\ \A u \in Int : LocalAt(u) = l => Earliest(l) <= u
<1> DEFINE a == l - zone.before
           b == l - zone.after
           S == InstantsOf(l)
<1>1. a \in Int /\ b \in Int
  BY ZoneTypes
<1>2. S = {u \in {a, b} : LocalAt(u) = l}
  BY DEF InstantsOf
<1>3. \A u \in Int : LocalAt(u) = l => u = a \/ u = b
  BY LocalType, ZoneTypes
<1> HIDE DEF a, b, S
<1>4. S \subseteq {a, b} /\ S # {}
  BY <1>2 DEF S
<1>5. \E x \in S : \A y \in S : x <= y
  <2>1. CASE S = {a}
    BY <1>1, <2>1
  <2>2. CASE S = {b}
    BY <1>1, <2>2
  <2>3. CASE S = {a, b}
    <3>1. a <= b \/ b <= a
      BY <1>1
    <3> QED BY <1>1, <2>3, <3>1
  <2> QED BY <1>4, <2>1, <2>2, <2>3
<1>6. Min(S) \in S /\ \A y \in S : Min(S) <= y
  BY <1>5 DEF Min
<1>7. Earliest(l) = Min(S)
  BY DEF Earliest, S
<1>8. Min(S) \in Int /\ LocalAt(Min(S)) = l
  BY <1>1, <1>2, <1>6
<1>9. \A u \in Int : LocalAt(u) = l => u \in S
  BY <1>2, <1>3
<1> QED BY <1>6, <1>7, <1>8, <1>9

LEMMA Instants ==
  ASSUME ZoneOK, NEW u \in Int, NEW l \in Int, LocalAt(u) = l
  PROVE  InstantsOf(l) # {}
BY ZoneTypes DEF InstantsOf, LocalAt, OffsetAt

(* What the clocks show before now was shown first before now.             *)
LEMMA ShownBefore ==
  ASSUME ZoneOK, NEW u \in Int, NEW l \in Int, InstantsOf(l) # {}, l <= LocalAt(u)
  PROVE  Earliest(l) <= u
<1> DEFINE e == Earliest(l)
           w == l - zone.before
<1>1. e \in Int /\ LocalAt(e) = l /\ \A v \in Int : LocalAt(v) = l => e <= v
  BY EarliestIs
<1>2. w \in Int /\ w + zone.before = l
  BY ZoneTypes
<1> HIDE DEF e, w
<1>3. CASE u < zone.at /\ ~(e < zone.at)
  <2>1. w <= u
    BY <1>2, <1>3, ZoneTypes, LocalType
  <2>2. w < zone.at
    BY <1>2, <1>3, <2>1, ZoneTypes
  <2>3. LocalAt(w) = l
    BY <1>2, <2>2, LocalType
  <2>4. e <= w
    BY <1>1, <1>2, <2>3
  <2>5. e <= u
    BY <1>1, <1>2, <2>1, <2>4
  <2> QED BY <2>5 DEF e
<1>4. CASE ~(u < zone.at /\ ~(e < zone.at))
  <2>1. LocalAt(u) = u + (IF u < zone.at THEN zone.before ELSE zone.after)
    BY LocalType
  <2>2. LocalAt(e) = e + (IF e < zone.at THEN zone.before ELSE zone.after)
    BY <1>1, LocalType
  <2>3. e <= u
    BY <1>1, <1>4, <2>1, <2>2, ZoneTypes
  <2> QED BY <2>3 DEF e
<1> QED BY <1>3, <1>4

LEMMA EarliestInOrder ==
  ASSUME ZoneOK, NEW l \in Int, NEW m \in Int, l < m,
         InstantsOf(l) # {}, InstantsOf(m) # {}
  PROVE  Earliest(l) < Earliest(m)
<1> DEFINE e == Earliest(l)
           f == Earliest(m)
<1>1. e \in Int /\ LocalAt(e) = l /\ f \in Int /\ LocalAt(f) = m
  BY EarliestIs
<1>2. e <= f
  BY <1>1, ShownBefore
<1> HIDE DEF e, f
<1>3. e # f
  BY <1>1
<1>4. e < f
  BY <1>1, <1>2, <1>3
<1> QED BY <1>4 DEF e, f

(* A time on a later date is still to come, if no date comes back.         *)
LEMMA StillToCome ==
  ASSUME ZoneOK, DatesGoForward, NEW u \in Int, NEW l \in Int, InstantsOf(l) # {},
         DateOf(LocalAt(u)) < DateOf(l)
  PROVE  u < Earliest(l)
<1> DEFINE e == Earliest(l)
<1>1. e \in Int /\ LocalAt(e) = l
  BY EarliestIs
<1> HIDE DEF e
<1>2. LocalAt(u) \in Int
  BY LocalType
<1>3. CASE l <= LocalAt(u)
  <2>1. DateOf(l) <= DateOf(LocalAt(u))
    BY <1>2, <1>3, DatesInOrder
  <2> QED BY <1>2, <2>1, DateBounds
<1>4. CASE LocalAt(u) < l /\ e < zone.at /\ ~(u < zone.at)
  <2> DEFINE x == zone.at - 1 + zone.before
             y == zone.at + zone.after
  <2>1. x \in Int /\ y \in Int
    BY ZoneTypes
  <2>2. l <= x
    BY <1>1, <1>4, LocalType, ZoneTypes
  <2>3. y <= LocalAt(u)
    BY <1>4, LocalType, ZoneTypes
  <2>4. DateOf(x) <= DateOf(y)
    BY DEF DatesGoForward
  <2> HIDE DEF x, y
  <2>5. DateOf(l) <= DateOf(x) /\ DateOf(y) <= DateOf(LocalAt(u))
    BY <1>2, <2>1, <2>2, <2>3, DatesInOrder
  <2>6. DateOf(l) \in Int /\ DateOf(x) \in Int /\ DateOf(y) \in Int
        /\ DateOf(LocalAt(u)) \in Int
    BY <1>2, <2>1, DateBounds
  <2> QED BY <2>4, <2>5, <2>6
<1>5. CASE LocalAt(u) < l /\ ~(e < zone.at /\ ~(u < zone.at))
  <2>1. LocalAt(u) = u + (IF u < zone.at THEN zone.before ELSE zone.after)
    BY LocalType
  <2>2. LocalAt(e) = e + (IF e < zone.at THEN zone.before ELSE zone.after)
    BY <1>1, LocalType
  <2>3. u < e
    BY <1>1, <1>5, <2>1, <2>2, ZoneTypes
  <2> QED BY <2>3 DEF e
<1> QED BY <1>2, <1>3, <1>4, <1>5
-----------------------------------------------------------------------------
(* The types, by steps: what the two invariants below take for granted.    *)
SummaryTypes ==
  /\ zone \in Zones /\ hour \in FireHours
  /\ utc \in Int /\ begun \in Int /\ woke \in Int /\ left \in Nat
  /\ loop \in {"top", "asleep", "fetching", "ended"}
  /\ sent \in [Dates -> Nat]

LEMMA TodayType ==
  ASSUME SummaryTypes
  PROVE  ZoneOK /\ LocalAt(utc) \in Int /\ Today \in Int
BY LocalType, DateBounds DEF SummaryTypes, ZoneOK, Today

LEMMA HourType ==
  ASSUME SummaryTypes, NEW d \in Int
  PROVE  HourOf(d) \in Int /\ DateOf(HourOf(d)) = d
BY SummaryAssumption, DateOfHour DEF SummaryTypes, HourOf

LEMMA FireType ==
  ASSUME SummaryTypes, NEW d \in Int, HasHour(d)
  PROVE  Fire(d) \in Int /\ LocalAt(Fire(d)) = HourOf(d)
BY HourType, EarliestIs DEF SummaryTypes, ZoneOK, HasHour, Fire

(* The zone and the hour do not change, nor do the times of the evenings.  *)
LEMMA Fixed ==
  ASSUME SummaryTypes, SummaryNext
  PROVE  /\ zone' = zone /\ hour' = hour /\ begun' = begun
         /\ DatesGoForward' = DatesGoForward
         /\ \A d : (HasHour(d))' = HasHour(d) /\ (Fire(d))' = Fire(d)
         /\ \A u : (LocalAt(u))' = LocalAt(u)
<1>1. zone' = zone /\ hour' = hour /\ begun' = begun
  BY DEF SummaryNext, PlanNext, WakeUp, DeliverSummary, SummaryFails, ClockTicks,
         Suspend, SetBack
<1>2. \A u : (LocalAt(u))' = LocalAt(u)
  BY <1>1 DEF LocalAt, OffsetAt
<1>3. \A l : (InstantsOf(l))' = InstantsOf(l)
  BY <1>1 DEF InstantsOf, LocalAt, OffsetAt
<1>4. \A d : (HasHour(d))' = HasHour(d)
  BY <1>1, <1>3 DEF HasHour, HourOf
<1>5. \A d : (Fire(d))' = Fire(d)
  BY <1>1, <1>3 DEF Fire, Earliest, HourOf
<1>6. DatesGoForward' = DatesGoForward
  BY <1>1 DEF DatesGoForward
<1> QED BY <1>1, <1>2, <1>4, <1>5, <1>6

LEMMA SummaryTypesStep ==
  ASSUME SummaryTypes, SummaryNext
  PROVE  SummaryTypes'
<1> USE SummaryAssumption, FeedAssumption
<1>1. CASE PlanNext
  <2>1. UNCHANGED <<zone, hour, utc, woke, begun, sent>>
    BY <1>1 DEF PlanNext
  <2>2. loop' \in {"ended", "asleep"}
    BY <1>1 DEF PlanNext
  <2>3. left' \in Nat
    <3>1. CASE NextFire = {}
      BY <1>1, <3>1 DEF PlanNext, SummaryTypes
    <3>2. CASE NextFire # {}
      <4>1. PICK l \in Int : NextFire = {Earliest(l)} /\ InstantsOf(l) # {}
        <5>1. HourOf(Today) \in Int /\ HourOf(Today + 1) \in Int
          BY TodayType, HourType
        <5> QED BY <3>2, <5>1 DEF NextFire, HourOf, Earliest
      <4>2. Earliest(l) \in Int
        BY <4>1, EarliestIs, TodayType
      <4>3. Min(NextFire) = Earliest(l)
        <5> DEFINE e == Earliest(l)
        <5>1. e \in Int /\ NextFire = {e}
          BY <4>1, <4>2
        <5> HIDE DEF e
        <5> QED BY <5>1 DEF Min, e
      <4>4. left' = IF Earliest(l) > utc THEN Earliest(l) - utc ELSE 0
        BY <1>1, <3>2, <4>3 DEF PlanNext
      <4> QED BY <4>2, <4>4 DEF SummaryTypes
    <3> QED BY <3>1, <3>2
  <2> QED BY <2>1, <2>2, <2>3 DEF SummaryTypes
<1>2. CASE WakeUp
  <2>1. woke' \in Int
    BY <1>2, TodayType DEF WakeUp
  <2> QED BY <1>2, <2>1 DEF WakeUp, SummaryTypes
<1>3. CASE DeliverSummary
  <2>1. sent' = [sent EXCEPT ![woke + 1] = @ + 1] /\ sent \in [Dates -> Nat]
    BY <1>3 DEF DeliverSummary, SummaryTypes
  <2> DEFINE x == woke + 1
             v == sent[x] + 1
  <2>2. sent' = [sent EXCEPT ![x] = v] /\ (x \in Dates => v \in Nat)
    BY <2>1
  <2> HIDE DEF x, v
  <2>3. sent' \in [Dates -> Nat]
    BY <2>1, <2>2
  <2> QED BY <1>3, <2>3 DEF DeliverSummary, SummaryTypes
<1>4. CASE SummaryFails
  BY <1>4 DEF SummaryFails, SummaryTypes
<1>5. CASE ClockTicks
  BY <1>5 DEF ClockTicks, SummaryTypes
<1>6. CASE Suspend
  <2>1. Day \div 2 \in Int
    OBVIOUS
  <2>2. utc' \in Int
    BY <1>6, <2>1 DEF Suspend, SummaryTypes
  <2> QED BY <1>6, <2>2 DEF Suspend, SummaryTypes
<1>7. CASE SetBack
  BY <1>7 DEF SetBack, SummaryTypes
<1> QED BY <1>1, <1>2, <1>3, <1>4, <1>5, <1>6, <1>7 DEF SummaryNext

LEMMA SummaryTypesInit ==
  ASSUME SummaryInit
  PROVE  SummaryTypes
<1>1. utc \in Int /\ begun \in Int
  BY FeedAssumption DEF SummaryInit
<1> QED BY <1>1 DEF SummaryInit, SummaryTypes

(* next_summary_fire: none, today's first instant if it is to come, or     *)
(* tomorrow's.                                                             *)
LEMMA NextFireIs ==
  ASSUME SummaryTypes, NextFire # {}
  PROVE  \/ HasHour(Today) /\ Min(NextFire) = Fire(Today) /\ Fire(Today) > utc
         \/ /\ HasHour(Today) /\ HasHour(Today + 1) /\ ~(Fire(Today) > utc)
            /\ Min(NextFire) = Fire(Today + 1)
<1>1. Today \in Int
  BY TodayType
<1>2. \A e \in Int : Min({e}) = e
  BY DEF Min
<1>3. CASE HasHour(Today) /\ Fire(Today) > utc
  <2>1. NextFire = {Fire(Today)}
    BY <1>3 DEF NextFire, HasHour, Fire, Earliest, HourOf
  <2> QED BY <1>1, <1>2, <1>3, <2>1, FireType
<1>4. CASE ~(HasHour(Today) /\ Fire(Today) > utc)
  <2>1. HasHour(Today) /\ HasHour(Today + 1) /\ NextFire = {Fire(Today + 1)}
    BY <1>4 DEF NextFire, HasHour, Fire, Earliest, HourOf
  <2>2. Fire(Today + 1) \in Int
    BY <1>1, <2>1, FireType
  <2> QED BY <1>2, <1>4, <2>1, <2>2
<1> QED BY <1>3, <1>4
-----------------------------------------------------------------------------
(* No agenda later than this one was delivered.                            *)
Upto(D) == \A d \in Dates : sent[d] > 0 => d <= D

(* No agenda twice: while the loop sleeps it is for an evening whose       *)
(* agenda, and every later one, is still to come; and it wakes on time.    *)
OneInv ==
  Undisturbed /\ DatesGoForward =>
    /\ \A d \in Dates : sent[d] <= 1
    /\ loop = "top" =>
         \/ \A d \in Dates : sent[d] = 0
         \/ HasHour(Today) /\ utc = Fire(Today) /\ Upto(Today + 1)
    /\ loop = "asleep" =>
         \E D \in Int : HasHour(D) /\ utc + left = Fire(D) /\ Upto(D)
    /\ loop = "fetching" =>
         HasHour(woke) /\ utc = Fire(woke) /\ Today = woke /\ Upto(woke)

LEMMA WokeOnTime ==
  ASSUME SummaryTypes, NEW D \in Int, HasHour(D), utc = Fire(D)
  PROVE  Today = D
BY FireType, HourType DEF Today

LEMMA DatesAreInts == Dates \subseteq Int
BY SummaryAssumption, FeedAssumption DEF Dates

LEMMA OneStep ==
  ASSUME SummaryTypes, OneInv, SummaryNext
  PROVE  OneInv'
<1> SUFFICES ASSUME (Undisturbed /\ DatesGoForward)'
             PROVE  /\ \A d \in Dates : sent'[d] <= 1
                    /\ loop' = "top" =>
                         \/ \A d \in Dates : sent'[d] = 0
                         \/ (HasHour(Today) /\ utc = Fire(Today) /\ Upto(Today + 1))'
                    /\ loop' = "asleep" =>
                         \E D \in Int : (HasHour(D) /\ utc + left = Fire(D) /\ Upto(D))'
                    /\ loop' = "fetching" =>
                         (HasHour(woke) /\ utc = Fire(woke) /\ Today = woke /\ Upto(woke))'
  BY DEF OneInv, Dates
<1>1. DatesGoForward
  BY Fixed
<1>2. Undisturbed /\ ~Suspend /\ ~SetBack
  BY DEF Undisturbed, SummaryNext, PlanNext, WakeUp, DeliverSummary, SummaryFails,
         ClockTicks, Suspend, SetBack
<1>3. \A d \in Dates : sent[d] <= 1
  BY <1>1, <1>2 DEF OneInv
<1>4. \A d : (HasHour(d))' = HasHour(d) /\ (Fire(d))' = Fire(d)
  BY Fixed
<1>5. \A u : (LocalAt(u))' = LocalAt(u)
  BY Fixed
<1>6. sent' = sent => \A D : (Upto(D))' = Upto(D)
  BY DEF Upto, Dates
<1>7. CASE PlanNext
  <2>1. utc' = utc /\ sent' = sent /\ loop = "top"
    BY <1>7 DEF PlanNext
  <2>2. CASE NextFire = {}
    BY <1>3, <1>7, <2>1, <2>2 DEF PlanNext
  <2>3. CASE NextFire # {}
    <3>1. loop' = "asleep"
          /\ left' = IF Min(NextFire) > utc THEN Min(NextFire) - utc ELSE 0
      BY <1>7, <2>3 DEF PlanNext
    <3>2. \/ \A d \in Dates : sent[d] = 0
          \/ HasHour(Today) /\ utc = Fire(Today) /\ Upto(Today + 1)
      BY <1>1, <1>2, <2>1 DEF OneInv
    <3>3. utc \in Int /\ Today \in Int
      BY TodayType DEF SummaryTypes
    <3>4. PICK D \in Int : HasHour(D) /\ Min(NextFire) = Fire(D) /\ Fire(D) > utc /\ Upto(D)
      <4>1. CASE HasHour(Today) /\ Min(NextFire) = Fire(Today) /\ Fire(Today) > utc
        <5>1. \A d \in Dates : sent[d] = 0
          BY <3>2, <3>3, <4>1
        <5>2. Upto(Today)
          BY <5>1 DEF Upto
        <5> QED BY <3>3, <4>1, <5>2
      <4>2. CASE /\ HasHour(Today) /\ HasHour(Today + 1) /\ ~(Fire(Today) > utc)
                 /\ Min(NextFire) = Fire(Today + 1)
        <5>1. Upto(Today + 1)
          BY <3>2 DEF Upto
        <5>2. Today + 1 \in Int /\ Today < Today + 1
          BY <3>3
        <5>3. HourOf(Today + 1) \in Int /\ DateOf(HourOf(Today + 1)) = Today + 1
          BY <5>2, HourType
        <5>4. utc < Earliest(HourOf(Today + 1))
          BY <1>1, <3>3, <4>2, <5>2, <5>3, StillToCome, TodayType DEF HasHour, Today
        <5>5. Fire(Today + 1) \in Int /\ utc < Fire(Today + 1)
          BY <4>2, <5>2, <5>4, FireType DEF Fire
        <5> QED BY <3>3, <4>2, <5>1, <5>2, <5>5
      <4> QED BY <2>3, <4>1, <4>2, NextFireIs
    <3>5. Fire(D) \in Int
      BY <3>4, FireType
    <3>6. utc' + left' = Fire(D)
      BY <2>1, <3>1, <3>3, <3>4, <3>5
    <3>7. (HasHour(D) /\ utc + left = Fire(D) /\ Upto(D))'
      BY <1>4, <1>6, <2>1, <3>4, <3>6
    <3> QED BY <1>3, <2>1, <3>1, <3>7
  <2> QED BY <2>2, <2>3
<1>8. CASE WakeUp
  <2>1. utc' = utc /\ sent' = sent /\ loop = "asleep" /\ left = 0 /\ woke' = Today
        /\ loop' = "fetching"
    BY <1>8 DEF WakeUp
  <2>2. PICK D \in Int : HasHour(D) /\ utc + left = Fire(D) /\ Upto(D)
    BY <1>1, <1>2, <2>1 DEF OneInv
  <2>3. utc = Fire(D)
    BY <2>1, <2>2 DEF SummaryTypes
  <2>4. Today = D
    BY <2>2, <2>3, WokeOnTime
  <2>5. Today' = Today
    BY <1>5, <2>1 DEF Today
  <2>6. woke' = D /\ Today' = woke'
    BY <2>1, <2>4, <2>5
  <2>7. (HasHour(D) /\ utc = Fire(D) /\ Upto(D))'
    BY <1>4, <1>6, <2>1, <2>2, <2>3
  <2>8. (HasHour(woke) /\ utc = Fire(woke) /\ Upto(woke))'
    BY <2>6, <2>7 DEF HasHour, Fire, Upto, HourOf
  <2> QED BY <1>3, <2>1, <2>6, <2>8
<1>9. CASE DeliverSummary \/ SummaryFails
  <2>1. utc' = utc /\ loop = "fetching" /\ loop' = "top"
    BY <1>9 DEF DeliverSummary, SummaryFails
  <2>2. HasHour(woke) /\ utc = Fire(woke) /\ Today = woke /\ Upto(woke)
    BY <1>1, <1>2, <2>1 DEF OneInv
  <2>3. Today' = Today
    BY <1>5, <2>1 DEF Today
  <2>4. woke \in Int /\ sent \in [Dates -> Nat]
    BY DEF SummaryTypes
  <2>5. sent' = sent \/ sent' = [sent EXCEPT ![woke + 1] = @ + 1]
    BY <1>9 DEF DeliverSummary, SummaryFails
  <2>6. \A d \in Dates : d # woke + 1 => sent'[d] = sent[d]
    BY <2>4, <2>5
  <2>7. woke + 1 \in Dates => sent'[woke + 1] \in {0, 1}
    <3>1. SUFFICES ASSUME woke + 1 \in Dates  PROVE sent'[woke + 1] \in {0, 1}
      OBVIOUS
    <3>2. ~(sent[woke + 1] > 0)
      BY <2>2, <2>4, <3>1 DEF Upto
    <3>3. sent[woke + 1] = 0
      BY <2>4, <3>1, <3>2
    <3> QED BY <2>4, <2>5, <3>1, <3>3
  <2>8. \A d \in Dates : sent'[d] <= 1
    BY <1>3, <2>6, <2>7
  <2>9. \A d \in Dates : sent'[d] > 0 => d <= woke + 1
    BY <2>2, <2>4, <2>6, DatesAreInts DEF Upto
  <2>10. (HasHour(woke) /\ utc = Fire(woke) /\ Upto(woke + 1))' /\ woke' = woke
    <3>1. woke' = woke
      BY <1>9 DEF DeliverSummary, SummaryFails
    <3>2. (Upto(woke + 1))'
      BY <2>9, <3>1 DEF Upto, Dates
    <3>3. (HasHour(woke))' /\ (Fire(woke))' = Fire(woke)
      BY <1>4, <2>2, <3>1 DEF HasHour, Fire, HourOf
    <3> QED BY <2>1, <2>2, <3>1, <3>2, <3>3
  <2>11. Today' = woke'
    BY <2>2, <2>3, <2>10
  <2>12. (HasHour(Today) /\ utc = Fire(Today) /\ Upto(Today + 1))'
    BY <2>10, <2>11 DEF HasHour, Fire, HourOf, Upto
  <2> QED BY <2>1, <2>8, <2>12
<1>10. CASE ClockTicks
  <2>1. sent' = sent /\ loop' = loop
    BY <1>10 DEF ClockTicks
  <2>2. CASE loop = "ended"
    BY <1>3, <2>1, <2>2
  <2>3. CASE loop = "asleep"
    <3>1. PICK D \in Int : HasHour(D) /\ utc + left = Fire(D) /\ Upto(D)
      BY <1>1, <1>2, <2>3 DEF OneInv
    <3>2. utc' + left' = Fire(D)
      <4>1. utc' = utc + 1 /\ left' = left - 1
        BY <1>10, <2>3 DEF ClockTicks
      <4>2. utc' + left' = utc + left
        BY <4>1 DEF SummaryTypes
      <4> QED BY <3>1, <4>2
    <3>3. (HasHour(D) /\ utc + left = Fire(D) /\ Upto(D))'
      BY <1>4, <1>6, <2>1, <3>1, <3>2
    <3> QED BY <1>3, <2>1, <2>3, <3>3
  <2> QED BY <1>10, <2>2, <2>3 DEF ClockTicks
<1> QED BY <1>2, <1>7, <1>8, <1>9, <1>10 DEF SummaryNext

LEMMA SummaryStutters ==
  ASSUME UNCHANGED summaryVars
  PROVE  /\ SummaryTypes => SummaryTypes'
         /\ OneInv => OneInv'
<1>1. \A d : (HasHour(d))' = HasHour(d) /\ (Fire(d))' = Fire(d) /\ (Upto(d))' = Upto(d)
  BY DEF summaryVars, HasHour, Fire, Earliest, InstantsOf, HourOf, LocalAt, OffsetAt,
         Upto, Dates
<1>2. Today' = Today /\ DatesGoForward' = DatesGoForward /\ Undisturbed' = Undisturbed
  BY DEF summaryVars, Today, LocalAt, OffsetAt, DatesGoForward, Undisturbed
<1>3. SummaryTypes => SummaryTypes'
  BY DEF summaryVars, SummaryTypes
<1>4. OneInv => OneInv'
  BY <1>1, <1>2 DEF summaryVars, OneInv, HasHour, Fire, Upto, HourOf
<1> QED BY <1>3, <1>4

(* Every behaviour of the loop has these types.                            *)
LEMMA SummaryTyped == SummarySpec => []SummaryTypes
<1>1. SummaryInit => SummaryTypes
  BY SummaryTypesInit
<1>2. SummaryTypes /\ [SummaryNext]_summaryVars => SummaryTypes'
  BY SummaryTypesStep, SummaryStutters
<1> QED BY <1>1, <1>2, PTL DEF SummarySpec

LEMMA AgendaStays == SummarySpec => [](agenda \in Agendas)
<1>1. SummaryInit => agenda \in Agendas
  BY DEF SummaryInit
<1>2. agenda \in Agendas /\ [SummaryNext]_summaryVars => (agenda \in Agendas)'
  BY DEF SummaryNext, summaryVars, PlanNext, WakeUp, DeliverSummary, SummaryFails,
         ClockTicks, Suspend, SetBack
<1> QED BY <1>1, <1>2, PTL DEF SummarySpec

(* The summary loop's variables keep their types.                          *)
LEMMA SummaryIsTyped == SummarySpec => []SummaryTypeOK
<1>1. SummaryTypes /\ agenda \in Agendas => SummaryTypeOK
  BY DEF SummaryTypes, SummaryTypeOK
<1> QED BY <1>1, SummaryTyped, AgendaStays, PTL

(* For any zone whose clocks never go back over midnight, any hour, any    *)
(* calendar and any failures: an undisturbed loop delivers no agenda twice *)
(* (next_summary_fire, daily_summary_loop).                                *)
THEOREM AgendaOnceADay == SummarySpec => []OneAgendaPerDay
<1>1. SummaryInit => OneInv
  BY DEF SummaryInit, OneInv
<1>2. SummaryTypes /\ OneInv /\ [SummaryNext]_summaryVars => OneInv'
  BY OneStep, SummaryStutters
<1>3. OneInv => OneAgendaPerDay
  BY DEF OneInv, OneAgendaPerDay
<1> QED BY <1>1, <1>2, <1>3, SummaryTyped, PTL DEF SummarySpec
-----------------------------------------------------------------------------
(* Every evening has its time.                                             *)
Evenings == \A d \in Dates : HasHour(d - 1)

(* The evenings before D are seen to, those the process has lived through. *)
Done(D) ==
  \A d \in Dates : d <= D /\ begun < Fire(d - 1) => sent[d] > 0 \/ d \in failed

(* No evening is missed: the loop sleeps for the first one that is not     *)
(* seen to.  (The loop waits for a second, over and over, only while the   *)
(* clock shows the time at which it began.)                                *)
MissInv ==
  Undisturbed /\ Evenings =>
    /\ loop # "ended"
    /\ begun <= utc /\ 0 <= utc /\ (utc <= MaxClock \/ utc <= Day - 1)
    /\ loop = "top" =>
         \/ utc = begun
         \/ HasHour(Today) /\ utc = Fire(Today) /\ Done(Today + 1)
    /\ loop = "asleep" =>
         \/ left = 0 /\ utc = begun
         \/ \E D \in Int : HasHour(D) /\ utc + left = Fire(D) /\ Done(D)
    /\ loop = "fetching" =>
         \/ utc = begun
         \/ HasHour(woke) /\ utc = Fire(woke) /\ Today = woke /\ Done(woke)

(* The dates the model speaks of include the ones the loop plans for.      *)
LEMMA WithinDates ==
  ASSUME SummaryTypes, Evenings, 0 <= utc, utc <= MaxClock \/ utc <= Day - 1
  PROVE  HasHour(Today) /\ HasHour(Today + 1)
<1> DEFINE q == DateOf(MaxClock)
           l == LocalAt(utc)
<1>1. Day \in Nat /\ MaxClock \in Int /\ 0 <= MaxClock /\ 1 <= Day
  BY FeedAssumption, SummaryAssumption
<1>2. q \in Int /\ MaxClock < q * Day + Day /\ 0 <= q
  <2>1. DateOf(0) = 0
    <3>1. 0 \in 0..Day - 1
      BY <1>1
    <3>2. DateOf(0 * Day + 0) = 0
      BY <3>1, DateOfHour
    <3>3. 0 * Day + 0 = 0
      BY <1>1
    <3> QED BY <3>2, <3>3
  <2>2. q \in Int /\ MaxClock < q * Day + Day
    BY <1>1, DateBounds
  <2>3. DateOf(0) <= DateOf(MaxClock)
    BY <1>1, DatesInOrder
  <2> QED BY <2>1, <2>2, <2>3
<1>3. l \in Int /\ 1 - Day <= l - utc /\ l - utc <= Day - 1 /\ utc \in Int
  BY LocalType, ZoneTypes, TodayType DEF SummaryTypes
<1>4. -1 <= Today
  <2>1. DateOf((-1) * Day) = -1
    <3>1. 0 \in 0..Day - 1
      BY <1>1
    <3>2. DateOf((-1) * Day + 0) = -1
      BY <3>1, DateOfHour
    <3>3. (-1) * Day + 0 = (-1) * Day
      BY <1>1
    <3> QED BY <3>2, <3>3
  <2>2. (-1) * Day \in Int /\ (-1) * Day = -Day
    BY <1>1
  <2>3. (-1) * Day <= l
    BY <1>1, <1>3, <2>2
  <2> QED BY <1>3, <2>1, <2>2, <2>3, DatesInOrder DEF Today
<1>5. Today <= q + 1
  <2> DEFINE y == q * Day
             z == (q + 1) * Day
  <2>1. y \in Int /\ z = y + Day /\ 0 <= y
    BY <1>1, <1>2
  <2> HIDE DEF q, l, y, z
  <2>2. l < z + Day
    BY <1>1, <1>2, <1>3, <2>1 DEF y
  <2>3. l < (q + 1) * Day + Day /\ q + 1 \in Int
    BY <1>2, <2>2 DEF z
  <2>4. DateOf(l) <= q + 1
    BY <1>3, <2>3, NextDate
  <2> QED BY <2>4 DEF Today, l
<1>6. Dates = -1..q + 3
  BY DEF Dates, DateOf
<1>7. Today \in Int
  BY TodayType
<1> HIDE DEF q, l
<1>8. Today + 1 \in Dates /\ Today + 2 \in Dates
  BY <1>2, <1>4, <1>5, <1>6, <1>7
<1>9. HasHour((Today + 1) - 1) /\ HasHour((Today + 2) - 1)
  BY <1>8 DEF Evenings
<1>10. (Today + 1) - 1 = Today /\ (Today + 2) - 1 = Today + 1
  BY <1>7
<1> QED BY <1>9, <1>10

(* The evenings before today are past.                                     *)
LEMMA EarlierEvenings ==
  ASSUME SummaryTypes, NEW d \in Int, HasHour(d), d < Today
  PROVE  Fire(d) <= utc
<1>1. HourOf(d) \in Int /\ DateOf(HourOf(d)) = d /\ LocalAt(utc) \in Int /\ Today \in Int
  BY HourType, TodayType
<1>2. HourOf(d) <= LocalAt(utc)
  <2>1. CASE LocalAt(utc) < HourOf(d)
    <3>1. Today <= d
      BY <1>1, <2>1, DatesInOrder DEF Today
    <3> QED BY <1>1, <3>1
  <2> QED BY <1>1, <2>1
<1> QED BY <1>1, <1>2, ShownBefore, TodayType DEF HasHour, Fire, SummaryTypes

LEMMA EveningsInOrder ==
  ASSUME SummaryTypes, NEW d \in Int, NEW e \in Int, HasHour(d), HasHour(e)
  PROVE  d < e <=> Fire(d) < Fire(e)
<1>1. \A a, b \in Int : HasHour(a) /\ HasHour(b) /\ a < b => Fire(a) < Fire(b)
  <2> TAKE a, b \in Int
  <2> HAVE HasHour(a) /\ HasHour(b) /\ a < b
  <2>1. HourOf(a) < HourOf(b)
    <3>1. a * Day + Day <= b * Day
      BY Multiples
    <3>2. Day \in Nat /\ 0 < Day /\ hour \in Int /\ a * Day \in Int /\ b * Day \in Int
      BY FeedAssumption, SummaryAssumption DEF SummaryTypes
    <3> QED BY <3>1, <3>2 DEF HourOf
  <2> QED BY <2>1, HourType, TodayType, EarliestInOrder DEF HasHour, Fire
<1>2. Fire(d) \in Int /\ Fire(e) \in Int
  BY FireType
<1>3. CASE d < e
  BY <1>1, <1>3
<1>4. CASE e < d
  BY <1>1, <1>2, <1>4
<1>5. CASE d = e
  BY <1>2, <1>5
<1> QED BY <1>3, <1>4, <1>5

(* Planning: the loop sleeps for the first evening to come, or, where the  *)
(* day is repeated, not at all.                                            *)
LEMMA MissPlan ==
  ASSUME SummaryTypes, MissInv, PlanNext, Undisturbed, Evenings
  PROVE  /\ loop' = "asleep" /\ utc' = utc
         /\ \/ left' = 0 /\ utc = begun
            \/ \E D \in Int : HasHour(D) /\ utc + left' = Fire(D) /\ Done(D)
<1>1. loop = "top" /\ utc' = utc
  BY DEF PlanNext
<1>2. HasHour(Today) /\ HasHour(Today + 1) /\ Today \in Int /\ utc \in Int
  BY WithinDates, TodayType DEF MissInv, SummaryTypes
<1>3. Fire(Today) \in Int /\ Fire(Today + 1) \in Int
  BY <1>2, FireType
<1>4. NextFire # {}
  BY <1>2 DEF NextFire, HasHour, HourOf
<1>5. loop' = "asleep"
      /\ left' = IF Min(NextFire) > utc THEN Min(NextFire) - utc ELSE 0
  BY <1>4 DEF PlanNext
<1>6. \A d \in Dates : d \in Int /\ HasHour(d - 1) /\ Fire(d - 1) \in Int
  BY DatesAreInts, FireType DEF Evenings
<1>7. utc = begun \/ (utc = Fire(Today) /\ Done(Today + 1))
  BY <1>1 DEF MissInv
<1>8. CASE Min(NextFire) = Fire(Today) /\ Fire(Today) > utc
  <2>1. utc = begun
    BY <1>3, <1>7, <1>8
  <2>2. Done(Today)
    <3> SUFFICES ASSUME NEW d \in Dates, d <= Today, begun < Fire(d - 1)
                 PROVE  FALSE
      BY DEF Done
    <3>1. d - 1 < Today /\ d - 1 \in Int /\ HasHour(d - 1) /\ Fire(d - 1) \in Int
      BY <1>2, <1>6
    <3>2. Fire(d - 1) <= utc
      BY <3>1, EarlierEvenings
    <3> QED BY <1>2, <2>1, <3>1, <3>2
  <2>3. utc + left' = Fire(Today)
    BY <1>2, <1>3, <1>5, <1>8
  <2> QED BY <1>1, <1>2, <1>5, <2>2, <2>3
<1>9. CASE ~(Fire(Today) > utc) /\ Min(NextFire) = Fire(Today + 1)
  <2>1. Done(Today + 1)
    <3>1. CASE utc = begun
      <4> SUFFICES ASSUME NEW d \in Dates, d <= Today + 1, begun < Fire(d - 1)
                   PROVE  FALSE
        BY DEF Done
      <4>1. d - 1 <= Today /\ d - 1 \in Int /\ HasHour(d - 1) /\ Fire(d - 1) \in Int
        BY <1>2, <1>6
      <4>2. CASE d - 1 < Today
        <5>1. Fire(d - 1) <= utc
          BY <4>1, <4>2, EarlierEvenings
        <5> QED BY <1>2, <3>1, <4>1, <5>1
      <4>3. CASE d - 1 = Today
        <5>1. Fire(d - 1) = Fire(Today)
          BY <4>3
        <5> QED BY <1>2, <1>3, <1>9, <3>1, <5>1
      <4> QED BY <1>2, <4>1, <4>2, <4>3
    <3> QED BY <1>7, <3>1
  <2>2. CASE Fire(Today + 1) > utc
    <3>1. utc + left' = Fire(Today + 1)
      BY <1>2, <1>3, <1>5, <1>9, <2>2
    <3> QED BY <1>1, <1>2, <1>5, <2>1, <3>1
  <2>3. CASE ~(Fire(Today + 1) > utc)
    <3>1. left' = 0
      BY <1>5, <1>9, <2>3
    <3>2. Fire(Today) < Fire(Today + 1)
      BY <1>2, EveningsInOrder
    <3>3. utc = begun
      BY <1>2, <1>3, <1>7, <2>3, <3>2
    <3> QED BY <1>1, <1>5, <3>1, <3>3
  <2> QED BY <2>2, <2>3
<1> QED BY <1>4, <1>8, <1>9, NextFireIs

LEMMA MissStep ==
  ASSUME SummaryTypes, MissInv, SummaryNext
  PROVE  MissInv'
<1> SUFFICES ASSUME Undisturbed', Evenings'
             PROVE  /\ loop' # "ended"
                    /\ (begun <= utc /\ 0 <= utc /\ (utc <= MaxClock \/ utc <= Day - 1))'
                    /\ loop' = "top" =>
                         \/ utc' = begun'
                         \/ (HasHour(Today) /\ utc = Fire(Today) /\ Done(Today + 1))'
                    /\ loop' = "asleep" =>
                         \/ left' = 0 /\ utc' = begun'
                         \/ \E D \in Int : (HasHour(D) /\ utc + left = Fire(D) /\ Done(D))'
                    /\ loop' = "fetching" =>
                         \/ utc' = begun'
                         \/ (HasHour(woke) /\ utc = Fire(woke) /\ Today = woke /\ Done(woke))'
  BY DEF MissInv
<1>1. \A d : (HasHour(d))' = HasHour(d) /\ (Fire(d))' = Fire(d)
  BY Fixed
<1>2. Evenings /\ begun' = begun
  <2>1. \A d \in Dates : (HasHour(d - 1))'
    BY DEF Evenings, Dates
  <2>2. \A d \in Dates : HasHour(d - 1)
    BY <1>1, <2>1
  <2> QED BY <2>2, Fixed DEF Evenings
<1>3. Undisturbed /\ ~Suspend /\ ~SetBack
  BY DEF Undisturbed, SummaryNext, PlanNext, WakeUp, DeliverSummary, SummaryFails,
         ClockTicks, Suspend, SetBack
<1>4. loop # "ended" /\ begun <= utc /\ 0 <= utc /\ (utc <= MaxClock \/ utc <= Day - 1)
  BY <1>2, <1>3 DEF MissInv
<1>5. \A u : (LocalAt(u))' = LocalAt(u)
  BY Fixed
<1>6. sent' = sent /\ failed' = failed => \A D : (Done(D))' = Done(D)
  <2>1. SUFFICES ASSUME sent' = sent, failed' = failed, NEW D
                 PROVE  (Done(D))' = Done(D)
    OBVIOUS
  <2>2. \A d \in Dates : (Fire(d - 1))' = Fire(d - 1)
    BY <1>1
  <2> QED BY <1>2, <2>1, <2>2 DEF Done, Dates
<1>7. CASE PlanNext
  <2>1. sent' = sent /\ failed' = failed
    BY <1>7 DEF PlanNext
  <2>2. loop' = "asleep" /\ utc' = utc
        /\ \/ left' = 0 /\ utc = begun
           \/ \E D \in Int : HasHour(D) /\ utc + left' = Fire(D) /\ Done(D)
    BY <1>2, <1>3, <1>7, MissPlan
  <2>3. CASE left' = 0 /\ utc = begun
    BY <1>2, <1>4, <2>2, <2>3
  <2>4. ASSUME NEW D \in Int, HasHour(D) /\ utc + left' = Fire(D) /\ Done(D)
        PROVE  (HasHour(D) /\ utc + left = Fire(D) /\ Done(D))'
    BY <1>1, <1>6, <2>1, <2>2, <2>4
  <2> QED BY <1>2, <1>4, <2>2, <2>3, <2>4
<1>8. CASE WakeUp
  <2>1. utc' = utc /\ sent' = sent /\ failed' = failed /\ loop = "asleep" /\ left = 0
        /\ woke' = Today /\ loop' = "fetching"
    BY <1>8 DEF WakeUp
  <2>2. CASE utc = begun
    BY <1>2, <1>4, <2>1, <2>2
  <2>3. ASSUME NEW D \in Int, HasHour(D) /\ utc + left = Fire(D) /\ Done(D)
        PROVE  (HasHour(woke) /\ utc = Fire(woke) /\ Today = woke /\ Done(woke))'
    <3>1. utc = Fire(D)
      BY <2>1, <2>3 DEF SummaryTypes
    <3>2. Today = D
      BY <2>3, <3>1, WokeOnTime
    <3>3. Today' = Today
      BY <1>5, <2>1 DEF Today
    <3>4. woke' = D /\ Today' = woke'
      BY <2>1, <3>2, <3>3
    <3>5. (HasHour(D) /\ utc = Fire(D) /\ Done(D))'
      BY <1>1, <1>6, <2>1, <2>3, <3>1
    <3>6. (HasHour(woke) /\ utc = Fire(woke) /\ Done(woke))'
      BY <3>4, <3>5 DEF HasHour, Fire, Done, HourOf
    <3> QED BY <3>4, <3>6
  <2>4. utc = begun \/ \E D \in Int : HasHour(D) /\ utc + left = Fire(D) /\ Done(D)
    BY <1>2, <1>3, <2>1 DEF MissInv
  <2> QED BY <1>2, <1>4, <2>1, <2>2, <2>3, <2>4
<1>9. CASE DeliverSummary \/ SummaryFails
  <2>1. utc' = utc /\ loop = "fetching" /\ loop' = "top" /\ woke' = woke
    BY <1>9 DEF DeliverSummary, SummaryFails
  <2>2. CASE utc = begun
    BY <1>2, <1>4, <2>1, <2>2
  <2>3. ASSUME HasHour(woke) /\ utc = Fire(woke) /\ Today = woke /\ Done(woke)
        PROVE  (HasHour(Today) /\ utc = Fire(Today) /\ Done(Today + 1))'
    <3>1. woke \in Int /\ sent \in [Dates -> Nat]
      BY DEF SummaryTypes
    <3>2. /\ \A d \in Dates : d # woke + 1 => sent'[d] = sent[d]
          /\ woke + 1 \in Dates => sent'[woke + 1] > 0 \/ woke + 1 \in failed'
          /\ failed \subseteq failed'
      <4>1. CASE DeliverSummary
        <5>1. sent' = [sent EXCEPT ![woke + 1] = @ + 1] /\ failed' = failed
          BY <4>1 DEF DeliverSummary
        <5>2. woke + 1 \in Dates => sent[woke + 1] + 1 > 0
          BY <3>1
        <5>3. woke + 1 \in Dates => sent'[woke + 1] = sent[woke + 1] + 1
          BY <3>1, <5>1
        <5>4. \A d \in Dates : d # woke + 1 => sent'[d] = sent[d]
          BY <3>1, <5>1
        <5>5. woke + 1 \in Dates => sent'[woke + 1] > 0
          BY <5>2, <5>3
        <5> QED BY <5>1, <5>4, <5>5
      <4>2. CASE SummaryFails
        BY <4>2 DEF SummaryFails
      <4> QED BY <1>9, <4>1, <4>2
    <3>3. \A d \in Dates : d <= woke + 1 /\ begun < Fire(d - 1) => sent'[d] > 0 \/ d \in failed'
      <4> TAKE d \in Dates
      <4> HAVE d <= woke + 1 /\ begun < Fire(d - 1)
      <4>1. CASE d = woke + 1
        BY <3>2, <4>1
      <4>2. CASE d # woke + 1
        <5>1. d <= woke
          BY <3>1, <4>2, DatesAreInts
        <5> QED BY <2>3, <3>2, <4>2, <5>1 DEF Done
      <4> QED BY <4>1, <4>2
    <3>4. \A d \in Dates : (Fire(d - 1))' = Fire(d - 1)
      BY <1>1
    <3>5. (Done(woke + 1))'
      BY <1>2, <2>1, <3>3, <3>4 DEF Done, Dates
    <3>6. (HasHour(woke))' /\ (Fire(woke))' = Fire(woke)
      BY <1>1, <2>1, <2>3 DEF HasHour, Fire, HourOf
    <3>7. Today' = woke'
      BY <1>5, <2>1, <2>3 DEF Today
    <3>8. (HasHour(Today) /\ utc = Fire(Today) /\ Done(Today + 1))'
      BY <2>1, <2>3, <3>5, <3>6, <3>7 DEF HasHour, Fire, HourOf, Done
    <3> QED BY <3>8
  <2>4. utc = begun \/ (HasHour(woke) /\ utc = Fire(woke) /\ Today = woke /\ Done(woke))
    BY <1>2, <1>3, <2>1 DEF MissInv
  <2> QED BY <1>2, <1>4, <2>1, <2>2, <2>3, <2>4
<1>10. CASE ClockTicks
  <2>1. sent' = sent /\ failed' = failed /\ loop' = loop /\ loop = "asleep" /\ left > 0
        /\ utc' = utc + 1 /\ left' = left - 1 /\ utc < MaxClock
    BY <1>4, <1>10 DEF ClockTicks
  <2>2. utc \in Int /\ begun \in Int /\ left \in Int /\ MaxClock \in Int
    BY SummaryAssumption DEF SummaryTypes
  <2>3. PICK D \in Int : HasHour(D) /\ utc + left = Fire(D) /\ Done(D)
    BY <1>2, <1>3, <2>1, <2>2 DEF MissInv
  <2>4. utc' + left' = Fire(D)
    BY <2>1, <2>2, <2>3
  <2>5. (HasHour(D) /\ utc + left = Fire(D) /\ Done(D))'
    BY <1>1, <1>6, <2>1, <2>3, <2>4
  <2>6. (begun <= utc /\ 0 <= utc /\ utc <= MaxClock)'
    BY <1>2, <1>4, <2>1, <2>2
  <2> QED BY <2>1, <2>5, <2>6
<1> QED BY <1>3, <1>7, <1>8, <1>9, <1>10 DEF SummaryNext

LEMMA MissImplies ==
  ASSUME SummaryTypes, MissInv
  PROVE  NoDayMissed
<1> SUFFICES ASSUME Undisturbed, Evenings, NEW d \in Dates,
                    begun < Fire(d - 1), Fire(d - 1) < utc
             PROVE  sent[d] > 0 \/ d \in failed
  BY DEF NoDayMissed, Evenings, HasHour, Fire, Earliest, HourOf
<1>1. d \in Int /\ d - 1 \in Int /\ HasHour(d - 1)
  BY DatesAreInts DEF Evenings
<1>2. Fire(d - 1) \in Int /\ utc \in Int /\ begun \in Int /\ left \in Nat /\ woke \in Int
      /\ Today \in Int
  BY <1>1, FireType, TodayType DEF SummaryTypes
<1>3. utc # begun
  BY <1>2
<1>4. \A D \in Int : HasHour(D) /\ utc <= Fire(D) => d <= D
  <2> TAKE D \in Int
  <2> HAVE HasHour(D) /\ utc <= Fire(D)
  <2>1. Fire(D) \in Int
    BY FireType
  <2>2. Fire(d - 1) < Fire(D)
    BY <1>2, <2>1
  <2>3. d - 1 < D
    BY <1>1, <2>2, EveningsInOrder
  <2> QED BY <1>1, <2>3
<1>5. \E D \in Int : d <= D /\ Done(D)
  <2>1. CASE loop = "top"
    <3>1. HasHour(Today) /\ utc = Fire(Today) /\ Done(Today + 1)
      BY <1>3, <2>1 DEF MissInv
    <3>2. d <= Today
      BY <1>2, <1>4, <3>1
    <3>3. Today + 1 \in Int /\ d <= Today + 1
      BY <1>1, <1>2, <3>2
    <3> QED BY <3>1, <3>3
  <2>2. CASE loop = "asleep"
    <3>1. PICK D \in Int : HasHour(D) /\ utc + left = Fire(D) /\ Done(D)
      BY <1>3, <2>2 DEF MissInv
    <3>2. utc <= Fire(D)
      BY <1>2, <3>1
    <3> QED BY <1>4, <3>1, <3>2
  <2>3. CASE loop = "fetching"
    <3>1. HasHour(woke) /\ utc = Fire(woke) /\ Done(woke)
      BY <1>3, <2>3 DEF MissInv
    <3> QED BY <1>2, <1>4, <3>1
  <2> QED BY <2>1, <2>2, <2>3 DEF MissInv, SummaryTypes
<1> QED BY <1>5 DEF Done

LEMMA MissStutters ==
  ASSUME MissInv, UNCHANGED summaryVars
  PROVE  MissInv'
<1>1. \A d : (HasHour(d))' = HasHour(d) /\ (Fire(d))' = Fire(d)
  BY DEF summaryVars, HasHour, Fire, Earliest, InstantsOf, HourOf, LocalAt, OffsetAt
<1>2. Evenings' = Evenings /\ \A D : (Done(D))' = Done(D)
  BY <1>1 DEF summaryVars, Evenings, Done, Dates, HasHour, Fire, Earliest, InstantsOf,
              HourOf, LocalAt, OffsetAt
<1>3. Today' = Today /\ Undisturbed' = Undisturbed
  BY DEF summaryVars, Today, LocalAt, OffsetAt, Undisturbed
<1> QED BY <1>1, <1>2, <1>3 DEF summaryVars, MissInv, HasHour, Fire, Done, HourOf

(* For any zone and hour: the loop of an undisturbed process delivers or   *)
(* fails each evening's agenda, if no evening's hour is skipped            *)
(* (next_summary_fire, daily_summary_loop).                                *)
THEOREM EveryEvening == SummarySpec => []NoDayMissed
<1>1. SummaryInit => MissInv
  <2>1. SummaryInit => utc \in Int /\ 0 <= utc /\ utc <= Day - 1 /\ begun = utc
    BY FeedAssumption DEF SummaryInit
  <2>2. SummaryInit => begun <= utc
    BY <2>1
  <2> QED BY <2>1, <2>2 DEF SummaryInit, MissInv
<1>2. SummaryTypes /\ MissInv /\ [SummaryNext]_summaryVars => MissInv'
  BY MissStep, MissStutters
<1>3. SummaryTypes /\ MissInv => NoDayMissed
  BY MissImplies
<1> QED BY <1>1, <1>2, <1>3, SummaryTyped, PTL DEF SummarySpec
-----------------------------------------------------------------------------
(* The agenda is made at the time at which the loop woke, for tomorrow.    *)
AgendaInv ==
  /\ agenda \in Agendas
  /\ loop = "fetching" => woke = Today
  /\ AgendaIsComplete

LEMMA AgendaTypes ==
  ASSUME agenda \in Agendas, NEW e \in agenda
  PROVE  /\ e.start \in Int /\ e.length \in Nat /\ e.period \in Nat
         /\ e.allday => e.start % Day = 0 /\ e.length >= Day
BY SummaryAssumption

(* What starts on a later date starts later.                               *)
LEMMA LaterDateIsLater ==
  ASSUME ZoneOK, DatesGoForward, NEW u \in Int, NEW s \in Int,
         DateOf(LocalAt(u)) < DateOf(LocalAt(s))
  PROVE  u < s
<1> DEFINE l == LocalAt(s)
           e == Earliest(l)
<1>1. l \in Int
  BY LocalType
<1>2. InstantsOf(l) # {}
  BY <1>1, Instants
<1>3. u < e
  BY <1>1, <1>2, StillToCome
<1>4. e \in Int /\ e <= s
  BY <1>1, <1>2, EarliestIs
<1> HIDE DEF e
<1> QED BY <1>3, <1>4

(* An all-day event of tomorrow's is not over, wherever it is today.       *)
LEMMA AllDayIsNotOver ==
  ASSUME SummaryTypes, NEW s \in Int, s % Day = 0, DateOf(s) = Today + 1
  PROVE  s >= utc - Day
<1> DEFINE t == Today * Day
           l == LocalAt(utc)
<1>1. Today \in Int /\ l \in Int /\ ZoneOK /\ utc \in Int /\ Day \in Nat \ {0}
  BY TodayType, FeedAssumption DEF SummaryTypes
<1>2. l < t + Day /\ t \in Int
  BY <1>1, DateBounds DEF Today
<1>3. utc - (Day - 1) <= l
  BY <1>1, LocalType, ZoneTypes
<1>4. s = (Today + 1) * Day
  <2>1. s = DateOf(s) * Day + (s % Day)
    BY <1>1, Quotient DEF DateOf
  <2> DEFINE d == DateOf(s) * Day
             m == s % Day
  <2>2. d \in Int /\ s = d + m /\ m = 0
    BY <1>1, <2>1, DateBounds
  <2> HIDE DEF d, m
  <2>3. s = d
    BY <2>2
  <2> QED BY <2>3 DEF d
<1>5. s = t + Day
  BY <1>1, <1>4
<1> HIDE DEF t, l
<1> QED BY <1>1, <1>2, <1>3, <1>5

LEMMA AgendaMade ==
  ASSUME SummaryTypes, agenda \in Agendas, DatesGoForward, NEW e \in agenda, NEW s \in Int,
         s \in (IF e.period = 0 THEN {e.start} ELSE Recurrences(e, s, s)),
         EventDate(e, s) = Today + 1, e.allday /\ e.period # 0 => s >= utc,
         s <= utc + 2 * Day, ~Crowded(e)
  PROVE  <<e, s>> \in Listed(Today + 1)
<1>1. /\ e.start \in Int /\ e.length \in Nat /\ e.period \in Nat
      /\ e.allday => e.start % Day = 0 /\ e.length >= Day
  BY AgendaTypes
<1>2. utc \in Int /\ Today \in Int /\ ZoneOK /\ Day \in Nat \ {0} /\ Limit \in Int
  BY TodayType, FeedAssumption DEF SummaryTypes
<1>3. ~e.allday => utc < s
  <2>1. SUFFICES ASSUME ~e.allday PROVE utc < s
    OBVIOUS
  <2>2. DateOf(LocalAt(s)) = Today + 1
    BY <2>1 DEF EventDate
  <2>3. DateOf(LocalAt(utc)) < DateOf(LocalAt(s))
    BY <1>2, <2>2 DEF Today
  <2> QED BY <1>2, <2>3, LaterDateIsLater
<1>4. e.allday /\ e.period = 0 => s >= utc - Day /\ s + e.length >= utc
  <2>1. SUFFICES ASSUME e.allday, e.period = 0
                 PROVE  s >= utc - Day /\ s + e.length >= utc
    OBVIOUS
  <2>2. s % Day = 0 /\ DateOf(s) = Today + 1
    BY <1>1, <2>1 DEF EventDate
  <2>3. s >= utc - Day
    BY <2>2, AllDayIsNotOver
  <2> QED BY <1>1, <1>2, <2>1, <2>3
<1>5. s + e.length >= utc /\ s >= utc - Day
  BY <1>1, <1>2, <1>3, <1>4
<1>6. s \in Starts(e, utc, utc + 2 * Day)
  <2>1. CASE e.period = 0
    BY <2>1 DEF Starts
  <2>2. CASE e.period # 0
    <3>1. s \in Recurrences(e, s, s) /\ utc <= s
      BY <1>2, <1>3, <2>2
    <3> DEFINE w == 2 * Day
               q == w \div e.period
    <3>2. w \in Nat /\ e.period \in Nat \ {0} /\ s <= utc + w
      BY <1>1, <1>2, <2>2
    <3>3. ~(q >= Limit)
      BY <2>2 DEF Crowded
    <3> HIDE DEF w
    <3>4. q \in Int
      <4> DEFINE p == e.period
      <4>1. p \in Nat \ {0} /\ w \in Int
        BY <3>2
      <4> HIDE DEF p
      <4>2. w \div p \in Int
        BY <4>1, Quotient
      <4> QED BY <4>2 DEF p
    <3> HIDE DEF q
    <3>5. q < Limit
      BY <1>2, <3>3, <3>4
    <3>6. s \in Recurrences(e, utc, utc + w)
      BY <1>1, <1>2, <3>1, <3>2, <3>5, ExpandedIfUncrowded DEF q
    <3> QED BY <2>2, <3>6 DEF Starts, w
  <2> QED BY <2>1, <2>2
<1>7. s \in Instances(e, utc, utc + 2 * Day)
  BY <1>5, <1>6 DEF Instances
<1>8. <<e, s>> \in agenda \X ((utc - 2 * Day)..(utc + 2 * Day))
  BY <1>2, <1>5
<1> QED BY <1>7, <1>8 DEF Listed

LEMMA AgendaStep ==
  ASSUME SummaryTypes, AgendaInv, [SummaryNext]_summaryVars
  PROVE  AgendaInv'
<1>1. /\ agenda' = agenda /\ zone' = zone
      /\ latest' = latest \/ DeliverSummary
  BY DEF SummaryNext, summaryVars, PlanNext, WakeUp, DeliverSummary, SummaryFails,
         ClockTicks, Suspend, SetBack
<1>2. (loop = "fetching" => woke = Today)'
  BY DEF AgendaInv, SummaryNext, summaryVars, PlanNext, WakeUp, DeliverSummary,
         SummaryFails, ClockTicks, Suspend, SetBack, Today, LocalAt, OffsetAt
<1>3. DatesGoForward' = DatesGoForward /\ \A e, s : (EventDate(e, s))' = EventDate(e, s)
  BY <1>1 DEF DatesGoForward, EventDate, LocalAt, OffsetAt
<1>4. AgendaIsComplete'
  <2>1. CASE latest' = latest
    BY <1>1, <1>3, <2>1 DEF AgendaInv, AgendaIsComplete
  <2>2. CASE DeliverSummary
    <3> SUFFICES ASSUME DatesGoForward, NEW e \in agenda,
                        NEW s \in -Day..(MaxClock + 3 * Day),
                        s \in (IF e.period = 0 THEN {e.start} ELSE Recurrences(e, s, s)),
                        EventDate(e, s) = latest'.date,
                        e.allday /\ e.period # 0 => s >= latest'.at,
                        s <= latest'.at + 2 * Day, ~Crowded(e)
                 PROVE  <<e, s>> \in latest'.listed
      BY <1>1, <1>3 DEF AgendaIsComplete
    <3>1. latest' = [date |-> woke + 1, at |-> utc, listed |-> Listed(woke + 1)]
          /\ woke = Today
      BY <2>2 DEF DeliverSummary, AgendaInv
    <3>2. latest'.date = Today + 1 /\ latest'.at = utc /\ latest'.listed = Listed(Today + 1)
      BY <3>1
    <3>3. s \in Int
      BY FeedAssumption, SummaryAssumption
    <3>4. <<e, s>> \in Listed(Today + 1)
      BY <3>2, <3>3, AgendaMade DEF AgendaInv
    <3> QED BY <3>2, <3>4
  <2> QED BY <1>1, <2>1, <2>2
<1> QED BY <1>1, <1>2, <1>4 DEF AgendaInv

(* No event has a date before all dates.                                   *)
LEMMA NothingIsThatEarly ==
  ASSUME SummaryTypes, NEW e, NEW s \in Int, s >= -Day
  PROVE  EventDate(e, s) # -3
<1> DEFINE x == (-2) * Day + 0
           l == LocalAt(s)
<1>1. x \in Int /\ DateOf(x) = -2 /\ x = -Day - Day
  BY DateOfHour, FeedAssumption
<1>2. l \in Int /\ x <= l /\ x <= s
  <2>1. ZoneOK /\ Day \in Nat \ {0}
    BY TodayType, FeedAssumption
  <2>2. l \in Int /\ s + (1 - Day) <= l
    BY <2>1, LocalType, ZoneTypes
  <2> HIDE DEF x, l
  <2> QED BY <1>1, <2>1, <2>2
<1> HIDE DEF x, l
<1>3. -2 <= DateOf(l) /\ -2 <= DateOf(s)
  BY <1>1, <1>2, DatesInOrder
<1> QED BY <1>2, <1>3, DateBounds DEF EventDate, l

(* For any calendar: the latest agenda lists what starts on its date, but  *)
(* for the exceptions AgendaIsComplete names (run_summary_once).           *)
THEOREM AgendasAreComplete == SummarySpec => []AgendaIsComplete
<1>1. SummaryInit => AgendaInv
  <2> SUFFICES ASSUME SummaryInit PROVE AgendaInv
    OBVIOUS
  <2>1. SummaryTypes
    BY SummaryTypesInit
  <2>2. \A s \in -Day..(MaxClock + 3 * Day) : s \in Int /\ s >= -Day
    BY FeedAssumption, SummaryAssumption
  <2>3. \A e : \A s \in -Day..(MaxClock + 3 * Day) : EventDate(e, s) # -3
    BY <2>1, <2>2, NothingIsThatEarly
  <2>4. latest.date = -3
    BY DEF SummaryInit
  <2>5. AgendaIsComplete
    BY <2>3, <2>4 DEF AgendaIsComplete
  <2> QED BY <2>5 DEF SummaryInit, AgendaInv
<1>2. SummaryTypes /\ AgendaInv /\ [SummaryNext]_summaryVars => AgendaInv'
  BY AgendaStep
<1>3. AgendaInv => AgendaIsComplete
  BY DEF AgendaInv
<1> QED BY <1>1, <1>2, <1>3, SummaryTyped, PTL DEF SummarySpec
=============================================================================
