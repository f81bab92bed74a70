--------------------------- MODULE QueueTheorems ---------------------------
(***************************************************************************)
(* What the proofs of the components need of sequences used as queues: an  *)
(* element that moves from one queue to the next leaves the line they form *)
(* as it was, and a line that ascends is made of parts that do.            *)
(***************************************************************************)
EXTENDS Integers, SequenceTheorems, TLAPS

\* Every element is smaller than all those behind it.
Ascending(s) == \A i, j \in DOMAIN s : i < j => s[i] < s[j]

\* Taking the first element of a queue.
LEMMA HeadTaken == ASSUME NEW S, NEW q \in Seq(S), q # <<>>
                   PROVE  /\ Head(q) \in S /\ Tail(q) \in Seq(S)
                          /\ Len(Tail(q)) = Len(q) - 1 /\ Len(q) > 0
                          /\ Head(q) = q[1]
  OBVIOUS

\* The elements of a queue when one leaves it, at either end, or joins it.
LEMMA RestOf ==
  ASSUME NEW S, NEW q \in Seq(S), q # <<>>
  PROVE  /\ Tail(q) \in Seq(S) /\ Len(Tail(q)) = Len(q) - 1
         /\ \A i \in 1 .. Len(Tail(q)) :
              i + 1 \in 1 .. Len(q) /\ Tail(q)[i] = q[i + 1]
         /\ Head(q) = q[1] /\ Head(q) \in S /\ 1 \in 1 .. Len(q)
  OBVIOUS

LEMMA WithLast ==
  ASSUME NEW S, NEW q \in Seq(S), NEW e \in S
  PROVE  /\ Append(q, e) \in Seq(S) /\ Len(Append(q, e)) = Len(q) + 1
         /\ Append(q, e) # <<>>
         /\ \A i \in 1 .. Len(q) :
              i \in 1 .. Len(Append(q, e)) /\ Append(q, e)[i] = q[i]
         /\ Append(q, e)[Len(q) + 1] = e
         /\ \A i \in 1 .. Len(Append(q, e)) :
              i \in 1 .. Len(q) \/ i = Len(q) + 1
<1>1. PICK a : a = Append(q, e)
  OBVIOUS
<1>2. /\ a \in Seq(S) /\ Len(a) = Len(q) + 1 /\ a # <<>>
      /\ \A i \in 1 .. Len(q) : a[i] = q[i]
      /\ a[Len(q) + 1] = e
  BY <1>1, AppendProperties
<1>3. Len(q) \in Nat
  OBVIOUS
<1>4. /\ \A i \in 1 .. Len(q) : i \in 1 .. Len(a)
      /\ \A i \in 1 .. Len(a) : i \in 1 .. Len(q) \/ i = Len(q) + 1
  BY <1>2, <1>3
<1>5. QED BY <1>1, <1>2, <1>4

\* Adding an element at its end.
LEMMA LastAdded == ASSUME NEW S, NEW q \in Seq(S), NEW e \in S
                   PROVE  /\ Append(q, e) \in Seq(S)
                          /\ Len(Append(q, e)) = Len(q) + 1
                          /\ Append(q, e) = q \o <<e>> /\ <<e>> \in Seq(S)
<1>1. Append(q, e) = q \o <<e>>
  BY AppendIsConcat
<1>2. /\ Append(q, e) \in Seq(S) /\ Len(Append(q, e)) = Len(q) + 1
      /\ <<e>> \in Seq(S)
  OBVIOUS
<1>3. QED BY <1>1, <1>2

\* The elements of two sequences joined, each at its place.
LEMMA ConcatParts ==
  ASSUME NEW S, NEW s \in Seq(S), NEW t \in Seq(S)
  PROVE  /\ s \o t \in Seq(S) /\ Len(s \o t) = Len(s) + Len(t)
         /\ Len(s) \in Nat /\ Len(t) \in Nat
         /\ DOMAIN s = 1 .. Len(s) /\ DOMAIN t = 1 .. Len(t)
         /\ DOMAIN (s \o t) = 1 .. Len(s) + Len(t)
         /\ \A i \in 1 .. Len(s) : (s \o t)[i] = s[i]
         /\ \A i \in 1 .. Len(t) : (s \o t)[Len(s) + i] = t[i]
<1>1. /\ s \o t \in Seq(S) /\ Len(s \o t) = Len(s) + Len(t)
      /\ \A i \in 1 .. Len(s) + Len(t) :
           (s \o t)[i] = IF i <= Len(s) THEN s[i] ELSE t[i - Len(s)]
  BY ConcatProperties
<1>2. Len(s) \in Nat /\ Len(t) \in Nat
  OBVIOUS
<1>3. ASSUME NEW i \in 1 .. Len(s) PROVE (s \o t)[i] = s[i]
  BY <1>1, <1>2
<1>4. ASSUME NEW i \in 1 .. Len(t) PROVE (s \o t)[Len(s) + i] = t[i]
  <2>1. /\ Len(s) + i \in 1 .. Len(s) + Len(t) /\ ~(Len(s) + i <= Len(s))
        /\ (Len(s) + i) - Len(s) = i
    BY <1>2
  <2>2. QED BY <1>1, <2>1
<1>5. DOMAIN s = 1 .. Len(s) /\ DOMAIN t = 1 .. Len(t)
      /\ DOMAIN (s \o t) = 1 .. Len(s \o t)
  BY <1>1, LenProperties
<1>6. QED BY <1>1, <1>2, <1>3, <1>4, <1>5

\* A function on the first m numbers is a sequence.
LEMMA IsASequence ==
  ASSUME NEW S, NEW m \in Nat, NEW f \in [1 .. m -> S]
  PROVE  f \in Seq(S) /\ Len(f) = m /\ DOMAIN f = 1 .. m
  OBVIOUS

\* A queue is its first element and the rest.
LEMMA HeadAndTail ==
  ASSUME NEW S, NEW q \in Seq(S), q # <<>>
  PROVE  q = <<Head(q)>> \o Tail(q) /\ <<Head(q)>> \in Seq(S)
<1>1. /\ Head(q) \in S /\ Tail(q) \in Seq(S) /\ Len(Tail(q)) = Len(q) - 1
      /\ Head(q) = q[1] /\ Len(q) \in Nat
      /\ \A i \in 1 .. Len(Tail(q)) : Tail(q)[i] = q[i + 1]
  BY HeadTaken, HeadTailProperties
<1> DEFINE h == <<Head(q)>>
<1>2. h \in Seq(S) /\ Len(h) = 1 /\ h[1] = q[1]
  BY <1>1
<1> HIDE DEF h
<1>3. /\ h \o Tail(q) \in Seq(S) /\ Len(h \o Tail(q)) = Len(q)
      /\ (h \o Tail(q))[1] = h[1]
      /\ \A i \in 1 .. Len(Tail(q)) : (h \o Tail(q))[1 + i] = Tail(q)[i]
  <2>1. /\ h \o Tail(q) \in Seq(S)
        /\ Len(h \o Tail(q)) = Len(h) + Len(Tail(q))
        /\ \A i \in 1 .. Len(h) : (h \o Tail(q))[i] = h[i]
        /\ \A i \in 1 .. Len(Tail(q)) :
             (h \o Tail(q))[Len(h) + i] = Tail(q)[i]
    BY <1>1, <1>2, ConcatParts
  <2>2. QED BY <1>1, <1>2, <2>1
<1>4. ASSUME NEW i \in 1 .. Len(q) PROVE q[i] = (h \o Tail(q))[i]
  <2>1. CASE i = 1
    BY <1>2, <1>3, <2>1
  <2>2. CASE i > 1
    <3>1. i - 1 \in 1 .. Len(Tail(q)) /\ 1 + (i - 1) = i /\ (i - 1) + 1 = i
      BY <1>1, <2>2
    <3>2. QED BY <1>1, <1>3, <3>1
  <2>3. i = 1 \/ i > 1
    OBVIOUS
  <2>4. QED BY <2>1, <2>2, <2>3
<1>5. q = h \o Tail(q)
  BY <1>3, <1>4, SeqEqual
<1>6. QED BY <1>2, <1>5 DEF h

\* The first element of one queue moves to the end of the one before it.
LEMMA MovedOn ==
  ASSUME NEW S, NEW s \in Seq(S), NEW t \in Seq(S), t # <<>>
  PROVE  Append(s, Head(t)) \o Tail(t) = s \o t
<1>1. /\ Head(t) \in S /\ Tail(t) \in Seq(S) /\ <<Head(t)>> \in Seq(S)
      /\ t = <<Head(t)>> \o Tail(t)
  BY HeadTaken, HeadAndTail
<1>2. Append(s, Head(t)) = s \o <<Head(t)>>
  BY <1>1, LastAdded
<1>3. (s \o <<Head(t)>>) \o Tail(t) = s \o (<<Head(t)>> \o Tail(t))
  BY <1>1, ConcatAssociative
<1>4. QED BY <1>1, <1>2, <1>3

LEMMA Regrouped ==
  ASSUME NEW S
  PROVE  \A r, s, t \in Seq(S) : (r \o s) \o t = r \o (s \o t)
  BY ConcatAssociative

\* An element that joins the last of two queues joins the line they form.
LEMMA JoinedBehind ==
  ASSUME NEW S
  PROVE  \A s, t \in Seq(S), e \in S : s \o Append(t, e) = Append(s \o t, e)
<1> TAKE s, t \in Seq(S), e \in S
<1>1. PICK h \in Seq(S) : h = <<e>>
  <2>1. <<e>> \in Seq(S)
    BY LastAdded
  <2>2. QED BY <2>1
<1>2. Append(t, e) = t \o h
  BY <1>1, AppendIsConcat
<1>3. (s \o t) \o h = s \o (t \o h)
  BY <1>1, Regrouped
<1>4. s \o t \in Seq(S)
  OBVIOUS
<1>5. Append(s \o t, e) = (s \o t) \o h
  BY <1>1, <1>4, AppendIsConcat
<1>6. QED BY <1>2, <1>3, <1>5

LEMMA RangeOfOne == ASSUME NEW e PROVE Range(<<e>>) = {e}
  BY DEF Range

LEMMA RangeOfNone == Range(<<>>) = {}
  BY DEF Range

LEMMA RangeOfConcat ==
  ASSUME NEW S, NEW s \in Seq(S), NEW t \in Seq(S)
  PROVE  Range(s \o t) = Range(s) \union Range(t)
<1> DEFINE st == s \o t
<1>1. /\ Len(s) \in Nat /\ Len(t) \in Nat
      /\ DOMAIN s = 1 .. Len(s) /\ DOMAIN t = 1 .. Len(t)
      /\ DOMAIN st = 1 .. Len(s) + Len(t)
      /\ \A i \in 1 .. Len(s) : st[i] = s[i]
      /\ \A i \in 1 .. Len(t) : st[Len(s) + i] = t[i]
  BY ConcatParts
<1> HIDE DEF st
<1>2. ASSUME NEW i \in DOMAIN st PROVE st[i] \in Range(s) \union Range(t)
  <2>1. CASE i <= Len(s)
    BY <1>1, <2>1 DEF Range
  <2>2. CASE i > Len(s)
    <3>1. i - Len(s) \in 1 .. Len(t) /\ Len(s) + (i - Len(s)) = i
      BY <1>1, <2>2
    <3>2. QED BY <1>1, <3>1 DEF Range
  <2>3. QED BY <1>1, <2>1, <2>2
<1>3. ASSUME NEW i \in DOMAIN s PROVE s[i] \in Range(st)
  <2>1. i \in DOMAIN st
    BY <1>1
  <2>2. QED BY <1>1, <2>1 DEF Range
<1>4. ASSUME NEW i \in DOMAIN t PROVE t[i] \in Range(st)
  <2>1. Len(s) + i \in DOMAIN st
    BY <1>1
  <2>2. QED BY <1>1, <2>1 DEF Range
<1>5. QED BY <1>2, <1>3, <1>4 DEF Range, st

LEMMA Shifted ==
  ASSUME NEW m \in Nat, NEW n \in Nat, NEW i \in 1 .. m + n,
         NEW j \in 1 .. m + n, m < i, i < j
  PROVE  /\ i - m \in 1 .. n /\ j - m \in 1 .. n /\ i - m < j - m
         /\ m + (i - m) = i /\ m + (j - m) = j
  OBVIOUS

\* A line ascends exactly when its two parts do and the second is above the
\* first.
LEMMA AscendingConcat ==
  ASSUME NEW s \in Seq(Int), NEW t \in Seq(Int)
  PROVE  Ascending(s \o t) <=>
           /\ Ascending(s) /\ Ascending(t)
           /\ \A a \in Range(s), b \in Range(t) : a < b
<1> DEFINE st == s \o t
<1>1. /\ Len(s) \in Nat /\ Len(t) \in Nat
      /\ DOMAIN s = 1 .. Len(s) /\ DOMAIN t = 1 .. Len(t)
      /\ DOMAIN st = 1 .. Len(s) + Len(t)
      /\ \A i \in 1 .. Len(s) : st[i] = s[i]
      /\ \A i \in 1 .. Len(t) : st[Len(s) + i] = t[i]
  BY ConcatParts
<1> HIDE DEF st
<1>2. ASSUME Ascending(st)
      PROVE  /\ Ascending(s) /\ Ascending(t)
             /\ \A a \in Range(s), b \in Range(t) : a < b
  <2>1. ASSUME NEW i \in DOMAIN s, NEW j \in DOMAIN s, i < j
        PROVE  s[i] < s[j]
    BY <1>1, <1>2, <2>1 DEF Ascending
  <2>2. ASSUME NEW i \in DOMAIN t, NEW j \in DOMAIN t, i < j
        PROVE  t[i] < t[j]
    <3>1. /\ Len(s) + i \in DOMAIN st /\ Len(s) + j \in DOMAIN st
          /\ Len(s) + i < Len(s) + j
      BY <1>1, <2>2
    <3>2. st[Len(s) + i] < st[Len(s) + j]
      BY <1>2, <3>1 DEF Ascending
    <3>3. QED BY <1>1, <3>2
  <2>3. ASSUME NEW i \in DOMAIN s, NEW j \in DOMAIN t
        PROVE  s[i] < t[j]
    <3>1. /\ i \in DOMAIN st /\ Len(s) + j \in DOMAIN st /\ i < Len(s) + j
      BY <1>1
    <3>2. st[i] < st[Len(s) + j]
      BY <1>2, <3>1 DEF Ascending
    <3>3. QED BY <1>1, <3>2
  <2>4. QED BY <2>1, <2>2, <2>3 DEF Ascending, Range
<1>3. ASSUME Ascending(s), Ascending(t),
             \A a \in Range(s), b \in Range(t) : a < b
      PROVE  Ascending(st)
  <2>1. SUFFICES ASSUME NEW i \in DOMAIN st, NEW j \in DOMAIN st, i < j
                 PROVE  st[i] < st[j]
    BY DEF Ascending
  <2>2. CASE j <= Len(s)
    <3>1. i \in DOMAIN s /\ j \in DOMAIN s
      BY <1>1, <2>1, <2>2
    <3>2. QED BY <1>1, <1>3, <2>1, <3>1 DEF Ascending
  <2>3. CASE i > Len(s)
    <3>1. /\ i \in 1 .. Len(s) + Len(t) /\ j \in 1 .. Len(s) + Len(t)
          /\ Len(s) \in Nat /\ Len(t) \in Nat /\ i < j /\ i > Len(s)
      BY <1>1, <2>1, <2>3
    <3>2. /\ i - Len(s) \in 1 .. Len(t) /\ j - Len(s) \in 1 .. Len(t)
          /\ i - Len(s) < j - Len(s)
          /\ Len(s) + (i - Len(s)) = i /\ Len(s) + (j - Len(s)) = j
      <4>1. PICK m \in Nat, n \in Nat : m = Len(s) /\ n = Len(t)
        BY <3>1
      <4>2. /\ i \in 1 .. m + n /\ j \in 1 .. m + n /\ m < i /\ i < j
        BY <3>1, <4>1
      <4>3. /\ i - m \in 1 .. n /\ j - m \in 1 .. n /\ i - m < j - m
            /\ m + (i - m) = i /\ m + (j - m) = j
        <5> SUFFICES ASSUME NEW k \in 1 .. m + n, NEW l \in 1 .. m + n,
                            m < k, k < l
                     PROVE  /\ k - m \in 1 .. n /\ l - m \in 1 .. n
                            /\ k - m < l - m
                            /\ m + (k - m) = k /\ m + (l - m) = l
          BY <4>2
        <5> QED BY Shifted
      <4>4. QED BY <4>1, <4>3
    <3>3. t[i - Len(s)] < t[j - Len(s)]
      BY <1>1, <1>3, <3>2 DEF Ascending
    <3>4. st[i] = t[i - Len(s)] /\ st[j] = t[j - Len(s)]
      BY <1>1, <3>2
    <3>5. QED BY <3>3, <3>4
  <2>4. CASE i <= Len(s) /\ j > Len(s)
    <3>1. /\ i \in DOMAIN s /\ j - Len(s) \in DOMAIN t
          /\ Len(s) + (j - Len(s)) = j
      BY <1>1, <2>4
    <3>2. s[i] \in Range(s) /\ t[j - Len(s)] \in Range(t)
      BY <3>1 DEF Range
    <3>3. s[i] < t[j - Len(s)]
      BY <1>3, <3>2
    <3>4. st[i] = s[i] /\ st[j] = t[j - Len(s)]
      BY <1>1, <3>1
    <3>5. QED BY <3>3, <3>4
  <2>5. QED BY <1>1, <2>2, <2>3, <2>4
<1>4. QED BY <1>2, <1>3 DEF st

LEMMA AscendingOne == ASSUME NEW e PROVE Ascending(<<e>>)
  BY DEF Ascending

LEMMA AscendingNone == Ascending(<<>>)
  BY DEF Ascending

\* A line out of which an element goes still ascends.
LEMMA OneLeaves ==
  ASSUME NEW a \in Seq(Int), NEW x \in Int, NEW b \in Seq(Int),
         Ascending(a \o <<x>> \o b)
  PROVE  /\ Ascending(a \o b)
         /\ Range(a \o b) \subseteq Range(a \o <<x>> \o b)
<1> DEFINE h == <<x>>
<1>1. h \in Seq(Int)
  OBVIOUS
<1> HIDE DEF h
<1>2. a \o h \in Seq(Int)
  BY <1>1, ConcatParts
<1>3. Range(a \o b) \subseteq Range(a \o h \o b)
  <2> DEFINE ah == a \o h
  <2>1. Range(ah) = Range(a) \union Range(h) /\ ah \in Seq(Int)
    BY <1>1, <1>2, RangeOfConcat
  <2> HIDE DEF ah
  <2>2. Range(ah \o b) = Range(ah) \union Range(b)
    BY <2>1, RangeOfConcat
  <2>3. Range(a \o b) = Range(a) \union Range(b)
    BY RangeOfConcat
  <2>4. QED BY <2>1, <2>2, <2>3 DEF ah
<1>4. Ascending(a \o h \o b)
  BY DEF h
<1>5. /\ Ascending(a \o h) /\ Ascending(b)
      /\ \A c \in Range(a \o h), d \in Range(b) : c < d
  BY <1>2, <1>4, AscendingConcat
<1>6. Ascending(a) /\ Range(a) \subseteq Range(a \o h)
  BY <1>1, <1>5, AscendingConcat, RangeOfConcat
<1>7. Ascending(a \o b)
  BY <1>5, <1>6, AscendingConcat
<1>8. QED BY <1>3, <1>7 DEF h

\* The end of a line leaves it.
LEMMA RestLeaves ==
  ASSUME NEW a \in Seq(Int), NEW b \in Seq(Int), Ascending(a \o b)
  PROVE  Ascending(a) /\ Range(a) \subseteq Range(a \o b)
  BY AscendingConcat, RangeOfConcat

\* One that is above all others joins it at its end.
LEMMA OneJoins ==
  ASSUME NEW s \in Seq(Int), NEW e \in Int, Ascending(s),
         \A a \in Range(s) : a < e
  PROVE  /\ Ascending(Append(s, e))
         /\ Range(Append(s, e)) = Range(s) \union {e}
<1> DEFINE h == <<e>>
<1>1. Append(s, e) = s \o h /\ h \in Seq(Int)
  BY LastAdded
<1>2. Range(h) = {e} /\ Ascending(h)
  BY AscendingOne, RangeOfOne
<1> HIDE DEF h
<1>3. Range(s \o h) = Range(s) \union {e}
  BY <1>1, <1>2, RangeOfConcat
<1>4. Ascending(s \o h)
  BY <1>1, <1>2, AscendingConcat
<1>5. QED BY <1>1, <1>3, <1>4

\* The first one goes.
LEMMA FirstLeaves ==
  ASSUME NEW q \in Seq(Int), q # <<>>, Ascending(q)
  PROVE  /\ Ascending(Tail(q)) /\ Range(q) = {Head(q)} \union Range(Tail(q))
         /\ \A a \in Range(Tail(q)) : Head(q) < a
<1>1. /\ q = <<Head(q)>> \o Tail(q) /\ <<Head(q)>> \in Seq(Int)
      /\ Tail(q) \in Seq(Int)
  BY HeadAndTail, HeadTaken
<1> DEFINE h == <<Head(q)>>
           t == Tail(q)
<1>2. Range(h) = {Head(q)}
  BY RangeOfOne
<1>3. h \in Seq(Int) /\ t \in Seq(Int) /\ q = h \o t
  BY <1>1
<1> HIDE DEF h, t
<1>4. /\ Ascending(t) /\ \A a \in Range(h), b \in Range(t) : a < b
      /\ Range(q) = Range(h) \union Range(t)
  BY <1>3, AscendingConcat, RangeOfConcat
<1>5. QED BY <1>2, <1>4 DEF t

\* Of a queue cut in two, the parts joined are the queue.
LEMMA CutInTwo ==
  ASSUME NEW S, NEW q \in Seq(S), NEW n \in 0 .. Len(q)
  PROVE  /\ SubSeq(q, 1, n) \in Seq(S) /\ Len(SubSeq(q, 1, n)) = n
         /\ SubSeq(q, n + 1, Len(q)) \in Seq(S)
         /\ Len(SubSeq(q, n + 1, Len(q))) = Len(q) - n
         /\ q = SubSeq(q, 1, n) \o SubSeq(q, n + 1, Len(q))
<1>1. Len(q) \in Nat /\ n \in Int /\ n <= Len(q) /\ 0 <= n
  OBVIOUS
<1>2. \A i \in 1 .. Len(q) : q[i] \in S
  BY ElementOfSeq
<1>3. SubSeq(q, 1, n) \in Seq(S) /\ Len(SubSeq(q, 1, n)) = n
  <2>1. \A i \in 1 .. n : q[i] \in S
    BY <1>1, <1>2
  <2>2. /\ SubSeq(q, 1, n) \in Seq(S)
        /\ Len(SubSeq(q, 1, n)) = IF 1 <= n THEN n - 1 + 1 ELSE 0
    BY <1>1, <2>1, SubSeqProperties
  <2>3. QED BY <1>1, <2>2
<1>4. /\ SubSeq(q, n + 1, Len(q)) \in Seq(S)
      /\ Len(SubSeq(q, n + 1, Len(q))) = Len(q) - n
  <2>1. \A i \in n + 1 .. Len(q) : q[i] \in S
    BY <1>1, <1>2
  <2>2. /\ SubSeq(q, n + 1, Len(q)) \in Seq(S)
        /\ Len(SubSeq(q, n + 1, Len(q))) =
             IF n + 1 <= Len(q) THEN Len(q) - (n + 1) + 1 ELSE 0
    BY <1>1, <2>1, SubSeqProperties
  <2>3. QED BY <1>1, <2>2
<1>5. SubSeq(q, 1, n) \o SubSeq(q, n + 1, Len(q)) = SubSeq(q, 1, Len(q))
  <2>1. /\ 1 \in 1 .. Len(q) + 1 /\ n \in 1 - 1 .. Len(q)
        /\ Len(q) \in n .. Len(q)
    BY <1>1
  <2>2. QED BY <2>1, ConcatAdjacentSubSeq
<1>6. SubSeq(q, 1, Len(q)) = q
  BY SubSeqFull
<1>7. QED BY <1>3, <1>4, <1>5, <1>6

\* A queue without its last element.
LEMMA FrontOf ==
  ASSUME NEW S, NEW q \in Seq(S), q # <<>>
  PROVE  LET f == SubSeq(q, 1, Len(q) - 1)
         IN  /\ f \in Seq(S) /\ Len(f) = Len(q) - 1
             /\ \A i \in 1 .. Len(f) : i \in 1 .. Len(q) /\ f[i] = q[i]
             /\ Len(q) \in 1 .. Len(q)
<1>1. Len(q) \in Nat \ {0} /\ Len(q) - 1 \in 0 .. Len(q)
  OBVIOUS
<1>2. SubSeq(q, 1, Len(q) - 1) \in Seq(S)
      /\ Len(SubSeq(q, 1, Len(q) - 1)) = Len(q) - 1
  BY <1>1, CutInTwo
<1>3. \A i \in 1 .. Len(q) - 1 : SubSeq(q, 1, Len(q) - 1)[i] = q[i]
  BY <1>1
<1>4. QED BY <1>1, <1>2, <1>3

\* A segment leaves a line that ascends.
LEMMA SegmentLeaves ==
  ASSUME NEW a \in Seq(Int), NEW b \in Seq(Int), NEW c \in Seq(Int),
         Ascending(a \o (b \o c))
  PROVE  /\ Ascending(a \o c)
         /\ Range(a \o c) \subseteq Range(a \o (b \o c))
<1> DEFINE bc == b \o c
<1>1. /\ bc \in Seq(Int) /\ Range(bc) = Range(b) \union Range(c)
      /\ Ascending(bc) => Ascending(c)
  BY RangeOfConcat, AscendingConcat, ConcatParts
<1>2. Ascending(a \o bc)
  OBVIOUS
<1> HIDE DEF bc
<1>3. /\ Ascending(a) /\ Ascending(bc)
      /\ \A x \in Range(a), y \in Range(bc) : x < y
      /\ Range(a \o bc) = Range(a) \union Range(bc)
  BY <1>1, <1>2, AscendingConcat, RangeOfConcat
<1>4. Range(a \o c) = Range(a) \union Range(c)
  BY RangeOfConcat
<1>5. Ascending(a \o c)
  BY <1>1, <1>3, AscendingConcat
<1>6. QED BY <1>1, <1>3, <1>4, <1>5 DEF bc
=============================================================================
