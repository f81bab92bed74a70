-------------------------- MODULE AudioPathProofs --------------------------
(***************************************************************************)
(* Theorems of SamplePath, Activation and DeviceMonitor, for any devices,  *)
(* any sizes of ring, read, resampler chunk, frame and callback, and any   *)
(* threshold.                                                              *)
(***************************************************************************)
EXTENDS SamplePath, Activation, DeviceMonitor, QueueTheorems, TLAPS

(***************************************************************************)
(* SamplePath.  The last mono sample sent, what is buffered, what the      *)
(* resampler holds and the ring form one line in the order of the device's *)
(* stream.  Grouping, in the mix-down and in the resampler, makes of every *)
(* group the pair of its first and its last, so the line stays in order;   *)
(* dropping a part of it does no harm.                                     *)
(***************************************************************************)
Samples == Int \X Int \X Inputs
Monos == Samples \X Samples

SamplesTypeOK ==
    /\ device \in Inputs /\ reader \in Inputs /\ announced \in Seq(Inputs)
    /\ instant \in Nat /\ ring \in Seq(Samples)
    /\ residue \in Seq(Monos) /\ buffer \in Seq(Monos)
    /\ last \in Monos \union {<<>>}

InLine(s) == \A i, j \in DOMAIN s : i < j => Before(s[i][2], s[j][1])
Ahead(s, t) == \A a \in Range(s), b \in Range(t) : Before(a[2], b[1])
\* Every element of t begins and ends where elements of s do.
MadeOf(t, s) ==
    \A b \in Range(t) :
        (\E x \in Range(s) : b[1] = x[1]) /\ (\E y \in Range(s) : b[2] = y[2])

Pairs(samples) == [k \in DOMAIN samples |-> <<samples[k], samples[k]>>]
SentLast == IF last = <<>> THEN <<>> ELSE <<last>>
Way == SentLast \o (buffer \o (residue \o Pairs(ring)))
KnownBy(s, n) == \A a \in Range(s) : a[2][1] <= n

\* A line in order, of instants up to n.
Flows(s, n) == InLine(s) /\ KnownBy(s, n)
SamplesFlow == Flows(Way, instant)

\* Division by the size of a group.
LEMMA Divided ==
  ASSUME NEW a \in Nat, NEW c \in Nat \ {0}
  PROVE  /\ a \div c \in Nat /\ a % c \in 0 .. c - 1
         /\ a = (a \div c) * c + (a % c)
<1>1. c \in Int /\ c > 0
  OBVIOUS
<1>2. a = (a \div c) * c + (a % c)
  BY <1>1
<1>3. a \div c \in Nat /\ a % c \in 0 .. c - 1
  OBVIOUS
<1>4. QED BY <1>2, <1>3

LEMMA Groups ==
  ASSUME NEW c \in Nat \ {0}, NEW n \in Nat, NEW i \in 1 .. n \div c
  PROVE  /\ (i - 1) * c + 1 \in 1 .. n /\ i * c \in 1 .. n
         /\ (i - 1) * c + 1 <= i * c
         /\ i * c <= c * (n \div c)
  OBVIOUS

LEMMA GroupsFit ==
  ASSUME NEW c \in Nat \ {0}, NEW n \in Nat
  PROVE  c * (n \div c) \in 0 .. n
<1>1. PICK q \in Nat, r \in Nat : q = n \div c /\ n = q * c + r
  BY Divided
<1>2. c * q \in 0 .. n
  BY <1>1
<1>3. QED BY <1>1, <1>2

LEMMA BelowProduct ==
  ASSUME NEW a \in Nat, NEW b \in Nat, NEW c \in Nat \ {0}, a < b * c
  PROVE  a \div c < b
  OBVIOUS

LEMMA DivisionInOrder ==
  ASSUME NEW a \in Nat, NEW b \in Nat, NEW c \in Nat \ {0}, a < b,
         NEW qa, NEW qb, NEW ra, NEW rb,
         qa = a \div c, qb = b \div c, ra = a % c, rb = b % c
  PROVE  qa < qb \/ (qa = qb /\ ra < rb)
  OBVIOUS

LEMMA GroupsInOrder ==
  ASSUME NEW c \in Nat \ {0}, NEW i \in Nat, NEW j \in Nat, i < j
  PROVE  i * c < (j - 1) * c + 1
  OBVIOUS

LEMMA RegroupedMonos ==
  \A r, s, t \in Seq(Monos) : (r \o s) \o t = r \o (s \o t)
  BY Regrouped

LEMMA MonosJoined == \A r, s \in Seq(Monos) : r \o s \in Seq(Monos)
  BY ConcatParts

\* Regrouping.  Behind a name of its own the provers take joining as a
\* function of which they know these laws, and not its definition.
Then(s, t) == s \o t

LEMMA ThenGroups ==
  ASSUME NEW d \in Seq(Monos), NEW p \in Seq(Monos), NEW q \in Seq(Monos)
  PROVE  /\ Then(d, p) \in Seq(Monos)
         /\ Then(d, Then(p, q)) = Then(Then(d, p), q)
<1>1. d \o p \in Seq(Monos)
  BY ConcatParts
<1>2. (d \o p) \o q = d \o (p \o q)
  BY ConcatAssociative
<1>3. QED BY <1>1, <1>2 DEF Then

LEMMA MonosCut ==
  \A q \in Seq(Monos) : \A n \in 0 .. Len(q) :
     /\ SubSeq(q, 1, n) \in Seq(Monos) /\ Len(SubSeq(q, 1, n)) = n
     /\ SubSeq(q, n + 1, Len(q)) \in Seq(Monos)
     /\ q = SubSeq(q, 1, n) \o SubSeq(q, n + 1, Len(q))
  BY CutInTwo, ZenonT(30)

LEMMA SamplesCut ==
  \A q \in Seq(Samples) : \A n \in 0 .. Len(q) :
     /\ SubSeq(q, 1, n) \in Seq(Samples) /\ Len(SubSeq(q, 1, n)) = n
     /\ SubSeq(q, n + 1, Len(q)) \in Seq(Samples)
     /\ q = SubSeq(q, 1, n) \o SubSeq(q, n + 1, Len(q))
  BY CutInTwo, ZenonT(30)

LEMMA MonoNotEmpty == \A x \in Monos : x # <<>>
  BY DEF Monos

LEMMA Quotients ==
  \A a \in Nat, c \in Nat \ {0} : a \div c \in Nat /\ a % c \in Nat
  BY Divided

\* A line is in order if its parts are and the first is ahead of the second.
LEMMA InLineConcat ==
  ASSUME NEW S, NEW s \in Seq(S), NEW t \in Seq(S)
  PROVE  InLine(s \o t) <=> InLine(s) /\ InLine(t) /\ Ahead(s, t)
<1> DEFINE st == s \o t
<1>1. /\ Len(s) \in Nat /\ Len(t) \in Nat
      /\ DOMAIN s = 1 .. Len(s) /\ DOMAIN t = 1 .. Len(t)
      /\ DOMAIN st = 1 .. Len(s) + Len(t)
      /\ \A i \in 1 .. Len(s) : st[i] = s[i]
      /\ \A i \in 1 .. Len(t) : st[Len(s) + i] = t[i]
  BY ConcatParts
<1> HIDE DEF st
<1>2. PICK m \in Nat, n \in Nat : m = Len(s) /\ n = Len(t)
  BY <1>1
<1>3. ASSUME InLine(st) PROVE InLine(s) /\ InLine(t) /\ Ahead(s, t)
  <2>1. InLine(s)
    <3>1. \A i \in 1 .. m : i \in 1 .. m + n
      OBVIOUS
    <3>2. QED BY <1>1, <1>2, <1>3, <3>1 DEF InLine
  <2>2. InLine(t)
    <3>1. ASSUME NEW i \in 1 .. n, NEW j \in 1 .. n, i < j
          PROVE  Before(t[i][2], t[j][1])
      <4>1. m + i \in 1 .. m + n /\ m + j \in 1 .. m + n /\ m + i < m + j
        BY <3>1
      <4>2. Before(st[m + i][2], st[m + j][1])
        BY <1>1, <1>2, <1>3, <4>1 DEF InLine
      <4>3. st[m + i] = t[i] /\ st[m + j] = t[j]
        BY <1>1, <1>2
      <4>4. QED BY <4>2, <4>3
    <3>2. QED BY <1>1, <1>2, <3>1 DEF InLine
  <2>3. Ahead(s, t)
    <3>1. ASSUME NEW i \in 1 .. m, NEW j \in 1 .. n
          PROVE  Before(s[i][2], t[j][1])
      <4>1. i \in 1 .. m + n /\ m + j \in 1 .. m + n /\ i < m + j
        OBVIOUS
      <4>2. Before(st[i][2], st[m + j][1])
        BY <1>1, <1>2, <1>3, <4>1 DEF InLine
      <4>3. st[i] = s[i] /\ st[m + j] = t[j]
        BY <1>1, <1>2
      <4>4. QED BY <4>2, <4>3
    <3>2. QED BY <1>1, <1>2, <3>1 DEF Ahead, Range
  <2>4. QED BY <2>1, <2>2, <2>3
<1>4. ASSUME InLine(s), InLine(t), Ahead(s, t) PROVE InLine(st)
  <2>1. ASSUME NEW i \in 1 .. m + n, NEW j \in 1 .. m + n, i < j
        PROVE  Before(st[i][2], st[j][1])
    <3>1. CASE j <= m
      <4>1. i \in 1 .. m /\ j \in 1 .. m
        BY <2>1, <3>1
      <4>2. st[i] = s[i] /\ st[j] = s[j]
        BY <1>1, <1>2, <4>1
      <4>3. QED BY <1>1, <1>2, <1>4, <2>1, <4>1, <4>2 DEF InLine
    <3>2. CASE i <= m /\ m < j
      <4>1. i \in 1 .. m /\ j - m \in 1 .. n /\ m + (j - m) = j
        BY <2>1, <3>2
      <4>2. st[i] = s[i] /\ st[j] = t[j - m]
        BY <1>1, <1>2, <4>1
      <4>3. s[i] \in Range(s) /\ t[j - m] \in Range(t)
        BY <1>1, <1>2, <4>1 DEF Range
      <4>4. QED BY <1>4, <4>2, <4>3 DEF Ahead
    <3>3. CASE m < i
      <4>1. /\ i - m \in 1 .. n /\ j - m \in 1 .. n /\ i - m < j - m
            /\ m + (i - m) = i /\ m + (j - m) = j
        BY <2>1, <3>3, Shifted
      <4>2. st[i] = t[i - m] /\ st[j] = t[j - m]
        BY <1>1, <1>2, <4>1
      <4>3. Before(t[i - m][2], t[j - m][1])
        BY <1>1, <1>2, <1>4, <4>1 DEF InLine
      <4>4. QED BY <4>2, <4>3
    <3>4. QED BY <2>1, <3>1, <3>2, <3>3
  <2>2. QED BY <1>1, <1>2, <2>1 DEF InLine
<1>5. QED BY <1>3, <1>4 DEF st

LEMMA AheadConcat ==
  ASSUME NEW S, NEW r \in Seq(S), NEW s \in Seq(S), NEW t \in Seq(S)
  PROVE  /\ Ahead(r, s \o t) <=> Ahead(r, s) /\ Ahead(r, t)
         /\ Ahead(r \o s, t) <=> Ahead(r, t) /\ Ahead(s, t)
<1>1. /\ Range(s \o t) = Range(s) \union Range(t)
      /\ Range(r \o s) = Range(r) \union Range(s)
  BY RangeOfConcat
<1>2. QED BY <1>1 DEF Ahead

LEMMA FlowConcat ==
  ASSUME NEW S, NEW s \in Seq(S), NEW t \in Seq(S), NEW n
  PROVE  Flows(s \o t, n) <=> Flows(s, n) /\ Flows(t, n) /\ Ahead(s, t)
<1>1. Range(s \o t) = Range(s) \union Range(t)
  BY RangeOfConcat
<1>2. KnownBy(s \o t, n) <=> KnownBy(s, n) /\ KnownBy(t, n)
  BY <1>1 DEF KnownBy
<1>3. InLine(s \o t) <=> InLine(s) /\ InLine(t) /\ Ahead(s, t)
  BY InLineConcat
<1>4. QED BY <1>2, <1>3 DEF Flows

\* Three parts, each in order and ahead of those behind it.
LEMMA ThreeFlow ==
  ASSUME NEW r \in Seq(Monos), NEW s \in Seq(Monos), NEW t \in Seq(Monos),
         NEW n
  PROVE  Flows(r \o (s \o t), n) <=>
           /\ Flows(r, n) /\ Flows(s, n) /\ Flows(t, n)
           /\ Ahead(r, s) /\ Ahead(r, t) /\ Ahead(s, t)
<1>1. PICK st \in Seq(Monos) : st = s \o t
  BY ConcatParts
<1>2. Flows(r \o st, n) <=> Flows(r, n) /\ Flows(st, n) /\ Ahead(r, st)
  BY FlowConcat
<1>3. Flows(s \o t, n) <=> Flows(s, n) /\ Flows(t, n) /\ Ahead(s, t)
  BY FlowConcat
<1>4. Ahead(r, s \o t) <=> Ahead(r, s) /\ Ahead(r, t)
  BY AheadConcat
<1>5. QED BY <1>1, <1>2, <1>3, <1>4

\* What is made of a part of the line stands where that part stood.
LEMMA MadeInPlace ==
  ASSUME NEW s, NEW t, MadeOf(t, s)
  PROVE  /\ \A r : Ahead(r, s) => Ahead(r, t)
         /\ \A r : Ahead(s, r) => Ahead(t, r)
         /\ \A n : KnownBy(s, n) => KnownBy(t, n)
<1>1. \A r : Ahead(r, s) => Ahead(r, t)
  BY DEF Ahead, MadeOf
<1>2. \A r : Ahead(s, r) => Ahead(t, r)
  BY DEF Ahead, MadeOf
<1>3. \A n : KnownBy(s, n) => KnownBy(t, n)
  BY DEF KnownBy, MadeOf
<1>4. QED BY <1>1, <1>2, <1>3

\* Grouping a line by c, from its first element on.
LEMMA Grouped ==
  ASSUME NEW s \in Seq(Monos), NEW c \in Nat \ {0}, InLine(s),
         NEW g, g = [j \in 1 .. Len(s) \div c |->
                       <<s[(j - 1) * c + 1][1], s[j * c][2]>>]
  PROVE  /\ g \in Seq(Monos) /\ InLine(g)
         /\ MadeOf(g, SubSeq(s, 1, c * (Len(s) \div c)))
<1>1. PICK n \in Nat : n = Len(s) /\ DOMAIN s = 1 .. n
  OBVIOUS
<1>2. PICK m \in Nat : m = n \div c
  BY Divided
<1>3. g = [j \in 1 .. m |-> <<s[(j - 1) * c + 1][1], s[j * c][2]>>]
  BY <1>1, <1>2
<1>4. \A j \in 1 .. m :
        /\ (j - 1) * c + 1 \in 1 .. n /\ j * c \in 1 .. n
        /\ (j - 1) * c + 1 <= c * m /\ j * c <= c * m
  BY <1>2, Groups
<1>5. \A k \in 1 .. n : s[k] \in Monos /\ s[k][1] \in Samples
                                      /\ s[k][2] \in Samples
  BY <1>1 DEF Monos
<1>6. \A j \in 1 .. m : <<s[(j - 1) * c + 1][1], s[j * c][2]>> \in Monos
  BY <1>4, <1>5 DEF Monos
<1>7. g \in Seq(Monos) /\ DOMAIN g = 1 .. m
  <2>1. g \in [1 .. m -> Monos]
    BY <1>3, <1>6
  <2>2. QED BY <2>1, IsASequence
<1>8. ASSUME NEW i \in 1 .. m, NEW j \in 1 .. m, i < j
      PROVE  Before(g[i][2], g[j][1])
  <2>1. i * c < (j - 1) * c + 1
    BY <1>8, GroupsInOrder
  <2>2. Before(s[i * c][2], s[(j - 1) * c + 1][1])
    BY <1>1, <1>4, <2>1 DEF InLine
  <2>3. g[i][2] = s[i * c][2] /\ g[j][1] = s[(j - 1) * c + 1][1]
    BY <1>3, SMTT(30)
  <2>4. QED BY <2>2, <2>3
<1>9. MadeOf(g, SubSeq(s, 1, c * m))
  <2>1. PICK l \in 0 .. n : l = c * m
    BY <1>2, GroupsFit
  <2>2. /\ DOMAIN SubSeq(s, 1, l) = 1 .. l
        /\ \A k \in 1 .. l : SubSeq(s, 1, l)[k] = s[k]
    BY <1>1, <2>1
  <2>3. \A k \in 1 .. l : s[k] \in Range(SubSeq(s, 1, l))
    BY <2>2 DEF Range
  <2>4. ASSUME NEW j \in 1 .. m
        PROVE  /\ \E x \in Range(SubSeq(s, 1, l)) : g[j][1] = x[1]
               /\ \E y \in Range(SubSeq(s, 1, l)) : g[j][2] = y[2]
    <3>1. /\ g[j][1] = s[(j - 1) * c + 1][1]
          /\ g[j][2] = s[j * c][2]
      <4>1. g[j] = <<s[(j - 1) * c + 1][1], s[j * c][2]>>
        BY <1>3
      <4>2. QED BY <4>1
    <3>2. (j - 1) * c + 1 \in 1 .. l /\ j * c \in 1 .. l
      BY <1>4, <2>1
    <3>3. QED BY <2>3, <3>1, <3>2
  <2>5. SUFFICES ASSUME NEW b \in Range(g)
                 PROVE  /\ \E x \in Range(SubSeq(s, 1, l)) : b[1] = x[1]
                        /\ \E y \in Range(SubSeq(s, 1, l)) : b[2] = y[2]
    BY <2>1 DEF MadeOf
  <2>6. PICK j \in 1 .. m : b = g[j]
    BY <1>7 DEF Range
  <2>7. QED BY <2>4, <2>6
<1>10. QED BY <1>1, <1>2, <1>7, <1>8, <1>9 DEF InLine

\* The samples of the ring as a line.
LEMMA PairsTyped ==
  ASSUME NEW b \in Seq(Samples)
  PROVE  /\ Pairs(b) \in Seq(Monos) /\ Len(Pairs(b)) = Len(b)
         /\ DOMAIN Pairs(b) = 1 .. Len(b)
         /\ \A k \in 1 .. Len(b) : Pairs(b)[k] = <<b[k], b[k]>>
<1>1. PICK n \in Nat : n = Len(b) /\ DOMAIN b = 1 .. n
  OBVIOUS
<1>2. \A k \in 1 .. n : <<b[k], b[k]>> \in Monos
  BY <1>1 DEF Monos
<1>3. Pairs(b) \in [1 .. n -> Monos]
  BY <1>1, <1>2 DEF Pairs
<1>4. Pairs(b) \in Seq(Monos) /\ Len(Pairs(b)) = n /\ DOMAIN Pairs(b) = 1 .. n
  BY <1>3
<1>5. QED BY <1>1, <1>4 DEF Pairs

LEMMA PairsConcat ==
  ASSUME NEW a \in Seq(Samples), NEW b \in Seq(Samples)
  PROVE  Pairs(a \o b) = Pairs(a) \o Pairs(b)
<1>1. PICK m \in Nat, n \in Nat : m = Len(a) /\ n = Len(b)
  OBVIOUS
<1>0. PICK s \in Seq(Monos), t \in Seq(Monos) :
        s = Pairs(a) /\ t = Pairs(b) /\ Len(s) = m /\ Len(t) = n
  BY <1>1, PairsTyped
<1> DEFINE ab == a \o b
           p == s \o t
<1>2. /\ ab \in Seq(Samples) /\ Len(ab) = m + n
      /\ \A k \in 1 .. m : ab[k] = a[k]
      /\ \A k \in 1 .. n : ab[m + k] = b[k]
  BY <1>1, ConcatParts
<1>3. /\ p \in Seq(Monos) /\ Len(p) = m + n
      /\ \A k \in 1 .. m : p[k] = Pairs(a)[k]
      /\ \A k \in 1 .. n : p[m + k] = Pairs(b)[k]
  <2>1. /\ p \in Seq(Monos) /\ Len(p) = Len(s) + Len(t)
        /\ \A k \in 1 .. Len(s) : p[k] = s[k]
        /\ \A k \in 1 .. Len(t) : p[Len(s) + k] = t[k]
    BY ConcatParts
  <2>2. QED BY <1>0, <2>1
<1> HIDE DEF ab, p
<1>4. /\ Pairs(ab) \in Seq(Monos) /\ Len(Pairs(ab)) = m + n
      /\ \A k \in 1 .. m + n : Pairs(ab)[k] = <<ab[k], ab[k]>>
  BY <1>2, PairsTyped
<1>5. ASSUME NEW k \in 1 .. m + n PROVE Pairs(ab)[k] = p[k]
  <2>1. CASE k <= m
    <3>1. k \in 1 .. m
      BY <2>1
    <3>2. Pairs(a)[k] = <<a[k], a[k]>>
      BY <1>1, <3>1, PairsTyped
    <3>3. QED BY <1>2, <1>3, <1>4, <3>1, <3>2
  <2>2. CASE k > m
    <3>1. k - m \in 1 .. n /\ m + (k - m) = k
      BY <2>2
    <3>2. Pairs(b)[k - m] = <<b[k - m], b[k - m]>>
      BY <1>1, <3>1, PairsTyped
    <3>3. ab[k] = b[k - m] /\ p[k] = Pairs(b)[k - m]
      BY <1>2, <1>3, <3>1
    <3>4. QED BY <1>4, <3>2, <3>3
  <2>3. QED BY <2>1, <2>2
<1>6. Pairs(ab) = p
  BY <1>3, <1>4, <1>5, SeqEqual
<1>7. QED BY <1>0, <1>6 DEF ab, p

\* The mix-down groups the samples by instant, or by what it takes for one.
LEMMA MixedDown ==
  ASSUME NEW b \in Seq(Samples), NEW c \in Nat \ {0}, InLine(Pairs(b))
  PROVE  /\ MixDown(b, c) \in Seq(Monos) /\ InLine(MixDown(b, c))
         /\ MadeOf(MixDown(b, c), Pairs(b))
<1>1. PICK n \in Nat : n = Len(b)
  OBVIOUS
<1>2. /\ Pairs(b) \in Seq(Monos) /\ Len(Pairs(b)) = n
      /\ DOMAIN Pairs(b) = 1 .. n
      /\ \A k \in 1 .. n : Pairs(b)[k] = <<b[k], b[k]>>
  BY <1>1, PairsTyped
<1>3. PICK s \in Seq(Monos) : s = Pairs(b)
  BY <1>2
<1>4. \A j \in 1 .. n \div c : /\ (j - 1) * c + 1 \in 1 .. n
                              /\ j * c \in 1 .. n
  BY Groups
<1>5. MixDown(b, c) = [j \in 1 .. Len(s) \div c |->
                         <<s[(j - 1) * c + 1][1], s[j * c][2]>>]
  BY <1>1, <1>2, <1>3, <1>4 DEF MixDown
<1>6. /\ MixDown(b, c) \in Seq(Monos) /\ InLine(MixDown(b, c))
      /\ MadeOf(MixDown(b, c), SubSeq(s, 1, c * (Len(s) \div c)))
  BY <1>3, <1>5, Grouped
<1>7. PICK l \in 0 .. n : l = c * (Len(s) \div c)
  BY <1>2, <1>3, GroupsFit
<1>8. Range(SubSeq(s, 1, l)) \subseteq Range(s)
  BY <1>2, <1>3 DEF Range
<1>9. QED BY <1>3, <1>6, <1>7, <1>8 DEF MadeOf

\* What is made of the samples read goes behind what the resampler holds, or
\* replaces it.
LEMMA Fed ==
  ASSUME NEW a \in Seq(Monos), NEW r \in Seq(Monos), NEW p \in Seq(Monos),
         NEW u \in Seq(Monos), NEW m \in Seq(Monos), NEW h \in {r, <<>>},
         NEW n, Flows(a \o (r \o (p \o u)), n), InLine(m), MadeOf(m, p)
  PROVE  h \o m \in Seq(Monos) /\ Flows(a \o ((h \o m) \o u), n)
<1>1. PICK pu \in Seq(Monos), hm \in Seq(Monos) :
        pu = p \o u /\ hm = h \o m /\ h \in Seq(Monos)
  <2>1. h \in Seq(Monos)
    BY EmptySeq
  <2>2. p \o u \in Seq(Monos) /\ h \o m \in Seq(Monos)
    BY <2>1, ConcatParts
  <2>3. QED BY <2>1, <2>2
<1>2. /\ Flows(a, n) /\ Flows(r, n) /\ Flows(pu, n)
      /\ Ahead(a, r) /\ Ahead(a, pu) /\ Ahead(r, pu)
  BY <1>1, ThreeFlow
<1>3. Flows(p, n) /\ Flows(u, n) /\ Ahead(p, u)
  BY <1>1, <1>2, FlowConcat
<1>4. Ahead(a, p) /\ Ahead(a, u) /\ Ahead(r, p) /\ Ahead(r, u)
  BY <1>1, <1>2, AheadConcat
<1>5. /\ Flows(m, n) /\ Ahead(a, m) /\ Ahead(r, m) /\ Ahead(m, u)
  BY <1>3, <1>4, MadeInPlace DEF Flows
<1>6. Flows(h, n) /\ Ahead(a, h) /\ Ahead(h, m) /\ Ahead(h, u)
  BY <1>2, <1>4, <1>5, RangeOfNone DEF Flows, InLine, KnownBy, Ahead
<1>7. Flows(hm, n) /\ Ahead(a, hm) /\ Ahead(hm, u)
  <2>1. Flows(h \o m, n)
    BY <1>1, <1>5, <1>6, FlowConcat
  <2>2. Ahead(a, h \o m) /\ Ahead(h \o m, u)
    BY <1>1, <1>4, <1>5, <1>6, AheadConcat
  <2>3. QED BY <1>1, <2>1, <2>2
<1>8. Flows(a \o (hm \o u), n)
  BY <1>2, <1>3, <1>4, <1>7, ThreeFlow
<1>9. QED BY <1>1, <1>8

\* What is made of the first part of the samples fed stands in its place.
LEMMA FrontReplaced ==
  ASSUME NEW a \in Seq(Monos), NEW f \in Seq(Monos), NEW i \in Seq(Monos),
         NEW u \in Seq(Monos), NEW g \in Seq(Monos), NEW n,
         Flows(a \o ((f \o i) \o u), n), InLine(g), MadeOf(g, f)
  PROVE  Flows(a \o (g \o (i \o u)), n)
<1>1. PICK fi \in Seq(Monos), iu \in Seq(Monos) : fi = f \o i /\ iu = i \o u
  BY ConcatParts
<1>2. /\ Flows(a, n) /\ Flows(fi, n) /\ Flows(u, n)
      /\ Ahead(a, fi) /\ Ahead(a, u) /\ Ahead(fi, u)
  BY <1>1, ThreeFlow
<1>3. Flows(f, n) /\ Flows(i, n) /\ Ahead(f, i)
  BY <1>1, <1>2, FlowConcat
<1>4. Ahead(a, f) /\ Ahead(a, i) /\ Ahead(f, u) /\ Ahead(i, u)
  BY <1>1, <1>2, AheadConcat
<1>5. Flows(g, n) /\ Ahead(a, g) /\ Ahead(g, i) /\ Ahead(g, u)
  BY <1>3, <1>4, MadeInPlace DEF Flows
<1>6. Flows(i \o u, n) /\ Ahead(a, i \o u) /\ Ahead(g, i \o u)
  BY <1>2, <1>3, <1>4, <1>5, FlowConcat, AheadConcat
<1>7. Flows(a \o (g \o iu), n)
  BY <1>1, <1>2, <1>5, <1>6, ThreeFlow, ZenonT(30)
<1>8. QED BY <1>1, <1>7

\* When frames are sent the last sample in them stands for all of them.
LEMMA FramesSent ==
  ASSUME NEW l \in Seq(Monos), NEW w \in Seq(Monos), NEW v \in Seq(Monos),
         NEW z \in Seq(Monos), NEW n, NEW x \in Range(w),
         Flows(l \o ((w \o v) \o z), n)
  PROVE  Flows(<<x>> \o (v \o z), n)
<1>1. PICK wv \in Seq(Monos), vz \in Seq(Monos), o \in Seq(Monos) :
        wv = w \o v /\ vz = v \o z /\ o = <<x>>
  <2>1. x \in Monos
    BY DEF Range
  <2>2. <<x>> \in Seq(Monos)
    BY <2>1, LastAdded, EmptySeq
  <2>3. w \o v \in Seq(Monos) /\ v \o z \in Seq(Monos)
    BY ConcatParts
  <2>4. QED BY <2>2, <2>3
<1>2. Flows(wv, n) /\ Flows(z, n) /\ Ahead(wv, z)
  BY <1>1, ThreeFlow
<1>3. Flows(w, n) /\ Flows(v, n) /\ Ahead(w, v)
  BY <1>1, <1>2, FlowConcat
<1>4. Ahead(w, z) /\ Ahead(v, z)
  BY <1>1, <1>2, AheadConcat
<1>5. Range(o) = {x} /\ InLine(o)
  BY <1>1, RangeOfOne DEF InLine
<1>6. Flows(o, n) /\ Ahead(o, v) /\ Ahead(o, z)
  BY <1>3, <1>4, <1>5 DEF Flows, KnownBy, Ahead
<1>7. Flows(o \o (v \o z), n)
  BY <1>2, <1>3, <1>4, <1>6, ThreeFlow
<1>8. QED BY <1>1, <1>7

\* What a read takes and what it leaves.
LEMMA BatchTaken ==
  ASSUME SamplesTypeOK
  PROVE  /\ Batch \in Seq(Samples) /\ Unread \in Seq(Samples)
         /\ ring = Batch \o Unread
         /\ Pairs(ring) = Pairs(Batch) \o Pairs(Unread)
         /\ Pairs(Batch) \in Seq(Monos) /\ Pairs(Unread) \in Seq(Monos)
<1>1. PICK n \in Nat, l \in Nat :
        n = Len(ring) /\ l = IF n < ReadMax THEN n ELSE ReadMax
  <2>1. Len(ring) \in Nat /\ ReadMax \in Nat
    BY SamplesAssumption DEF SamplesTypeOK
  <2>2. QED BY <2>1
<1>2. l \in 0 .. n
  BY <1>1
<1>3. PICK q \in Seq(Samples) : q = ring /\ Len(q) = n
  BY <1>1 DEF SamplesTypeOK
<1>4. /\ SubSeq(ring, 1, l) \in Seq(Samples) /\ Len(SubSeq(ring, 1, l)) = l
      /\ SubSeq(ring, l + 1, n) \in Seq(Samples)
      /\ ring = SubSeq(ring, 1, l) \o SubSeq(ring, l + 1, n)
  <2>1. l \in 0 .. Len(q)
    BY <1>2, <1>3
  <2>2. /\ SubSeq(q, 1, l) \in Seq(Samples) /\ Len(SubSeq(q, 1, l)) = l
        /\ SubSeq(q, l + 1, Len(q)) \in Seq(Samples)
        /\ q = SubSeq(q, 1, l) \o SubSeq(q, l + 1, Len(q))
    BY <2>1, SamplesCut
  <2>3. QED BY <1>3, <2>2
<1>5. Batch = SubSeq(ring, 1, l) /\ Unread = SubSeq(ring, l + 1, n)
  BY <1>1, <1>4 DEF Batch, Unread
<1>6. PICK s \in Seq(Samples), t \in Seq(Samples) :
        s = Batch /\ t = Unread /\ ring = s \o t
  BY <1>4, <1>5
<1>7. Pairs(s \o t) = Pairs(s) \o Pairs(t)
  BY PairsConcat
<1>8. Pairs(s) \in Seq(Monos) /\ Pairs(t) \in Seq(Monos)
  BY PairsTyped
<1>9. QED BY <1>6, <1>7, <1>8

LEMMA WayTyped ==
  ASSUME SamplesTypeOK
  PROVE  /\ SentLast \in Seq(Monos) /\ Pairs(ring) \in Seq(Monos)
         /\ SentLast \o buffer \in Seq(Monos) /\ Way \in Seq(Monos)
<1>1. /\ buffer \in Seq(Monos) /\ residue \in Seq(Monos)
      /\ ring \in Seq(Samples) /\ last \in Monos \union {<<>>}
  BY DEF SamplesTypeOK
<1>2. SentLast \in Seq(Monos)
  <2>1. CASE last = <<>>
    BY <2>1, EmptySeq DEF SentLast
  <2>2. CASE last # <<>>
    BY <1>1, <2>2, LastAdded, EmptySeq DEF SentLast
  <2>3. QED BY <2>1, <2>2
<1>3. Pairs(ring) \in Seq(Monos)
  BY <1>1, PairsTyped
<1>4. PICK p \in Seq(Monos), l \in Seq(Monos) : p = Pairs(ring) /\ l = SentLast
  BY <1>2, <1>3
<1>5. PICK rp \in Seq(Monos) : rp = residue \o p
  BY <1>1, ConcatParts
<1>6. PICK brp \in Seq(Monos) : brp = buffer \o rp
  BY <1>1, ConcatParts
<1>7. l \o brp \in Seq(Monos) /\ l \o buffer \in Seq(Monos)
  BY <1>1, ConcatParts
<1>8. QED BY <1>4, <1>5, <1>6, <1>7 DEF Way

\* The line before a read, with what is read apart.
LEMMA WayBefore ==
  ASSUME SamplesTypeOK, SamplesFlow
  PROVE  Flows((SentLast \o buffer) \o
                 (residue \o (Pairs(Batch) \o Pairs(Unread))), instant)
<1>1. PICK p : p = Pairs(ring) /\ p \in Seq(Monos)
               /\ p = Pairs(Batch) \o Pairs(Unread)
  BY WayTyped, BatchTaken
<1>2. PICK rest : rest = residue \o p /\ rest \in Seq(Monos)
  BY <1>1, MonosJoined DEF SamplesTypeOK
<1>3. PICK l, b : /\ l = SentLast /\ b = buffer
                  /\ l \in Seq(Monos) /\ b \in Seq(Monos)
  BY WayTyped DEF SamplesTypeOK
<1>4. (l \o b) \o rest = l \o (b \o rest)
  BY <1>2, <1>3, RegroupedMonos, SMTT(30)
<1>5. QED BY <1>1, <1>2, <1>3, <1>4 DEF SamplesFlow, Way

\* The resampler takes whole groups off what it is fed and holds the rest.
LEMMA Resampling ==
  ASSUME NEW a \in Seq(Monos), NEW fed \in Seq(Monos), NEW u \in Seq(Monos),
         NEW n, Flows(a \o (fed \o u), n)
  PROVE  /\ Resample(fed) \in Seq(Monos) /\ Incomplete(fed) \in Seq(Monos)
         /\ Flows(a \o (Resample(fed) \o (Incomplete(fed) \o u)), n)
<1>1. PICK m \in Nat : m = Len(fed)
  OBVIOUS
<1>2. ChunkSize \in Nat \ {0}
  BY SamplesAssumption
<1>3. PICK k \in 0 .. m : k = ChunkSize * (m \div ChunkSize)
  BY <1>2, GroupsFit
<1>4. PICK f, i :
        /\ f \in Seq(Monos) /\ i \in Seq(Monos) /\ fed = f \o i
        /\ f = SubSeq(fed, 1, k) /\ i = SubSeq(fed, k + 1, m)
  <2>1. k \in 0 .. Len(fed)
    BY <1>1
  <2>2. /\ SubSeq(fed, 1, k) \in Seq(Monos)
        /\ SubSeq(fed, k + 1, Len(fed)) \in Seq(Monos)
        /\ fed = SubSeq(fed, 1, k) \o SubSeq(fed, k + 1, Len(fed))
    BY <2>1, MonosCut
  <2>3. QED BY <1>1, <2>2
<1>5. InLine(fed)
  BY ThreeFlow DEF Flows
<1>6. PICK g : /\ g \in Seq(Monos) /\ g = Resample(fed)
               /\ InLine(g) /\ MadeOf(g, f)
  <2>1. Resample(fed) = [j \in 1 .. Len(fed) \div ChunkSize |->
                           <<fed[(j - 1) * ChunkSize + 1][1],
                             fed[j * ChunkSize][2]>>]
    BY DEF Resample
  <2>2. /\ Resample(fed) \in Seq(Monos) /\ InLine(Resample(fed))
        /\ MadeOf(Resample(fed),
                  SubSeq(fed, 1, ChunkSize * (Len(fed) \div ChunkSize)))
    BY <1>2, <1>5, <2>1, Grouped
  <2>3. QED BY <1>1, <1>3, <1>4, <2>2
<1>7. Incomplete(fed) = i
  <2>1. 1 + k = k + 1
    OBVIOUS
  <2>2. Incomplete(fed) = SubSeq(fed, 1 + k, m)
    BY <1>1, <1>3 DEF Incomplete
  <2>3. QED BY <1>4, <2>1, <2>2
<1>8. Flows(a \o ((f \o i) \o u), n)
  BY <1>4
<1>9. Flows(a \o (g \o (i \o u)), n)
  BY <1>4, <1>6, <1>8, FrontReplaced
<1>10. QED BY <1>4, <1>6, <1>7, <1>9

\* Without a resampler what it holds is left out.
LEMMA Unresampled ==
  ASSUME NEW a \in Seq(Monos), NEW h \in Seq(Monos), NEW m \in Seq(Monos),
         NEW u \in Seq(Monos), NEW n, Flows(a \o ((h \o m) \o u), n)
  PROVE  Flows(a \o (m \o (<<>> \o u)), n)
<1>1. PICK hm : hm = h \o m /\ hm \in Seq(Monos)
  BY MonosJoined
<1>2. PICK mu : mu = m \o u /\ mu \in Seq(Monos)
  BY MonosJoined
<1>3. Flows(a, n) /\ Flows(hm, n) /\ Flows(u, n)
      /\ Ahead(a, hm) /\ Ahead(a, u) /\ Ahead(hm, u)
  BY <1>1, ThreeFlow
<1>4. Flows(m, n)
  BY <1>1, <1>3, FlowConcat
<1>5. Ahead(a, m) /\ Ahead(m, u)
  BY <1>1, <1>3, AheadConcat
<1>6. Flows(a \o (m \o u), n)
  BY <1>3, <1>4, <1>5, ThreeFlow
<1>7. <<>> \o u = u
  BY ConcatEmptySeq
<1>8. QED BY <1>6, <1>7

\* The samples a read makes, and those it leaves to the resampler, stand
\* where the samples read and those held stood.
LEMMA ReadMakes ==
  ASSUME SamplesTypeOK, SamplesFlow, ReadFrame
  PROVE  \E g \in Seq(Monos), i \in Seq(Monos) :
           /\ residue' = i
           /\ buffer' = SubSeq(buffer \o g, Ready(buffer \o g) + 1,
                               Len(buffer \o g))
           /\ last' = IF Ready(buffer \o g) = 0 THEN last
                      ELSE (buffer \o g)[Ready(buffer \o g)]
           /\ Flows((SentLast \o buffer) \o (g \o (i \o Pairs(Unread))),
                    instant)
<1>1. PICK a, r, p, u :
        /\ a = SentLast \o buffer /\ r = residue
        /\ p = Pairs(Batch) /\ u = Pairs(Unread)
        /\ a \in Seq(Monos) /\ r \in Seq(Monos)
        /\ p \in Seq(Monos) /\ u \in Seq(Monos)
  BY WayTyped, BatchTaken DEF SamplesTypeOK
<1>2. Flows(a \o (r \o (p \o u)), instant)
  BY <1>1, WayBefore
<1>3. InLine(p)
  <2>1. PICK pu : pu = p \o u /\ pu \in Seq(Monos)
    BY <1>1, MonosJoined
  <2>2. Flows(pu, instant)
    BY <1>1, <1>2, <2>1, ThreeFlow
  <2>3. QED BY <1>1, <2>1, <2>2, FlowConcat DEF Flows
<1>4. PICK m : /\ m = MixDown(Batch, Channels[reader]) /\ m \in Seq(Monos)
               /\ InLine(m) /\ MadeOf(m, p)
  <2>1. Channels[reader] \in Nat \ {0}
    BY SamplesAssumption DEF SamplesTypeOK
  <2>2. Batch \in Seq(Samples)
    BY BatchTaken
  <2>3. QED BY <1>1, <1>3, <2>1, <2>2, MixedDown
<1>5. PICK h : h \in {r, <<>>} /\ h = Held /\ h \in Seq(Monos)
  BY <1>1, EmptySeq DEF Held
<1>6. PICK fed : fed = h \o m /\ fed \in Seq(Monos)
                 /\ Flows(a \o (fed \o u), instant)
  <2>1. /\ a \in Seq(Monos) /\ r \in Seq(Monos) /\ p \in Seq(Monos)
        /\ u \in Seq(Monos) /\ m \in Seq(Monos) /\ h \in {r, <<>>}
        /\ InLine(m) /\ MadeOf(m, p)
    BY <1>1, <1>4, <1>5
  <2>2. h \o m \in Seq(Monos) /\ Flows(a \o ((h \o m) \o u), instant)
    BY <1>2, <2>1, Fed, ZenonT(30)
  <2>3. QED BY <2>2
<1>7. CASE reader \in Resampled
  <2>1. /\ Resample(fed) \in Seq(Monos) /\ Incomplete(fed) \in Seq(Monos)
        /\ Flows(a \o (Resample(fed) \o (Incomplete(fed) \o u)), instant)
    BY <1>1, <1>6, Resampling
  <2>2. PICK g, i : /\ g = Resample(fed) /\ i = Incomplete(fed)
                    /\ g \in Seq(Monos) /\ i \in Seq(Monos)
    BY <2>1
  <2>3. /\ residue' = i
        /\ buffer' = SubSeq(buffer \o g, Ready(buffer \o g) + 1,
                            Len(buffer \o g))
        /\ last' = IF Ready(buffer \o g) = 0 THEN last
                   ELSE (buffer \o g)[Ready(buffer \o g)]
    BY <1>4, <1>5, <1>6, <1>7, <2>2 DEF ReadFrame
  <2>4. QED BY <1>1, <2>1, <2>2, <2>3
<1>8. CASE reader \notin Resampled
  <2>1. Flows(a \o (m \o (<<>> \o u)), instant)
    BY <1>1, <1>4, <1>5, <1>6, Unresampled
  <2>2. PICK i : i = <<>> /\ i \in Seq(Monos)
    BY EmptySeq
  <2>3. /\ residue' = i
        /\ buffer' = SubSeq(buffer \o m, Ready(buffer \o m) + 1,
                            Len(buffer \o m))
        /\ last' = IF Ready(buffer \o m) = 0 THEN last
                   ELSE (buffer \o m)[Ready(buffer \o m)]
    BY <1>4, <1>8, <2>2 DEF ReadFrame
  <2>4. QED BY <1>1, <1>4, <2>1, <2>2, <2>3
<1>9. QED BY <1>7, <1>8

\* Sending whole frames takes the first samples off the buffer.
LEMMA ReadFlows ==
  ASSUME SamplesTypeOK, SamplesFlow, ReadFrame
  PROVE  SamplesTypeOK' /\ SamplesFlow'
<1>1. PICK g, i :
        /\ g \in Seq(Monos) /\ i \in Seq(Monos) /\ residue' = i
        /\ buffer' = SubSeq(buffer \o g, Ready(buffer \o g) + 1,
                            Len(buffer \o g))
        /\ last' = IF Ready(buffer \o g) = 0 THEN last
                   ELSE (buffer \o g)[Ready(buffer \o g)]
        /\ Flows((SentLast \o buffer) \o (g \o (i \o Pairs(Unread))),
                 instant)
  BY ReadMakes
<1>2. PICK l, b, u :
        /\ l = SentLast /\ b = buffer /\ u = Pairs(Unread)
        /\ l \in Seq(Monos) /\ b \in Seq(Monos) /\ u \in Seq(Monos)
  BY WayTyped, BatchTaken DEF SamplesTypeOK
<1>3. PICK whole, n : /\ whole \in Seq(Monos) /\ n \in Nat
                      /\ whole = b \o g /\ n = Len(whole)
                      /\ DOMAIN whole = 1 .. n
  <2>1. b \o g \in Seq(Monos)
    BY <1>1, <1>2, MonosJoined
  <2>2. \A q \in Seq(Monos) : Len(q) \in Nat /\ DOMAIN q = 1 .. Len(q)
    OBVIOUS
  <2>3. QED BY <2>1, <2>2
<1>4. PICK z : z \in Seq(Monos) /\ z = i \o u
  BY <1>1, <1>2, MonosJoined
<1>5. Flows(l \o (whole \o z), instant)
  <2>1. (l \o b) \o (g \o z) = l \o ((b \o g) \o z)
    <3>1. /\ l \in Seq(Monos) /\ b \in Seq(Monos)
          /\ g \in Seq(Monos) /\ z \in Seq(Monos)
      BY <1>1, <1>2, <1>4
    <3>2. Then(Then(l, b), Then(g, z)) = Then(l, Then(Then(b, g), z))
      BY <3>1, ThenGroups
    <3>3. QED BY <3>2 DEF Then
  <2>2. PICK iu : iu = i \o u
    OBVIOUS
  <2>3. Flows((l \o b) \o (g \o iu), instant)
    BY <1>1, <1>2, <2>2
  <2>4. QED BY <1>3, <1>4, <2>1, <2>2, <2>3
<1>6. PICK k : k \in 0 .. n /\ k = Ready(whole)
  BY <1>3, GroupsFit, SamplesAssumption DEF Ready
<1>7. PICK w, v :
        /\ w \in Seq(Monos) /\ v \in Seq(Monos)
        /\ w = SubSeq(whole, 1, k) /\ v = SubSeq(whole, k + 1, n)
        /\ Len(w) = k /\ whole = w \o v
        /\ DOMAIN w = 1 .. k /\ \A j \in 1 .. k : w[j] = whole[j]
  <2>1. k \in 0 .. Len(whole)
    BY <1>3, <1>6
  <2>2. /\ SubSeq(whole, 1, k) \in Seq(Monos)
        /\ Len(SubSeq(whole, 1, k)) = k
        /\ SubSeq(whole, k + 1, Len(whole)) \in Seq(Monos)
        /\ whole = SubSeq(whole, 1, k) \o SubSeq(whole, k + 1, Len(whole))
    BY <1>3, <2>1, MonosCut
  <2>3. /\ DOMAIN SubSeq(whole, 1, k) = 1 .. k
        /\ \A j \in 1 .. k : SubSeq(whole, 1, k)[j] = whole[j]
    BY <1>3, <2>1
  <2>4. QED BY <1>3, <2>2, <2>3
<1>8. buffer' = v /\ last' = IF k = 0 THEN last ELSE whole[k]
  BY <1>1, <1>2, <1>3, <1>6, <1>7
<1>9. /\ ring' = Unread /\ Unread \in Seq(Samples) /\ Pairs(ring') = u
      /\ UNCHANGED <<device, instant, announced, reader>>
  BY <1>2, BatchTaken DEF ReadFrame, deviceVars
<1>10. PICK new : /\ new = SentLast' /\ new \in Seq(Monos)
                  /\ Flows(new \o (v \o z), instant)
  <2>1. CASE k = 0
    <3>1. w = <<>>
      BY <1>7, <2>1, EmptySeq
    <3>2. whole = v
      BY <1>7, <3>1, ConcatEmptySeq
    <3>3. SentLast' = l
      BY <1>2, <1>8, <2>1 DEF SentLast
    <3>4. QED BY <1>2, <1>5, <3>2, <3>3
  <2>2. CASE k # 0
    <3>1. whole[k] \in Range(w) /\ whole[k] \in Monos
      <4>1. k \in 1 .. k /\ k \in 1 .. n
        BY <1>6, <2>2
      <4>2. w[k] = whole[k] /\ w[k] \in Range(w)
        BY <1>7, <4>1 DEF Range
      <4>3. QED BY <1>3, <4>1, <4>2
    <3>2. Flows(<<whole[k]>> \o (v \o z), instant)
      BY <1>2, <1>4, <1>5, <1>7, <3>1, FramesSent
    <3>3. whole[k] # <<>>
      BY <3>1, MonoNotEmpty
    <3>4. SentLast' = <<whole[k]>>
      BY <1>8, <2>2, <3>3 DEF SentLast
    <3>5. <<whole[k]>> \in Seq(Monos)
      BY <3>1, LastAdded, EmptySeq
    <3>6. QED BY <3>2, <3>4, <3>5
  <2>3. QED BY <2>1, <2>2
<1>11. last' \in Monos \union {<<>>}
  <2>1. k # 0 => whole[k] \in Monos
    BY <1>3, <1>6
  <2>2. QED BY <1>8, <2>1 DEF SamplesTypeOK
<1>12. SamplesTypeOK'
  BY <1>1, <1>7, <1>8, <1>9, <1>11 DEF SamplesTypeOK
<1>13. Way' = new \o (v \o z)
  BY <1>1, <1>4, <1>8, <1>9, <1>10 DEF Way
<1>14. QED BY <1>9, <1>10, <1>12, <1>13 DEF SamplesFlow

\* What a callback hands over: whole instants, one after the other.
LEMMA CallbackTyped ==
  ASSUME SamplesTypeOK,
         NEW c, c = Channels[device], NEW n, n = Block * c
  PROVE  /\ c \in Nat \ {0} /\ n \in Nat
         /\ Interleaved \in Seq(Samples) /\ Len(Interleaved) = n
         /\ \A k \in 1 .. n :
              /\ Interleaved[k] = <<instant + 1 + (k - 1) \div c,
                                    1 + ((k - 1) % c), device>>
              /\ k - 1 \in Nat
              /\ (k - 1) \div c \in 0 .. Block - 1
<1>1. /\ c \in Nat \ {0} /\ Block \in Nat \ {0} /\ instant \in Nat
      /\ device \in Inputs
  BY SamplesAssumption DEF SamplesTypeOK
<1>2. n \in Nat
  BY <1>1
<1>3. ASSUME NEW k \in 1 .. n
      PROVE  /\ k - 1 \in Nat /\ (k - 1) \div c \in 0 .. Block - 1
             /\ (k - 1) % c \in Nat
  <2>1. PICK a \in Nat : a = k - 1 /\ a < Block * c
    BY <1>2
  <2>2. a \div c \in Nat /\ a % c \in Nat
    BY <1>1, Quotients
  <2>3. a \div c < Block
    BY <1>1, <2>1, BelowProduct
  <2>4. QED BY <1>1, <2>1, <2>2, <2>3
<1>4. Interleaved = [k \in 1 .. n |-> <<instant + 1 + (k - 1) \div c,
                                        1 + ((k - 1) % c), device>>]
  BY DEF Interleaved
<1>5. ASSUME NEW k \in 1 .. n
      PROVE  <<instant + 1 + (k - 1) \div c, 1 + ((k - 1) % c), device>>
               \in Samples
  BY <1>1, <1>3 DEF Samples
<1>6. Interleaved \in [1 .. n -> Samples]
  BY <1>4, <1>5
<1>7. Interleaved \in Seq(Samples) /\ Len(Interleaved) = n
  BY <1>2, <1>6, IsASequence
<1>8. QED BY <1>1, <1>2, <1>3, <1>4, <1>7

LEMMA CallbackInLine ==
  ASSUME SamplesTypeOK
  PROVE  /\ InLine(Pairs(Interleaved))
         /\ \A k \in 1 .. Len(Interleaved) :
              Interleaved[k][1] \in instant + 1 .. instant + Block
<1>1. PICK c, n : c = Channels[device] /\ n = Block * c
  OBVIOUS
<1>2. PICK s \in Seq(Samples) :
        /\ s = Interleaved /\ Len(s) = n /\ c \in Nat \ {0} /\ n \in Nat
        /\ \A k \in 1 .. n :
             /\ s[k] = <<instant + 1 + (k - 1) \div c,
                         1 + ((k - 1) % c), device>>
             /\ k - 1 \in Nat
             /\ (k - 1) \div c \in 0 .. Block - 1
  BY <1>1, CallbackTyped
<1>3. instant \in Nat /\ Block \in Nat
  BY SamplesAssumption DEF SamplesTypeOK
<1>4. ASSUME NEW i \in 1 .. n, NEW j \in 1 .. n, i < j
      PROVE  Before(s[i], s[j])
  <2>1. PICK a, b : /\ a = i - 1 /\ b = j - 1 /\ a < b
                    /\ a \in Nat /\ b \in Nat
    <3>1. i - 1 \in Nat /\ j - 1 \in Nat
      BY <1>2
    <3>2. i - 1 < j - 1
      BY <1>4
    <3>3. QED BY <3>1, <3>2
  <2>2. PICK qa, qb, ra, rb :
          /\ qa = a \div c /\ qb = b \div c /\ ra = a % c /\ rb = b % c
          /\ qa \in Nat /\ qb \in Nat /\ ra \in Nat /\ rb \in Nat
    BY <1>2, <2>1, Quotients
  <2>3. qa < qb \/ (qa = qb /\ ra < rb)
    BY <1>2, <2>1, <2>2, DivisionInOrder
  <2>5. /\ s[i] = <<instant + 1 + qa, 1 + ra, device>>
        /\ s[j] = <<instant + 1 + qb, 1 + rb, device>>
    BY <1>2, <2>1, <2>2
  <2>6. \/ instant + 1 + qa < instant + 1 + qb
        \/ instant + 1 + qa = instant + 1 + qb /\ 1 + ra < 1 + rb
    BY <1>3, <2>2, <2>3, SMTT(40)
  <2>7. QED BY <2>5, <2>6 DEF Before
<1>5. /\ DOMAIN Pairs(s) = 1 .. n
      /\ \A k \in 1 .. n : Pairs(s)[k] = <<s[k], s[k]>>
  BY <1>2, PairsTyped
<1>6. ASSUME NEW i \in 1 .. n, NEW j \in 1 .. n, i < j
      PROVE  Before(Pairs(s)[i][2], Pairs(s)[j][1])
  <2>1. Pairs(s)[i][2] = s[i] /\ Pairs(s)[j][1] = s[j]
    BY <1>5
  <2>2. QED BY <1>4, <1>6, <2>1
<1>7. InLine(Pairs(s))
  BY <1>5, <1>6 DEF InLine
<1>8. ASSUME NEW k \in 1 .. n PROVE s[k][1] \in instant + 1 .. instant + Block
  <2>1. PICK q \in 0 .. Block - 1 : q = (k - 1) \div c
    BY <1>2
  <2>2. s[k][1] = instant + 1 + q
    BY <1>2, <2>1
  <2>3. QED BY <1>3, <2>1, <2>2
<1>9. QED BY <1>2, <1>7, <1>8

LEMMA CaptureFlows ==
  ASSUME SamplesTypeOK, SamplesFlow, Capture
  PROVE  SamplesTypeOK' /\ SamplesFlow'
<1>1. PICK w \in Seq(Samples) :
        /\ ring' = ring \o w /\ w \in {Interleaved, <<>>}
  BY CallbackTyped, EmptySeq DEF Capture, Written
<1>2. /\ instant' = instant + Block /\ instant \in Nat /\ Block \in Nat
      /\ UNCHANGED <<device, reader, announced, residue, buffer, last>>
      /\ ring \in Seq(Samples)
  BY SamplesAssumption DEF Capture, workerVars, SamplesTypeOK
<1>3. PICK r \in Seq(Samples) : r = ring \o w
  BY <1>2, ConcatParts
<1>4. SamplesTypeOK'
  BY <1>1, <1>2, <1>3 DEF SamplesTypeOK
<1>5. /\ InLine(Pairs(w))
      /\ \A k \in 1 .. Len(w) : w[k][1] \in instant + 1 .. instant'
  <2>1. CASE w = Interleaved
    BY <1>2, <2>1, CallbackInLine
  <2>2. CASE w = <<>>
    BY <2>2 DEF InLine, Pairs
  <2>3. QED BY <1>1, <2>1, <2>2
<1>6. PICK p, q, l, way :
        /\ p = Pairs(ring) /\ q = Pairs(w) /\ l = SentLast /\ way = Way
        /\ p \in Seq(Monos) /\ q \in Seq(Monos) /\ l \in Seq(Monos)
        /\ way \in Seq(Monos)
  BY WayTyped, PairsTyped
<1>7. Pairs(ring') = p \o q
  BY <1>1, <1>2, <1>6, PairsConcat
<1>8. Way' = way \o q
  <2>1. buffer \in Seq(Monos) /\ residue \in Seq(Monos)
    BY DEF SamplesTypeOK
  <2>2. SentLast' = SentLast
    BY <1>2 DEF SentLast
  <2>3. Way' = l \o (buffer \o (residue \o (p \o q)))
    BY <1>2, <1>6, <1>7, <2>2 DEF Way
  <2>4. way = l \o (buffer \o (residue \o p))
    BY <1>6 DEF Way
  <2>5. PICK b, d : /\ b = buffer /\ d = residue
                    /\ b \in Seq(Monos) /\ d \in Seq(Monos)
    BY <2>1
  <2>6. l \o (b \o (d \o (p \o q))) = (l \o (b \o (d \o p))) \o q
    <3>1. Then(l, Then(b, Then(d, Then(p, q)))) =
            Then(Then(l, Then(b, Then(d, p))), q)
      BY <1>6, <2>5, ThenGroups
    <3>2. QED BY <3>1 DEF Then
  <2>7. QED BY <2>3, <2>4, <2>5, <2>6
<1>9. \A x \in Range(q) : /\ x[1][1] \in instant + 1 .. instant'
                         /\ x[2][1] \in instant + 1 .. instant'
  <2>1. /\ DOMAIN q = 1 .. Len(w)
        /\ \A k \in 1 .. Len(w) : q[k] = <<w[k], w[k]>>
    BY <1>6, PairsTyped
  <2>2. SUFFICES ASSUME NEW x \in Range(q)
                 PROVE  /\ x[1][1] \in instant + 1 .. instant'
                        /\ x[2][1] \in instant + 1 .. instant'
    OBVIOUS
  <2>3. PICK k \in 1 .. Len(w) : x = q[k]
    BY <2>1, <2>2 DEF Range
  <2>4. x[1] = w[k] /\ x[2] = w[k]
    BY <2>1, <2>3
  <2>5. QED BY <1>5, <2>4
<1>10. InLine(way) /\ KnownBy(way, instant)
  BY <1>6 DEF SamplesFlow, Flows
<1>11. \A a \in Range(way) : a[2][1] \in Int /\ a[2][1] <= instant
  <2>1. \A a \in Monos : a[2][1] \in Int
    BY DEF Monos, Samples
  <2>2. Range(way) \subseteq Monos
    BY <1>6 DEF Range
  <2>3. QED BY <1>10, <2>1, <2>2 DEF KnownBy
<1>12. Ahead(way, q)
  <2>1. ASSUME NEW a \in Range(way), NEW x \in Range(q)
        PROVE  a[2][1] < x[1][1]
    BY <1>2, <1>9, <1>11
  <2>2. QED BY <2>1 DEF Ahead, Before
<1>13. KnownBy(way, instant') /\ KnownBy(q, instant')
  BY <1>2, <1>9, <1>11 DEF KnownBy
<1>14. Flows(way, instant') /\ Flows(q, instant')
  BY <1>5, <1>6, <1>10, <1>13 DEF Flows
<1>15. Flows(way \o q, instant')
  BY <1>6, <1>12, <1>14, FlowConcat
<1>16. QED BY <1>4, <1>8, <1>15 DEF SamplesFlow

LEMMA ReaderTyped ==
  ASSUME SamplesTypeOK, ApplyConfigs
  PROVE  reader' \in Inputs
<1>1. reader \in Inputs /\ announced \in Seq(Inputs)
  BY DEF SamplesTypeOK
<1>2. CASE announced = <<>>
  BY <1>1, <1>2 DEF ApplyConfigs
<1>3. CASE announced # <<>>
  <2>1. PICK q \in Seq(Inputs) : q = announced /\ q # <<>>
    BY <1>1, <1>3
  <2>2. q[Len(q)] \in Inputs
    BY <2>1
  <2>3. QED BY <1>3, <2>1, <2>2 DEF ApplyConfigs, Newest
<1>4. QED BY <1>2, <1>3

LEMMA SamplesStep ==
  ASSUME SamplesTypeOK, SamplesFlow,
         [SamplesNext]_sampleVars
  PROVE  SamplesTypeOK' /\ SamplesFlow'
<1>1. CASE UNCHANGED <<instant, ring, residue, buffer, last>>
           /\ device' \in Inputs /\ reader' \in Inputs
           /\ announced' \in Seq(Inputs)
  BY <1>1 DEF SamplesTypeOK, SamplesFlow, Way, SentLast
<1>2. device \in Inputs /\ reader \in Inputs /\ announced \in Seq(Inputs)
  BY DEF SamplesTypeOK
<1>3. CASE Capture
  BY <1>3, CaptureFlows
<1>4. CASE ReadFrame
  BY <1>4, ReadFlows
<1>5. CASE ChangeDevice
  <2>1. device' \in Inputs
    BY <1>5 DEF ChangeDevice
  <2>2. announced' \in Seq(Inputs)
    BY <1>2, <1>5, <2>1, LastAdded DEF ChangeDevice
  <2>3. UNCHANGED <<instant, ring, residue, buffer, last, reader>>
    BY <1>5 DEF ChangeDevice, workerVars
  <2>4. QED BY <1>1, <1>2, <2>1, <2>2, <2>3
<1>6. CASE ApplyConfigs
  <2>1. reader' \in Inputs
    BY <1>6, ReaderTyped
  <2>2. announced' \in Seq(Inputs)
    BY <1>6, EmptySeq DEF ApplyConfigs
  <2>3. UNCHANGED <<instant, ring, residue, buffer, last, device>>
    BY <1>6 DEF ApplyConfigs, workerVars, deviceVars
  <2>4. QED BY <1>1, <1>2, <2>1, <2>2, <2>3
<1>7. CASE Subscribe \/ Idle \/ UNCHANGED sampleVars
  <2>1. UNCHANGED <<instant, ring, residue, buffer, last, device, reader,
                    announced>>
    BY <1>7 DEF Subscribe, Idle, sampleVars, workerVars, deviceVars
  <2>2. QED BY <1>1, <1>2, <2>1
<1>8. QED BY <1>3, <1>4, <1>5, <1>6, <1>7 DEF SamplesNext

\* The line that the module's property speaks of.
LEMMA FlowIsOrder ==
  ASSUME SamplesTypeOK, SamplesFlow
  PROVE  SamplesInOrder
<1>1. PICK l \in Seq(Monos), b \in Seq(Monos), r \in Seq(Monos),
           p \in Seq(Monos) :
        l = SentLast /\ b = buffer /\ r = residue /\ p = Pairs(ring)
  BY WayTyped DEF SamplesTypeOK
<1>2. PICK rest \in Seq(Monos) : rest = b \o (r \o p)
  <2>1. PICK rp \in Seq(Monos) : rp = r \o p
    BY ConcatParts
  <2>2. QED BY <2>1, ConcatParts
<1>3. rest = InFlight
  <2>1. b \o (r \o p) = (b \o r) \o p
    BY RegroupedMonos, SMTT(30)
  <2>2. QED BY <1>1, <1>2, <2>1 DEF InFlight, Pairs
<1>4. Flows(l \o rest, instant)
  BY <1>1, <1>2 DEF SamplesFlow, Way
<1>5. InLine(rest) /\ Ahead(l, rest)
  BY <1>4, FlowConcat DEF Flows
<1>6. ASSUME last # <<>>, NEW i \in DOMAIN rest
      PROVE  Before(last[2], rest[i][1])
  <2>1. Range(l) = {last}
    BY <1>1, <1>6, RangeOfOne DEF SentLast
  <2>2. rest[i] \in Range(rest)
    BY DEF Range
  <2>3. QED BY <1>5, <2>1, <2>2 DEF Ahead
<1>7. QED BY <1>3, <1>5, <1>6 DEF SamplesInOrder, InLine

LEMMA FlowInit ==
  ASSUME SamplesInit
  PROVE  SamplesTypeOK /\ SamplesFlow
<1>1. /\ SentLast = <<>> /\ buffer = <<>> /\ residue = <<>>
      /\ Pairs(ring) = <<>>
  BY PairsTyped, EmptySeq DEF SamplesInit, SentLast, Pairs
<1>2. PICK none \in Seq(Monos) : none = <<>>
  BY EmptySeq
<1>3. none \o none = none
  BY <1>2, ConcatEmptySeq
<1>4. Way = none
  BY <1>1, <1>2, <1>3 DEF Way
<1>5. InLine(none) /\ KnownBy(none, instant)
  BY <1>2, RangeOfNone DEF InLine, KnownBy
<1>6. SamplesTypeOK
  BY EmptySeq DEF SamplesInit, SamplesTypeOK
<1>7. QED BY <1>4, <1>5, <1>6 DEF SamplesFlow, Flows

LEMMA SamplesKept == SamplesSpec => [](SamplesTypeOK /\ SamplesFlow)
<1>1. SamplesInit => SamplesTypeOK /\ SamplesFlow
  BY FlowInit
<1>2. /\ SamplesTypeOK /\ SamplesFlow /\ [SamplesNext]_sampleVars
      => (SamplesTypeOK /\ SamplesFlow)'
  BY SamplesStep
<1>3. QED BY <1>1, <1>2, PTL DEF SamplesSpec

(***************************************************************************)
(* Whole instants.  As long as the reader has the device of the samples,   *)
(* the ring begins with the first channel of an instant: callbacks are     *)
(* whole, and so are the reads that leave something behind, as long as     *)
(* none has ended within an instant.                                       *)
(***************************************************************************)
Whole(s, dev, c) ==
    /\ Len(s) % c = 0
    /\ \A k \in 1 .. Len(s) : s[k][2] = 1 + ((k - 1) % c) /\ s[k][3] = dev
    /\ \A k, l \in 1 .. Len(s) :
           (k - 1) \div c = (l - 1) \div c => s[k][1] = s[l][1]
RingWhole ==
    settled = "yes" => Whole(ring, reader, Channels[reader])

LEMMA Multiple ==
  ASSUME NEW a \in Nat, NEW b \in Nat, NEW c \in Nat \ {0}, a % c = 0
  PROVE  (a + b) % c = b % c /\ (a + b) \div c = a \div c + b \div c
  OBVIOUS

LEMMA WholeProduct ==
  ASSUME NEW a \in Nat, NEW c \in Nat \ {0}
  PROVE  (a * c) % c = 0
  OBVIOUS

\* Whole instants joined to whole instants of the same device.
LEMMA WholeConcat ==
  ASSUME NEW s \in Seq(Samples), NEW t \in Seq(Samples), NEW dev,
         NEW c \in Nat \ {0}, Whole(s, dev, c), Whole(t, dev, c)
  PROVE  Whole(s \o t, dev, c)
<1> DEFINE st == s \o t
           m == Len(s)
           n == Len(t)
<1>1. /\ m \in Nat /\ n \in Nat /\ st \in Seq(Samples) /\ Len(st) = m + n
      /\ \A i \in 1 .. m : st[i] = s[i]
      /\ \A i \in 1 .. n : st[m + i] = t[i]
  BY ConcatParts
<1> HIDE DEF st, m, n
<1>2. m = Len(s) /\ n = Len(t)
  BY DEF m, n
<1>3. m % c = 0 /\ n % c = 0
  BY <1>2 DEF Whole
<1>4. \A b \in Nat : /\ (m + b) % c = b % c
                     /\ (m + b) \div c = m \div c + b \div c
  BY <1>1, <1>3, Multiple
<1>5. (m + n) % c = 0
  BY <1>1, <1>3, <1>4
<1>6. ASSUME NEW k \in 1 .. m + n
      PROVE  \/ k \in 1 .. m /\ st[k] = s[k]
             \/ \E i \in 1 .. n :
                  /\ st[k] = t[i] /\ i - 1 \in Nat
                  /\ (k - 1) % c = (i - 1) % c
                  /\ (k - 1) \div c = m \div c + (i - 1) \div c
  <2>1. CASE k \in 1 .. m
    BY <1>1, <2>1
  <2>2. CASE k \notin 1 .. m
    <3>1. PICK i \in 1 .. n : k = m + i
      <4>1. k - m \in 1 .. n /\ k = m + (k - m)
        BY <1>1, <2>2
      <4>2. QED BY <4>1
    <3>2. i - 1 \in Nat /\ k - 1 = m + (i - 1)
      BY <1>1, <3>1
    <3>3. /\ (m + (i - 1)) % c = (i - 1) % c
          /\ (m + (i - 1)) \div c = m \div c + (i - 1) \div c
      BY <1>1, <1>4, <3>2
    <3>4. st[k] = t[i]
      BY <1>1, <3>1
    <3>5. QED BY <3>2, <3>3, <3>4
  <2>3. QED BY <2>1, <2>2
<1>7. ASSUME NEW k \in 1 .. m, NEW i \in 1 .. n
      PROVE  (k - 1) \div c # m \div c + (i - 1) \div c
  <2>1. PICK q \in Nat : m = q * c /\ q = m \div c
    <3>1. /\ m \div c \in Nat /\ m % c = 0
          /\ m = (m \div c) * c + (m % c)
      BY <1>1, <1>3, Divided
    <3>2. QED BY <3>1
  <2>2. (k - 1) \div c < q
    <3>1. PICK a \in Nat : a = k - 1 /\ a < q * c
      BY <1>1, <2>1
    <3>2. QED BY <3>1, BelowProduct
  <2>3. i - 1 \in Nat
    OBVIOUS
  <2>4. PICK d \in Nat : d = (i - 1) \div c
    BY <2>3, Quotients
  <2>5. PICK e \in Nat : e = (k - 1) \div c
    <3>1. k - 1 \in Nat
      OBVIOUS
    <3>2. QED BY <3>1, Quotients
  <2>6. QED BY <2>1, <2>2, <2>4, <2>5
<1>8. \A k \in 1 .. m + n : st[k][2] = 1 + ((k - 1) % c) /\ st[k][3] = dev
  <2>1. SUFFICES ASSUME NEW k \in 1 .. m + n
                 PROVE  st[k][2] = 1 + ((k - 1) % c) /\ st[k][3] = dev
    OBVIOUS
  <2>2. CASE k \in 1 .. m /\ st[k] = s[k]
    BY <1>2, <2>2 DEF Whole
  <2>3. ASSUME NEW i \in 1 .. n,
               st[k] = t[i], (k - 1) % c = (i - 1) % c
        PROVE  st[k][2] = 1 + ((k - 1) % c) /\ st[k][3] = dev
    BY <1>2, <2>3 DEF Whole
  <2>4. QED BY <1>6, <2>2, <2>3
<1>9. ASSUME NEW k \in 1 .. m + n, NEW l \in 1 .. m + n,
             (k - 1) \div c = (l - 1) \div c
      PROVE  st[k][1] = st[l][1]
  <2>1. CASE k \in 1 .. m /\ st[k] = s[k]
    <3>1. CASE l \in 1 .. m /\ st[l] = s[l]
      BY <1>2, <1>9, <2>1, <3>1 DEF Whole
    <3>2. ASSUME NEW i \in 1 .. n,
                 (l - 1) \div c = m \div c + (i - 1) \div c
          PROVE  FALSE
      BY <1>7, <1>9, <2>1, <3>2
    <3>3. QED BY <1>6, <3>1, <3>2
  <2>2. ASSUME NEW i \in 1 .. n, st[k] = t[i], i - 1 \in Nat,
               (k - 1) \div c = m \div c + (i - 1) \div c
        PROVE  st[k][1] = st[l][1]
    <3>1. CASE l \in 1 .. m
      BY <1>7, <1>9, <2>2, <3>1
    <3>2. ASSUME NEW j \in 1 .. n, st[l] = t[j], j - 1 \in Nat,
                 (l - 1) \div c = m \div c + (j - 1) \div c
          PROVE  st[k][1] = st[l][1]
      <4>1. PICK p \in Nat, q \in Nat, r \in Nat :
              p = m \div c /\ q = (i - 1) \div c /\ r = (j - 1) \div c
        BY <1>1, <2>2, <3>2, Quotients
      <4>2. (i - 1) \div c = (j - 1) \div c
        <5>1. p + q = p + r
          BY <1>9, <2>2, <3>2, <4>1
        <5>2. q = r
          BY <5>1
        <5>3. QED BY <4>1, <5>2
      <4>3. QED BY <1>2, <2>2, <3>2, <4>2 DEF Whole
    <3>3. QED BY <1>6, <3>1, <3>2
  <2>3. QED BY <1>6, <2>1, <2>2
<1>10. Len(st) = m + n
  BY <1>1
<1>11. Whole(st, dev, c)
  BY <1>5, <1>8, <1>9, <1>10 DEF Whole
<1>12. QED BY <1>11 DEF st

LEMMA WholeNone ==
  ASSUME NEW dev, NEW c \in Nat \ {0}
  PROVE  Whole(<<>>, dev, c)
<1>1. 0 % c = 0
  OBVIOUS
<1>2. Len(<<>>) = 0 /\ 1 .. 0 = {}
  OBVIOUS
<1>3. QED BY <1>1, <1>2 DEF Whole

\* What is left when whole instants are taken.
LEMMA WholeRest ==
  ASSUME NEW s \in Seq(Samples), NEW dev, NEW c \in Nat \ {0},
         Whole(s, dev, c), NEW m \in 0 .. Len(s), m % c = 0
  PROVE  Whole(SubSeq(s, m + 1, Len(s)), dev, c)
<1> DEFINE t == SubSeq(s, m + 1, Len(s))
           n == Len(s) - m
<1>1. /\ m \in Nat /\ n \in Nat /\ Len(s) = m + n
  OBVIOUS
<1>2. Len(t) = n /\ \A i \in 1 .. n : t[i] = s[m + i]
  OBVIOUS
<1>3. \A i \in 1 .. n : m + i \in 1 .. Len(s)
  OBVIOUS
<1> HIDE DEF t, n
<1>4. \A b \in Nat : /\ (m + b) % c = b % c
                     /\ (m + b) \div c = m \div c + b \div c
  BY <1>1, Multiple, ZenonT(30)
<1>5. n % c = 0
  <2>1. (m + n) % c = 0
    BY <1>1 DEF Whole
  <2>2. QED BY <1>1, <1>4, <2>1
<1>6. ASSUME NEW i \in 1 .. n
      PROVE  /\ ((m + i) - 1) % c = (i - 1) % c
             /\ ((m + i) - 1) \div c = m \div c + (i - 1) \div c
  <2>1. i - 1 \in Nat /\ (m + i) - 1 = m + (i - 1)
    BY <1>1
  <2>2. QED BY <1>4, <2>1
<1>7. \A i \in 1 .. n : t[i][2] = 1 + ((i - 1) % c) /\ t[i][3] = dev
  <2>1. ASSUME NEW i \in 1 .. n
        PROVE  t[i][2] = 1 + ((i - 1) % c) /\ t[i][3] = dev
    <3>1. PICK k : k = m + i /\ k \in 1 .. Len(s) /\ t[i] = s[k]
                   /\ (k - 1) % c = (i - 1) % c
      BY <1>2, <1>3, <1>6
    <3>2. s[k][2] = 1 + ((k - 1) % c) /\ s[k][3] = dev
      BY <3>1 DEF Whole
    <3>3. QED BY <3>1, <3>2
  <2>2. QED BY <2>1
<1>8. ASSUME NEW i \in 1 .. n, NEW j \in 1 .. n,
             (i - 1) \div c = (j - 1) \div c
      PROVE  t[i][1] = t[j][1]
  <2>1. ((m + i) - 1) \div c = ((m + j) - 1) \div c
    BY <1>6, <1>8
  <2>2. s[m + i][1] = s[m + j][1]
    BY <1>3, <2>1 DEF Whole
  <2>3. QED BY <1>2, <2>2
<1>9. Whole(t, dev, c)
  BY <1>2, <1>5, <1>7, <1>8 DEF Whole
<1>10. QED BY <1>9 DEF t

LEMMA CallbackWhole ==
  ASSUME SamplesTypeOK
  PROVE  Whole(Interleaved, device, Channels[device])
<1>1. PICK c, n : c = Channels[device] /\ n = Block * c
  OBVIOUS
<1>2. PICK s :
        /\ s = Interleaved /\ Len(s) = n /\ c \in Nat \ {0} /\ n \in Nat
        /\ \A k \in 1 .. n : s[k] = <<instant + 1 + (k - 1) \div c,
                                      1 + ((k - 1) % c), device>>
  BY <1>1, CallbackTyped
<1>3. n % c = 0
  <2>1. Block \in Nat
    BY SamplesAssumption
  <2>2. QED BY <1>1, <1>2, <2>1, WholeProduct
<1>4. \A k \in 1 .. n : /\ s[k][1] = instant + 1 + (k - 1) \div c
                        /\ s[k][2] = 1 + ((k - 1) % c)
                        /\ s[k][3] = device
  BY <1>2
<1>5. QED BY <1>1, <1>2, <1>3, <1>4 DEF Whole

LEMMA RingStaysWhole ==
  ASSUME SamplesTypeOK, RingWhole, [SamplesNext]_sampleVars
  PROVE  RingWhole'
<1>1. \A i \in Inputs : Channels[i] \in Nat \ {0}
  BY SamplesAssumption
<1>2. device \in Inputs /\ reader \in Inputs /\ ring \in Seq(Samples)
  BY DEF SamplesTypeOK
<1>3. CASE Capture
  <2>1. SUFFICES ASSUME settled' = "yes"
                 PROVE  Whole(ring', reader, Channels[reader])
    BY <1>3 DEF RingWhole, Capture
  <2>2. settled = "yes" /\ reader = device
    BY <1>3, <2>1 DEF Capture
  <2>3. PICK w \in Seq(Samples) :
          ring' = ring \o w /\ w \in {Interleaved, <<>>}
    BY <1>3, CallbackTyped, EmptySeq DEF Capture, Written
  <2>4. PICK c \in Nat \ {0} : c = Channels[reader]
    BY <1>1, <1>2
  <2>5. Whole(w, reader, c)
    <3>1. Whole(Interleaved, reader, c)
      BY <2>2, <2>4, CallbackWhole
    <3>2. Whole(<<>>, reader, c)
      BY WholeNone
    <3>3. QED BY <2>3, <3>1, <3>2
  <2>6. Whole(ring, reader, c)
    BY <2>2, <2>4 DEF RingWhole
  <2>7. Whole(ring \o w, reader, c)
    BY <1>2, <2>5, <2>6, WholeConcat
  <2>8. QED BY <2>2, <2>3, <2>4, <2>7
<1>4. CASE ReadFrame
  <2>1. /\ ring' = Unread /\ reader' = reader /\ ring # <<>>
        /\ settled' = IF Unread = <<>> THEN "yes"
                      ELSE IF Len(Batch) % Channels[reader] = 0 THEN settled
                      ELSE "no"
    BY <1>4 DEF ReadFrame
  <2>2. PICK c \in Nat \ {0} : c = Channels[reader]
    BY <1>1, <1>2
  <2>3. CASE Unread = <<>>
    BY <2>1, <2>2, <2>3, WholeNone DEF RingWhole
  <2>4. CASE Unread # <<>> /\ settled = "yes" /\ Len(Batch) % c = 0
    <3>1. Whole(ring, reader, c)
      BY <2>2, <2>4 DEF RingWhole
    <3>2. PICK l, n : /\ n = Len(ring) /\ n \in Nat /\ l \in 0 .. n
                      /\ l = Len(Batch)
                      /\ Unread = SubSeq(ring, l + 1, n)
      <4>1. PICK n \in Nat : n = Len(ring)
        BY <1>2
      <4>2. PICK l \in 0 .. n : l = IF n < ReadMax THEN n ELSE ReadMax
        BY SamplesAssumption
      <4>3. PICK q : q \in Seq(Samples) /\ q = ring
        BY <1>2
      <4>4. l \in 0 .. Len(q)
        BY <4>1, <4>2, <4>3
      <4>5. Len(SubSeq(q, 1, l)) = l
        BY <4>3, <4>4, SamplesCut
      <4>6. Batch = SubSeq(q, 1, l)
        BY <4>1, <4>2, <4>3 DEF Batch
      <4>7. QED BY <4>1, <4>2, <4>3, <4>5, <4>6 DEF Unread
    <3>3. Whole(SubSeq(ring, l + 1, Len(ring)), reader, c)
      BY <1>2, <2>4, <3>1, <3>2, WholeRest
    <3>4. QED BY <2>1, <2>2, <3>2, <3>3 DEF RingWhole
  <2>5. CASE Unread # <<>> /\ ~(settled = "yes" /\ Len(Batch) % c = 0)
    BY <2>1, <2>2, <2>5 DEF RingWhole
  <2>6. QED BY <2>3, <2>4, <2>5
<1>5. CASE ApplyConfigs
  <2>1. /\ ring' = ring /\ reader' \in Inputs
        /\ settled' = IF reader' = reader \/ ring = <<>>
                      THEN settled ELSE "no"
    <3>1. reader' \in Inputs
      BY <1>5, ReaderTyped
    <3>2. QED BY <1>5, <3>1 DEF ApplyConfigs
  <2>2. CASE reader' = reader
    BY <2>1, <2>2 DEF RingWhole
  <2>3. CASE ring = <<>>
    <3>1. Whole(<<>>, reader', Channels[reader'])
      BY <1>1, <2>1, WholeNone
    <3>2. QED BY <2>1, <2>3, <3>1 DEF RingWhole
  <2>4. CASE reader' # reader /\ ring # <<>>
    BY <2>1, <2>4 DEF RingWhole
  <2>5. QED BY <2>2, <2>3, <2>4
<1>6. CASE ChangeDevice \/ Subscribe \/ Idle \/ UNCHANGED sampleVars
  BY <1>6 DEF ChangeDevice, Subscribe, Idle, sampleVars, RingWhole
<1>7. QED BY <1>3, <1>4, <1>5, <1>6 DEF SamplesNext

LEMMA WholeGroups ==
  ASSUME NEW m \in Nat \ {0}, NEW c \in Nat \ {0}
  PROVE  (((m - 1) * c + 1) - 1) \div c = (m * c - 1) \div c
  OBVIOUS

LEMMA WholeIsInstants ==
  ASSUME SamplesTypeOK, RingWhole
  PROVE  WholeInstants
<1>1. PICK c \in Nat \ {0} : c = Channels[reader]
  BY SamplesAssumption DEF SamplesTypeOK
<1>2. PICK n \in Nat : n = Len(ring) /\ DOMAIN ring = 1 .. n
  BY DEF SamplesTypeOK
<1>3. SUFFICES ASSUME settled = "yes"
               PROVE  /\ n % c = 0
                      /\ \A k \in 1 .. n : /\ ring[k][2] = 1 + ((k - 1) % c)
                                           /\ ring[k][3] = reader
                      /\ \A m \in 1 .. Len(MixDown(ring, c)) :
                           LET mono == MixDown(ring, c)[m]
                           IN  mono[1][1] = mono[2][1]
  BY <1>1, <1>2 DEF WholeInstants
<1>4. Whole(ring, reader, c)
  BY <1>1, <1>3 DEF RingWhole
<1>5. PICK g \in Nat : g = n \div c
  BY Quotients
<1>6. MixDown(ring, c) = [j \in 1 .. g |-> <<ring[(j - 1) * c + 1],
                                             ring[j * c]>>]
  BY <1>2, <1>5 DEF MixDown
<1>7. Len(MixDown(ring, c)) = g
  BY <1>6
<1>8. ASSUME NEW m \in 1 .. g
      PROVE  ring[(m - 1) * c + 1][1] = ring[m * c][1]
  <2>1. (m - 1) * c + 1 \in 1 .. n /\ m * c \in 1 .. n
    BY <1>5, Groups
  <2>2. (((m - 1) * c + 1) - 1) \div c = (m * c - 1) \div c
    BY WholeGroups
  <2>3. \A k, l \in 1 .. n :
          (k - 1) \div c = (l - 1) \div c => ring[k][1] = ring[l][1]
    BY <1>2, <1>4 DEF Whole
  <2>4. QED BY <2>1, <2>2, <2>3
<1>9. n % c = 0 /\ \A k \in 1 .. n : /\ ring[k][2] = 1 + ((k - 1) % c)
                                    /\ ring[k][3] = reader
  BY <1>2, <1>4 DEF Whole
<1>10. ASSUME NEW m \in 1 .. Len(MixDown(ring, c))
       PROVE  MixDown(ring, c)[m][1][1] = MixDown(ring, c)[m][2][1]
  <2>1. m \in 1 .. g
    BY <1>7
  <2>2. PICK x, y : x = ring[(m - 1) * c + 1] /\ y = ring[m * c]
    OBVIOUS
  <2>3. MixDown(ring, c)[m] = <<x, y>>
    BY <1>6, <2>1, <2>2
  <2>4. x[1] = y[1]
    BY <1>8, <2>1, <2>2
  <2>5. QED BY <2>3, <2>4
<1>11. QED BY <1>9, <1>10

\* No sample is used twice and none overtakes another between the callback
\* and the frames.  A mono sample is made of all the channels of one instant,
\* for any number of channels and any size of a read, but while the ring has
\* not been empty since it got samples of a device the reader does not believe
\* in, or since a read ended within an instant (ring_buffer.rs write,
\* chunker.rs process_frame, frame_reader.rs read_frame).
THEOREM SamplesReadRight == SamplesSpec => []SamplesAreRead
<1>1. SamplesInit => RingWhole
  <2>1. SUFFICES ASSUME SamplesInit
                 PROVE  Whole(<<>>, reader, Channels[reader])
    BY DEF SamplesInit, RingWhole
  <2>2. Channels[reader] \in Nat \ {0}
    <3>1. reader \in Inputs
      BY <2>1, FlowInit DEF SamplesTypeOK
    <3>2. QED BY <3>1, SamplesAssumption
  <2>3. QED BY <2>2, WholeNone
<1>2. /\ SamplesTypeOK /\ RingWhole /\ [SamplesNext]_sampleVars
      => RingWhole'
  BY RingStaysWhole
<1>3. SamplesTypeOK /\ SamplesFlow /\ RingWhole => SamplesAreRead
  BY FlowIsOrder, WholeIsInstants DEF SamplesAreRead
<1>4. QED BY <1>1, <1>2, <1>3, SamplesKept, PTL DEF SamplesSpec

-----------------------------------------------------------------------------
(***************************************************************************)
(* Activation.  The task that sent the last SpeechStart owes its SpeechEnd *)
(* or is gone; only one of the triggers has anything under way.            *)
(***************************************************************************)
TriggersApart ==
    /\ mode \in {"Vad", "Hotkey"} /\ speech \in {"Silence", "Speech"}
    /\ pressed \in {"yes", "no"}
    /\ sending \in {"none", "SpeechStart", "SpeechEnd"}
    /\ queued \in Nat
    /\ mode = "Vad" => listener = "off"
    /\ mode = "Hotkey" => vad = "off" /\ speech = "Silence"
    /\ listener # "listening" => pressed = "no"

SessionOwed ==
    /\ sending = "SpeechStart" => speech = "Speech" \/ pressed = "yes"
    /\ sending = "SpeechEnd" => speech = "Silence" /\ pressed = "no"
    /\ owing = "yes" <=>
         \/ /\ speech = "Speech" \/ pressed = "yes"
            /\ sending # "SpeechStart" /\ vad # "ended"
         \/ sending = "SpeechEnd"
    /\ owing \in {"yes", "no"}
    /\ owing = "yes" => sent = "SpeechStart"
    /\ sent = "SpeechStart" => owing = "yes" \/ orphan = "yes"

SenderRuns == sending # "none" => vad = "running" \/ listener = "listening"

ActivationInv == TriggersApart /\ SessionOwed /\ SenderRuns

LEMMA ActivationStep ==
  ASSUME ActivationInv, [ActivationNext]_activationVars
  PROVE  ActivationInv'
<1> USE DEF ActivationInv, TriggersApart, SessionOwed, SenderRuns, SessionLost,
            vadVars, hotkeyVars, channelVars, userVars
<1>1. CASE Speak \/ TickClock \/ FanOut \/ Broadcast
  BY <1>1 DEF Speak, TickClock, FanOut, Broadcast
<1>2. CASE Sent
  BY <1>2 DEF Sent
<1>3. CASE Overtaken
  BY <1>3 DEF Overtaken, Receiving
<1>4. CASE ProcessFrame
  BY <1>4 DEF ProcessFrame, Receiving, WhileSilent, WhileSpeaking
<1>5. CASE Press \/ Release
  BY <1>5 DEF Press, Release
<1>6. CASE DetectBackend \/ InitializeBackend \/ RegisterShortcut
           \/ ConnectFails \/ Reconnect
  BY <1>6 DEF DetectBackend, InitializeBackend, RegisterShortcut,
              ConnectFails, Reconnect, Proceed
<1>7. CASE Connect \/ Disconnect
  BY <1>7 DEF Connect, Disconnect, FreshListener
<1>8. CASE TakePress \/ TakeRelease
  BY <1>8 DEF TakePress, TakeRelease, FirstPress
<1>9. CASE SwitchMode
  BY <1>9 DEF SwitchMode, FreshListener, FreshVad
<1>10. CASE UNCHANGED activationVars
  BY <1>10 DEF activationVars
<1>11. QED BY <1>1, <1>2, <1>3, <1>4, <1>5, <1>6, <1>7, <1>8, <1>9, <1>10
              DEF ActivationNext

LEMMA ActivationKept == ActivationSpec => []ActivationInv
<1>1. ASSUME ActivationInit PROVE ActivationInv
  BY <1>1
  DEF ActivationInit, ActivationInv, TriggersApart, SessionOwed, SenderRuns
<1>2. QED BY <1>1, ActivationStep, PTL DEF ActivationSpec

\* Only the sending of an event adds one to the channel.
LEMMA OnlySentAdds ==
  ASSUME TriggersApart, ActivationNext, queued' = queued + 1
  PROVE  Sent
<1>1. queued' # queued /\ queued' # queued - 1
  BY DEF TriggersApart
<1>2. QED BY <1>1
  DEF ActivationNext, Speak, TickClock, FanOut, Broadcast, Overtaken,
      ProcessFrame, Press, Release, DetectBackend, InitializeBackend,
      RegisterShortcut, Connect, ConnectFails, Disconnect, Reconnect, Proceed,
      TakePress, TakeRelease, SwitchMode, channelVars

\* Starts and ends alternate in the channel, whichever task sends them; the
\* only start that may follow a start is that of a new trigger when the task
\* that owed the end is gone.
THEOREM SessionsAlternate == ActivationSpec => Alternate
<1> DEFINE A == queued' = queued + 1 /\ sending = sent
                  => sending = "SpeechStart" /\ orphan = "yes"
<1>1. ASSUME ActivationInv, [ActivationNext]_activationVars
      PROVE  [A]_activationVars
  <2>1. ASSUME ActivationNext, queued' = queued + 1, sending = sent
        PROVE  sending = "SpeechStart" /\ orphan = "yes"
    <3>1. sending # "none"
      BY <1>1, <2>1, OnlySentAdds DEF ActivationInv, Sent
    <3>2. sending = "SpeechStart"
      BY <1>1, <2>1, <3>1
         DEF ActivationInv, TriggersApart, SessionOwed
    <3>3. QED BY <1>1, <2>1, <3>2 DEF ActivationInv, SessionOwed
  <2>2. QED BY <1>1, <2>1
<1>2. QED BY <1>1, ActivationKept, PTL DEF ActivationSpec, Alternate

(***************************************************************************)
(* Refinement.  A task that has an event to send is not dead, so the       *)
(* sending of an event is a step of a quiet trigger or of one in speech.   *)
(***************************************************************************)
LEMMA TriggerStep ==
  ASSUME ActivationInv, [ActivationNext]_activationVars
  PROVE  [Trigger!Next]_<<Sender, queued>>
<1> USE DEF ActivationInv, TriggersApart, SessionOwed, SenderRuns,
            SessionLost, Sender, vadVars, hotkeyVars, channelVars, userVars,
            Trigger!Next
<1>1. CASE Sent /\ sending = "SpeechStart"
  BY <1>1 DEF Sent, Trigger!SpeechStart
<1>2. CASE Sent /\ sending = "SpeechEnd"
  BY <1>2 DEF Sent, Trigger!SpeechEnd
<1>3. CASE FanOut
  BY <1>3 DEF FanOut, Trigger!Taken
<1>4. CASE Speak \/ TickClock \/ Broadcast \/ Press \/ Release
  BY <1>4 DEF Speak, TickClock, Broadcast, Press, Release
<1>5. CASE ProcessFrame
  BY <1>5 DEF ProcessFrame, Receiving, WhileSilent, WhileSpeaking
<1>6. CASE TakePress \/ TakeRelease
  BY <1>6 DEF TakePress, TakeRelease, FirstPress
<1>7. CASE Overtaken
  BY <1>7 DEF Overtaken, Receiving, Trigger!Lost
<1>8. CASE DetectBackend \/ InitializeBackend \/ RegisterShortcut
           \/ ConnectFails \/ Reconnect
  BY <1>8 DEF DetectBackend, InitializeBackend, RegisterShortcut,
              ConnectFails, Reconnect, Proceed, Trigger!Lost
<1>9. CASE Connect \/ Disconnect
  BY <1>9 DEF Connect, Disconnect, FreshListener, Trigger!Lost
<1>10. CASE SwitchMode
  BY <1>10 DEF SwitchMode, FreshListener, FreshVad, Trigger!Lost
<1>11. CASE UNCHANGED activationVars
  BY <1>11 DEF activationVars
<1>12. QED BY <1>1, <1>2, <1>3, <1>4, <1>5, <1>6, <1>7, <1>8, <1>9, <1>10,
              <1>11 DEF ActivationNext, Sent

\* VAD and hotkey, with their backlogs, aborted sends, lost connections and
\* replacements, are the trigger SessionTrigger describes.
THEOREM TriggerImplemented == ActivationSpec => ImplementsTrigger
<1>1. ASSUME ActivationInit PROVE Trigger!Init
  BY <1>1
  DEF ActivationInit, Trigger!Init, Sender
<1>2. QED
  BY <1>1, ActivationKept, TriggerStep, PTL
  DEF ActivationSpec, ImplementsTrigger, Trigger!Spec

-----------------------------------------------------------------------------
(***************************************************************************)
(* DeviceMonitor.  A device is counted missing only below the threshold.   *)
(***************************************************************************)
USE MonitorAssumption, DeviceAssumption
    DEF MonitorAssumption, DeviceAssumption

LEMMA TypeInit == ASSUME Init PROVE TypeOK
BY DEF Init, TypeOK, DeviceInit, DeviceTypeOK

LEMMA TypeStep == ASSUME TypeOK, [Next]_vars PROVE TypeOK'
<1> USE DEF TypeOK, DeviceTypeOK, cacheVars, scanVars, eventVars
<1>1. ASSUME NEW d \in Devices, Plug(d) \/ Unplug(d) \/ SetCurrentDevice(d)
      PROVE  TypeOK'
  BY <1>1 DEF Plug, Unplug, Plugged, Unplugged, SetCurrentDevice
<1>2. CASE StartMonitoring
  BY <1>2 DEF StartMonitoring
<1>3. CASE Scan
  <2> USE <1>3 DEF Scan
  <2>1. missing' \in [Devices -> 0 .. Threshold - 1]
    <3>1. ASSUME NEW d \in Gone, d \notin OverThreshold
          PROVE  missing[d] + 1 \in 0 .. Threshold - 1
      BY <3>1 DEF OverThreshold, Gone
    <3>2. QED BY <3>1
  <2>2. absent' \in [Devices -> 0 .. Threshold]
    OBVIOUS
  <2>3. Listed \subseteq Devices /\ cacheAge' \in 0 .. CacheTtl
    BY DEF Listed, Fresh, EnumerateDevices
  <2>4. QED
    BY <2>1, <2>2, <2>3 DEF OverThreshold, Gone, Added, EnumerateDevices
<1>4. CASE ListAges
  BY <1>4 DEF ListAges, ListOlder, Fresh
<1>5. CASE UNCHANGED vars
  BY <1>5 DEF vars
<1>6. QED
  BY <1>1, <1>2, <1>3, <1>4, <1>5 DEF Next

\* Every count stays below the threshold.
THEOREM TypeCorrect == Spec => []TypeOK
<1>1. QED
  BY TypeInit, TypeStep, PTL DEF Spec

(***************************************************************************)
(* FollowersKnowSeen is inductive: a scan lists what it reports added or   *)
(* had listed before, and begins to count only what it had listed.         *)
(***************************************************************************)
LEMMA FollowersStep ==
    ASSUME TypeOK, FollowersKnowSeen, [Next]_vars
    PROVE  FollowersKnowSeen'
<1> USE DEF TypeOK, DeviceTypeOK, FollowersKnowSeen, scanVars, eventVars
<1>1. CASE Scan
  <2> USE <1>1 DEF Scan, Gone, OverThreshold, Added, Reappeared, Listed
  <2>1. seen' \subseteq known'
    OBVIOUS
  <2>2. ASSUME NEW d \in Devices, missing'[d] > 0
        PROVE  d \in known'
    <3>1. d \notin OverThreshold
      BY <2>2
    <3>2. d \in Gone \/ missing[d] > 0
      BY <2>2
    <3>3. QED BY <3>1, <3>2
  <2>3. QED BY <2>1, <2>2
<1>2. CASE UNCHANGED <<seen, missing, eventVars>>
  BY <1>2
<1>3. QED
  BY <1>1, <1>2
  DEF Next, vars, Plug, Unplug, SetCurrentDevice, StartMonitoring, ListAges

\* The events tell one who follows them of every device a scan has listed.
THEOREM EventsComplete == Spec => []FollowersKnowSeen
<1>1. ASSUME Init PROVE FollowersKnowSeen
  BY <1>1 DEF Init, FollowersKnowSeen
<1>2. QED
  BY <1>1, TypeCorrect, FollowersStep, PTL DEF Spec
=============================================================================
