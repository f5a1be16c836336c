---------------------- MODULE LiveTranscriptionProofs ----------------------
(***************************************************************************)
(* What LiveTranscription promises of speech and of committed text, for    *)
(* every alphabet, every length of chunks and windows and any input.       *)
(***************************************************************************)
EXTENDS LiveTranscription, SequenceTheorems, WellFoundedInduction, TLAPS

-----------------------------------------------------------------------------
(* Induction, over sets: the provers instantiate no operators.             *)

\* A set of numbers has a least one.
LEMMA LeastNumber ==
  ASSUME NEW S \in SUBSET Nat, S # {}
  PROVE  \E m \in S : \A r \in S : m <= r
<1> DEFINE R == {ss \in Nat \X Nat : ss[1] < ss[2]}
<1>1. IsWellFoundedOn(R, Nat)
  BY NatLessThanWellFounded DEF OpToRel
<1> HIDE DEF R
<1>2. PICK m \in S : \A r \in S : ~(<<r, m>> \in R)
  BY <1>1, WFMin
<1>3. ASSUME NEW r \in S, r < m PROVE FALSE
  <2>1. <<r, m>> \in R
    BY <1>3 DEF R
  <2>2. QED
    BY <1>2, <2>1
<1>4. QED
  BY <1>3

\* A set of numbers with 0 and the successor of each is Nat.
LEMMA NumberInduction ==
  ASSUME NEW S \in SUBSET Nat, 0 \in S, \A n \in S : n + 1 \in S
  PROVE  S = Nat
<1> SUFFICES ASSUME Nat \ S # {} PROVE FALSE
  OBVIOUS
<1>1. PICK m \in Nat \ S : \A r \in Nat \ S : m <= r
  BY LeastNumber
<1>2. m - 1 \in Nat /\ ~(m <= m - 1) /\ (m - 1) + 1 = m
  OBVIOUS
<1>3. m - 1 \in S
  BY <1>1, <1>2
<1>4. QED
  BY <1>2, <1>3

\* A set of sequences with the empty one and every extension of each has all.
LEMMA SequenceInduction ==
  ASSUME NEW T, NEW S \in SUBSET Seq(T), << >> \in S,
         \A s \in S, e \in T : Append(s, e) \in S
  PROVE  S = Seq(T)
<1> DEFINE N == {n \in Nat : \A s \in Seq(T) : Len(s) = n => s \in S}
<1>1. 0 \in N
  BY EmptySeq
<1>2. ASSUME NEW n \in N PROVE n + 1 \in N
  <2>1. SUFFICES ASSUME NEW s \in Seq(T), Len(s) = n + 1 PROVE s \in S
    OBVIOUS
  <2>2. s # << >>
    BY <2>1, EmptySeq
  <2>3. PICK front \in Seq(T), e \in T : s = Append(front, e)
    BY <2>2, SequenceEmptyOrAppend
  <2>4. Len(front) = n
    BY <2>1, <2>3
  <2>5. front \in S
    BY <2>4
  <2>6. QED
    BY <2>3, <2>5
<1>3. N \in SUBSET Nat
  OBVIOUS
<1> HIDE DEF N
<1>4. N = Nat
  BY <1>1, <1>2, <1>3, NumberInduction
<1>5. \A s \in Seq(T) : Len(s) \in N
  BY <1>4
<1>6. QED
  BY <1>5 DEF N

\* A function on 1..n is a sequence of length n.
LEMMA FunctionIsSequence ==
  ASSUME NEW S, NEW n \in Nat, NEW f \in [1..n -> S]
  PROVE  f \in Seq(S) /\ Len(f) = n
<1>1. f \in Seq(S)
  BY SeqDef
<1>2. DOMAIN f = 1..Len(f) /\ Len(f) \in Nat
  BY <1>1, LenProperties
<1>3. DOMAIN f = 1..n
  OBVIOUS
<1>4. QED
  BY <1>1, <1>2, <1>3

\* Two sequences in one.
LEMMA Joined ==
  ASSUME NEW T, NEW a \in Seq(T), NEW b \in Seq(T)
  PROVE  /\ a \o b \in Seq(T) /\ Len(a \o b) = Len(a) + Len(b)
         /\ Len(a) \in Nat /\ Len(b) \in Nat
         /\ \A i \in 1..Len(a) : (a \o b)[i] = a[i]
         /\ \A i \in 1..Len(b) : (a \o b)[Len(a) + i] = b[i]
OBVIOUS

\* Keys can be joined in either order.
LEMMA JoinedInTurn ==
  ASSUME NEW a \in Seq(Letters), NEW b \in Seq(Letters), NEW c \in Seq(Letters)
  PROVE  a \o (b \o c) = (a \o b) \o c
OBVIOUS

-----------------------------------------------------------------------------
(* Flattening.                                                             *)

\* What defines the joined beginnings of a sequence of sequences.
Joins(f, ss, n) ==
  f = [i \in 1..n |-> IF i = 1 THEN ss[i] ELSE f[i - 1] \o ss[i]]

\* They exist.
LEMMA JoinsExist ==
  ASSUME NEW ss, NEW n \in Nat
  PROVE  \E f : Joins(f, ss, n)
<1> DEFINE N == {m \in Nat : \E f : Joins(f, ss, m)}
<1>1. 0 \in N
  <2> DEFINE f == [i \in 1..0 |-> ss[i]]
  <2>1. 1..0 = {}
    OBVIOUS
  <2>2. f = [i \in 1..0 |-> IF i = 1 THEN ss[i] ELSE f[i - 1] \o ss[i]]
    BY <2>1
  <2>3. QED
    BY <2>2 DEF Joins
<1>2. ASSUME NEW m \in N PROVE m + 1 \in N
  <2>1. PICK f : Joins(f, ss, m)
    OBVIOUS
  <2> DEFINE g == [i \in 1..(m + 1) |-> IF i = 1 THEN ss[i]
                                        ELSE IF i <= m THEN f[i] ELSE f[m] \o ss[i]]
             h == [i \in 1..(m + 1) |-> IF i = 1 THEN ss[i] ELSE g[i - 1] \o ss[i]]
  <2>2. ASSUME NEW i \in 1..(m + 1) PROVE g[i] = h[i]
    <3>1. CASE i = 1
      BY <3>1
    <3>2. CASE i # 1 /\ i <= m
      <4>1. i \in 1..m /\ i - 1 \in 1..m
        BY <3>2
      <4>2. f[i] = f[i - 1] \o ss[i]
        BY <2>1, <3>2, <4>1 DEF Joins
      <4>3. f[1] = ss[1]
        BY <2>1, <4>1 DEF Joins
      <4>4. g[i - 1] = f[i - 1]
        BY <4>1, <4>3
      <4>5. QED
        BY <3>2, <4>1, <4>2, <4>4
    <3>3. CASE i # 1 /\ ~(i <= m)
      <4>1. i = m + 1 /\ i - 1 = m /\ m \in 1..m
        BY <3>3
      <4>2. f[1] = ss[1]
        BY <2>1, <4>1 DEF Joins
      <4>3. g[m] = f[m]
        BY <4>1, <4>2
      <4>4. QED
        BY <3>3, <4>1, <4>3
    <3>4. QED
      BY <3>1, <3>2, <3>3
  <2>3. g = h
    BY <2>2
  <2>4. Joins(g, ss, m + 1)
    BY <2>3 DEF Joins
  <2>5. QED
    BY <2>4
<1>3. N \in SUBSET Nat
  OBVIOUS
<1> HIDE DEF N
<1>4. N = Nat
  BY <1>1, <1>2, <1>3, NumberInduction
<1>5. QED
  BY <1>4 DEF N

\* They begin with the first sequence and grow by one sequence after another.
Grows(f, ss, T) ==
  /\ Len(ss) # 0 => f[1] = ss[1]
  /\ \A i \in 2..Len(ss) : f[i] = f[i - 1] \o ss[i]
  /\ \A i \in 1..Len(ss) : f[i] \in Seq(T)

LEMMA JoinsGrow ==
  ASSUME NEW T, NEW ss \in Seq(Seq(T)), NEW f, Joins(f, ss, Len(ss))
  PROVE  Grows(f, ss, T)
<1>1. Len(ss) # 0 => f[1] = ss[1]
  BY DEF Joins
<1>2. ASSUME NEW i \in 2..Len(ss) PROVE f[i] = f[i - 1] \o ss[i]
  <2>1. i \in 1..Len(ss) /\ i # 1
    OBVIOUS
  <2>2. QED
    BY <2>1 DEF Joins
<1> DEFINE N == {n \in Nat : n \in 1..Len(ss) => f[n] \in Seq(T)}
<1>3. 0 \in N
  OBVIOUS
<1>4. ASSUME NEW n \in N PROVE n + 1 \in N
  <2>1. SUFFICES ASSUME n + 1 \in 1..Len(ss) PROVE f[n + 1] \in Seq(T)
    OBVIOUS
  <2>2. ss[n + 1] \in Seq(T)
    BY <2>1
  <2>3. CASE n = 0
    BY <1>1, <2>1, <2>2, <2>3
  <2>4. CASE n # 0
    <3>1. f[n] \in Seq(T) /\ n + 1 \in 2..Len(ss) /\ (n + 1) - 1 = n
      BY <2>1, <2>4
    <3>2. f[n + 1] = f[n] \o ss[n + 1]
      BY <1>2, <3>1
    <3>3. QED
      BY <2>2, <3>1, <3>2
  <2>5. QED
    BY <2>3, <2>4
<1>5. N \in SUBSET Nat
  OBVIOUS
<1> HIDE DEF N
<1>6. N = Nat
  BY <1>3, <1>4, <1>5, NumberInduction
<1>7. \A i \in 1..Len(ss) : f[i] \in Seq(T)
  BY <1>6 DEF N
<1>8. QED
  BY <1>1, <1>2, <1>7 DEF Grows

\* Flattening yields the last of them.
LEMMA FlattenIsLastJoin ==
  ASSUME NEW ss, Len(ss) \in Nat, Len(ss) # 0
  PROVE  \E f : Joins(f, ss, Len(ss)) /\ FlattenSeq(ss) = f[Len(ss)]
<1>1. \E f : Joins(f, ss, Len(ss))
  BY JoinsExist
<1> DEFINE f == CHOOSE f :
                  f = [i \in 1..Len(ss) |-> IF i = 1 THEN ss[i] ELSE f[i - 1] \o ss[i]]
<1>2. Joins(f, ss, Len(ss))
  BY <1>1 DEF Joins
<1>3. FlattenSeq(ss) = f[Len(ss)]
  BY DEF FlattenSeq
<1> HIDE DEF f
<1>4. QED
  BY <1>2, <1>3

LEMMA FlattenNothing == FlattenSeq(<< >>) = << >>
BY DEF FlattenSeq

\* Flattening one sequence more appends it.
LEMMA FlattenOneMore ==
  ASSUME NEW T, NEW ss \in Seq(Seq(T)), NEW s \in Seq(T)
  PROVE  /\ FlattenSeq(ss) \in Seq(T)
         /\ FlattenSeq(Append(ss, s)) = FlattenSeq(ss) \o s
<1> DEFINE all == Append(ss, s)
<1>1. /\ all \in Seq(Seq(T)) /\ Len(all) = Len(ss) + 1 /\ Len(ss) \in Nat
      /\ all[Len(all)] = s /\ \A i \in 1..Len(ss) : all[i] = ss[i]
  OBVIOUS
<1> HIDE DEF all
<1>2. PICK g : Joins(g, all, Len(all)) /\ FlattenSeq(all) = g[Len(all)]
  BY <1>1, FlattenIsLastJoin
<1>3. /\ g[1] = all[1]
      /\ \A i \in 2..Len(all) : g[i] = g[i - 1] \o all[i]
  <2>1. Joins(g, all, Len(all)) /\ all \in Seq(Seq(T)) /\ Len(all) # 0
    BY <1>1, <1>2
  <2>2. Grows(g, all, T)
    BY <2>1, JoinsGrow
  <2>3. QED
    BY <2>1, <2>2 DEF Grows
<1>4. CASE ss = << >>
  <2>1. Len(all) = 1 /\ FlattenSeq(all) = s
    BY <1>1, <1>2, <1>3, <1>4
  <2>2. FlattenSeq(ss) = << >>
    BY <1>4, FlattenNothing
  <2>3. << >> \o s = s /\ << >> \in Seq(T)
    OBVIOUS
  <2>4. QED
    BY <2>1, <2>2, <2>3 DEF all
<1>5. CASE ss # << >>
  <2>1. Len(ss) \in Nat \ {0}
    BY <1>5
  <2>2. PICK f : Joins(f, ss, Len(ss)) /\ FlattenSeq(ss) = f[Len(ss)]
    BY <2>1, FlattenIsLastJoin
  <2>3. /\ f[1] = ss[1]
        /\ \A i \in 2..Len(ss) : f[i] = f[i - 1] \o ss[i]
        /\ \A i \in 1..Len(ss) : f[i] \in Seq(T)
    <3>1. Joins(f, ss, Len(ss)) /\ Len(ss) # 0
      BY <2>1, <2>2
    <3>2. Grows(f, ss, T)
      BY <3>1, JoinsGrow
    <3>3. QED
      BY <3>1, <3>2 DEF Grows
  <2> DEFINE N == {n \in Nat : n \in 1..Len(ss) => g[n] = f[n]}
  <2>4. 0 \in N
    OBVIOUS
  <2>5. ASSUME NEW n \in N PROVE n + 1 \in N
    <3>1. SUFFICES ASSUME n + 1 \in 1..Len(ss) PROVE g[n + 1] = f[n + 1]
      OBVIOUS
    <3>2. CASE n = 0
      BY <1>1, <1>3, <2>3, <3>1, <3>2
    <3>3. CASE n # 0
      <4>1. /\ n + 1 \in 2..Len(ss) /\ n + 1 \in 2..Len(all) /\ (n + 1) - 1 = n
            /\ g[n] = f[n]
        <5>1. n \in Nat \ {0} /\ Len(ss) \in Nat
          BY <2>1, <3>3
        <5>2. /\ n + 1 \in 2..Len(ss) /\ n + 1 \in 2..(Len(ss) + 1)
              /\ (n + 1) - 1 = n /\ n \in 1..Len(ss)
          BY <3>1, <5>1
        <5>3. n \in 1..Len(ss) => g[n] = f[n]
          OBVIOUS
        <5>4. Len(all) = Len(ss) + 1
          BY <1>1
        <5>5. QED
          BY <5>2, <5>3, <5>4, Zenon
      <4>2. g[n + 1] = g[n] \o all[n + 1]
        BY <1>3, <4>1
      <4>3. f[n + 1] = f[n] \o ss[n + 1]
        BY <2>3, <4>1
      <4>4. QED
        BY <1>1, <3>1, <4>1, <4>2, <4>3
    <3>4. QED
      BY <3>2, <3>3
  <2>6. N \in SUBSET Nat
    OBVIOUS
  <2> HIDE DEF N
  <2>7. N = Nat
    BY <2>4, <2>5, <2>6, NumberInduction
  <2>8. g[Len(ss)] = f[Len(ss)] /\ f[Len(ss)] \in Seq(T)
    BY <2>1, <2>3, <2>7 DEF N
  <2>9. Len(all) \in 2..Len(all) /\ Len(all) - 1 = Len(ss)
    BY <1>1, <2>1
  <2>10. g[Len(all)] = g[Len(ss)] \o s
    BY <1>1, <1>3, <2>9
  <2>11. QED
    BY <1>2, <2>2, <2>8, <2>10 DEF all
<1>6. QED
  BY <1>4, <1>5

-----------------------------------------------------------------------------
(* Keys and boundaries.                                                    *)

LEMMA Folding ==
  ASSUME NEW c \in Characters
  PROVE  casefold[c] \in Seq(Letters)
BY LiveAssumption

\* The key of a text, character by character.
LEMMA KeyOneMore ==
  ASSUME NEW t \in Seq(Characters), NEW c \in Characters
  PROVE  /\ Key(t) \in Seq(Letters)
         /\ Key(Append(t, c)) = Key(t) \o casefold[c]
<1> DEFINE folded == [i \in 1..Len(t) |-> casefold[t[i]]]
           longer == [i \in 1..(Len(t) + 1) |-> casefold[Append(t, c)[i]]]
<1>1. Len(t) \in Nat /\ DOMAIN t = 1..Len(t) /\ \A i \in 1..Len(t) : t[i] \in Characters
  OBVIOUS
<1>2. /\ Len(Append(t, c)) = Len(t) + 1 /\ DOMAIN Append(t, c) = 1..(Len(t) + 1)
      /\ Append(t, c)[Len(t) + 1] = c /\ \A i \in 1..Len(t) : Append(t, c)[i] = t[i]
  OBVIOUS
<1>3. \A i \in 1..Len(t) : casefold[t[i]] \in Seq(Letters)
  BY <1>1, Folding
<1>4. folded \in [1..Len(t) -> Seq(Letters)]
  BY <1>3
<1>5. folded \in Seq(Seq(Letters)) /\ Len(folded) = Len(t)
  BY <1>1, <1>4, FunctionIsSequence
<1>6. longer = Append(folded, casefold[c])
  <2>1. casefold[c] \in Seq(Letters)
    BY Folding
  <2>2. /\ Append(folded, casefold[c]) \in Seq(Seq(Letters))
        /\ Len(Append(folded, casefold[c])) = Len(t) + 1
        /\ DOMAIN Append(folded, casefold[c]) = 1..(Len(t) + 1)
        /\ Append(folded, casefold[c])[Len(t) + 1] = casefold[c]
        /\ \A i \in 1..Len(t) : Append(folded, casefold[c])[i] = folded[i]
    <3> HIDE DEF folded
    <3>1. QED
      BY <1>1, <1>5, <2>1, AppendProperties, LenProperties
  <2>3. ASSUME NEW i \in 1..(Len(t) + 1)
        PROVE  longer[i] = Append(folded, casefold[c])[i]
    <3>1. CASE i = Len(t) + 1
      BY <1>2, <2>2, <3>1
    <3>2. CASE i \in 1..Len(t)
      BY <1>2, <2>2, <3>2
    <3>3. QED
      BY <1>1, <3>1, <3>2
  <2> HIDE DEF folded
  <2>4. QED
    BY <2>2, <2>3
<1>7. Key(t) = FlattenSeq(folded) /\ Key(Append(t, c)) = FlattenSeq(longer)
  BY <1>1, <1>2 DEF Key
<1> HIDE DEF folded, longer
<1>8. QED
  BY <1>5, <1>6, <1>7, Folding, FlattenOneMore

LEMMA KeyOfNothing == Key(<< >>) = << >> /\ Boundaries(<< >>) = << >>
<1> DEFINE text == << >>
<1>1. DOMAIN text = {}
  OBVIOUS
<1>2. [i \in DOMAIN text |-> casefold[text[i]]] = << >>
  BY <1>1
<1>3. [i \in DOMAIN text |-> [j \in DOMAIN casefold[text[i]] |-> i]] = << >>
  BY <1>1
<1> HIDE DEF text
<1>4. Key(text) = << >> /\ Boundaries(text) = << >>
  BY <1>2, <1>3, FlattenNothing DEF Key, Boundaries
<1>5. QED
  BY <1>4 DEF text

LEMMA KeyType ==
  ASSUME NEW text \in Seq(Characters)
  PROVE  Key(text) \in Seq(Letters) /\ Len(Key(text)) \in Nat
<1> DEFINE S == {s \in Seq(Characters) : Key(s) \in Seq(Letters)}
<1>1. << >> \in S
  <2>1. << >> \in Seq(Letters) /\ << >> \in Seq(Characters)
    BY EmptySeq
  <2>2. Key(<< >>) \in Seq(Letters)
    BY <2>1, KeyOfNothing
  <2>3. QED
    BY <2>1, <2>2
<1>2. ASSUME NEW s \in S, NEW c \in Characters PROVE Append(s, c) \in S
  <2>1. s \in Seq(Characters) /\ Append(s, c) \in Seq(Characters)
    OBVIOUS
  <2>2. Key(Append(s, c)) = Key(s) \o casefold[c] /\ Key(s) \in Seq(Letters)
    BY <2>1, KeyOneMore
  <2>3. casefold[c] \in Seq(Letters)
    BY Folding
  <2>4. Key(s) \o casefold[c] \in Seq(Letters)
    BY <2>2, <2>3, Joined
  <2>5. Key(Append(s, c)) \in Seq(Letters)
    BY <2>2, <2>4
  <2>6. QED
    BY <2>1, <2>5
<1>3. S \in SUBSET Seq(Characters)
  OBVIOUS
<1> HIDE DEF S
<1>4. S = Seq(Characters)
  BY <1>1, <1>2, <1>3, SequenceInduction
<1>5. Key(text) \in Seq(Letters)
  BY <1>4 DEF S
<1>6. QED
  BY <1>5, LenProperties

\* The boundaries of a text, character by character.
LEMMA BoundariesOneMore ==
  ASSUME NEW t \in Seq(Characters), NEW c \in Characters
  PROVE  /\ Boundaries(t) \in Seq(Nat)
         /\ Boundaries(Append(t, c)) =
              Boundaries(t) \o [j \in DOMAIN casefold[c] |-> Len(t) + 1]
<1> DEFINE ends == [i \in 1..Len(t) |-> [j \in DOMAIN casefold[t[i]] |-> i]]
           longer == [i \in 1..(Len(t) + 1) |-> [j \in DOMAIN casefold[Append(t, c)[i]] |-> i]]
           last == [j \in DOMAIN casefold[c] |-> Len(t) + 1]
<1>1. Len(t) \in Nat /\ DOMAIN t = 1..Len(t) /\ \A i \in 1..Len(t) : t[i] \in Characters
  OBVIOUS
<1>2. /\ Len(Append(t, c)) = Len(t) + 1 /\ DOMAIN Append(t, c) = 1..(Len(t) + 1)
      /\ Append(t, c)[Len(t) + 1] = c /\ \A i \in 1..Len(t) : Append(t, c)[i] = t[i]
  OBVIOUS
<1>3. ASSUME NEW d \in Characters, NEW n \in Nat
      PROVE  [j \in DOMAIN casefold[d] |-> n] \in Seq(Nat)
  <2>1. Len(casefold[d]) \in Nat /\ DOMAIN casefold[d] = 1..Len(casefold[d])
    BY Folding, LenProperties
  <2>2. [j \in 1..Len(casefold[d]) |-> n] \in [1..Len(casefold[d]) -> Nat]
    OBVIOUS
  <2>3. QED
    BY <2>1, <2>2, FunctionIsSequence
<1>4. ends \in [1..Len(t) -> Seq(Nat)]
  <2>1. \A i \in 1..Len(t) : [j \in DOMAIN casefold[t[i]] |-> i] \in Seq(Nat)
    BY <1>1, <1>3
  <2>2. QED
    BY <2>1
<1>5. ends \in Seq(Seq(Nat)) /\ Len(ends) = Len(t)
  BY <1>1, <1>4, FunctionIsSequence
<1>6. last \in Seq(Nat)
  BY <1>1, <1>3
<1>7. longer = Append(ends, last)
  <2>1. /\ Append(ends, last) \in Seq(Seq(Nat))
        /\ Len(Append(ends, last)) = Len(t) + 1
        /\ DOMAIN Append(ends, last) = 1..(Len(t) + 1)
        /\ Append(ends, last)[Len(t) + 1] = last
        /\ \A i \in 1..Len(t) : Append(ends, last)[i] = ends[i]
    <3> HIDE DEF ends, last
    <3>1. QED
      BY <1>1, <1>5, <1>6, AppendProperties, LenProperties
  <2>2. ASSUME NEW i \in 1..(Len(t) + 1) PROVE longer[i] = Append(ends, last)[i]
    <3>1. CASE i = Len(t) + 1
      BY <1>2, <2>1, <3>1
    <3>2. CASE i \in 1..Len(t)
      BY <1>2, <2>1, <3>2
    <3>3. QED
      BY <1>1, <3>1, <3>2
  <2>3. longer = [i \in 1..(Len(t) + 1) |-> longer[i]]
    OBVIOUS
  <2> HIDE DEF ends, last, longer
  <2>4. Append(ends, last) \in [1..(Len(t) + 1) -> Seq(Nat)]
    BY <2>1, LenProperties
  <2>5. QED
    BY <2>2, <2>3, <2>4
<1>8. Boundaries(t) = FlattenSeq(ends) /\ Boundaries(Append(t, c)) = FlattenSeq(longer)
  BY <1>1, <1>2 DEF Boundaries
<1> HIDE DEF ends, longer, last
<1>9. Boundaries(t) \in Seq(Nat) /\ Boundaries(Append(t, c)) = Boundaries(t) \o last
  BY <1>5, <1>6, <1>7, <1>8, FlattenOneMore
<1>10. QED
  BY <1>9 DEF last

\* Keys are joined as texts are.
LEMMA KeyOfJoined ==
  ASSUME NEW a \in Seq(Characters), NEW b \in Seq(Characters)
  PROVE  Key(a \o b) = Key(a) \o Key(b)
<1> DEFINE S == {s \in Seq(Characters) : Key(a \o s) = Key(a) \o Key(s)}
<1>1. << >> \in S
  <2>1. a \o << >> = a /\ Key(a) \o << >> = Key(a)
    BY KeyType, ConcatEmptySeq
  <2>2. << >> \in Seq(Characters)
    OBVIOUS
  <2>3. QED
    BY <2>1, <2>2, KeyOfNothing
<1>2. ASSUME NEW s \in S, NEW c \in Characters PROVE Append(s, c) \in S
  <2>1. s \in Seq(Characters) /\ Key(a \o s) = Key(a) \o Key(s)
    OBVIOUS
  <2>2. a \o Append(s, c) = Append(a \o s, c) /\ a \o s \in Seq(Characters)
        /\ Append(s, c) \in Seq(Characters)
    BY <2>1
  <2>3. Key(a \o Append(s, c)) = (Key(a) \o Key(s)) \o casefold[c]
    BY <2>1, <2>2, KeyOneMore
  <2>4. Key(Append(s, c)) = Key(s) \o casefold[c]
    BY <2>1, KeyOneMore
  <2>5. Key(a) \in Seq(Letters) /\ Key(s) \in Seq(Letters) /\ casefold[c] \in Seq(Letters)
    BY <2>1, KeyType, Folding
  <2>6. Key(a) \o (Key(s) \o casefold[c]) = (Key(a) \o Key(s)) \o casefold[c]
    BY <2>5, JoinedInTurn, Zenon
  <2>7. QED
    BY <2>2, <2>3, <2>4, <2>6
<1>3. S \in SUBSET Seq(Characters)
  OBVIOUS
<1> HIDE DEF S
<1>4. S = Seq(Characters)
  BY <1>1, <1>2, <1>3, SequenceInduction
<1>5. QED
  BY <1>4 DEF S

\* Every letter has its boundary, and a boundary is a place in the text.
BoundariesFit(text) ==
  /\ Len(Boundaries(text)) = Len(Key(text))
  /\ \A n \in 1..Len(Key(text)) : Boundaries(text)[n] \in 1..Len(text)

LEMMA BoundariesBounded ==
  ASSUME NEW text \in Seq(Characters)
  PROVE  BoundariesFit(text)
<1> DEFINE S == {s \in Seq(Characters) : BoundariesFit(s)}
<1>1. << >> \in S
  BY KeyOfNothing DEF BoundariesFit
<1>2. ASSUME NEW s \in S, NEW c \in Characters PROVE Append(s, c) \in S
  <2> DEFINE last == [j \in DOMAIN casefold[c] |-> Len(s) + 1]
  <2>1. s \in Seq(Characters) /\ BoundariesFit(s) /\ Len(s) \in Nat
    OBVIOUS
  <2>2. casefold[c] \in Seq(Letters) /\ Len(casefold[c]) \in Nat
        /\ DOMAIN casefold[c] = 1..Len(casefold[c])
    BY Folding, LenProperties
  <2>3. last \in [1..Len(casefold[c]) -> Nat]
    BY <2>1, <2>2
  <2>4. last \in Seq(Nat) /\ Len(last) = Len(casefold[c])
        /\ \A j \in 1..Len(casefold[c]) : last[j] = Len(s) + 1
    BY <2>2, <2>3, FunctionIsSequence
  <2> HIDE DEF last
  <2>5. Boundaries(s) \in Seq(Nat) /\ Boundaries(Append(s, c)) = Boundaries(s) \o last
    BY <2>1, BoundariesOneMore DEF last
  <2>6. Key(s) \in Seq(Letters) /\ Key(Append(s, c)) = Key(s) \o casefold[c]
    BY <2>1, KeyOneMore
  <2>7. Len(Boundaries(s)) = Len(Key(s)) /\ Len(Key(s)) \in Nat
    BY <2>1, <2>6 DEF BoundariesFit
  <2>8. /\ Len(Boundaries(Append(s, c))) = Len(Key(s)) + Len(casefold[c])
        /\ Len(Key(Append(s, c))) = Len(Key(s)) + Len(casefold[c])
    <3>1. Len(Boundaries(s) \o last) = Len(Boundaries(s)) + Len(last)
      BY <2>4, <2>5, Joined
    <3>2. Len(Key(s) \o casefold[c]) = Len(Key(s)) + Len(casefold[c])
      BY <2>2, <2>6, Joined
    <3>3. QED
      BY <2>4, <2>5, <2>6, <2>7, <3>1, <3>2
  <2>9. Append(s, c) \in Seq(Characters) /\ Len(Append(s, c)) = Len(s) + 1
    BY <2>1
  <2>10. ASSUME NEW n \in 1..(Len(Key(s)) + Len(casefold[c]))
         PROVE  Boundaries(Append(s, c))[n] \in 1..(Len(s) + 1)
    <3> DEFINE i == n - Len(Key(s))
    <3>1. CASE n \in 1..Len(Key(s))
      <4>1. (Boundaries(s) \o last)[n] = Boundaries(s)[n]
        BY <2>4, <2>5, <2>7, <3>1, Joined
      <4>2. Boundaries(s)[n] \in 1..Len(s)
        BY <2>1, <3>1 DEF BoundariesFit
      <4>3. QED
        BY <2>1, <2>5, <4>1, <4>2
    <3>2. CASE ~(n \in 1..Len(Key(s)))
      <4>1. \A k, l \in Nat : \A m \in 1..(k + l) : ~(m \in 1..k) =>
              m - k \in 1..l /\ k + (m - k) = m
        OBVIOUS
      <4>2. i \in 1..Len(casefold[c]) /\ Len(Boundaries(s)) + i = n
        BY <2>2, <2>7, <3>2, <4>1
      <4> HIDE DEF i
      <4>3. i \in 1..Len(last)
        BY <2>4, <4>2
      <4>4. (Boundaries(s) \o last)[Len(Boundaries(s)) + i] = last[i]
        BY <2>4, <2>5, <4>3, Joined
      <4>5. last[i] \in 1..(Len(s) + 1)
        BY <2>1, <2>4, <4>2
      <4>6. QED
        BY <2>5, <4>2, <4>4, <4>5
    <3>3. QED
      BY <3>1, <3>2
  <2>11. BoundariesFit(Append(s, c))
    BY <2>8, <2>9, <2>10 DEF BoundariesFit
  <2>12. QED
    BY <2>9, <2>11
<1>3. S \in SUBSET Seq(Characters)
  OBVIOUS
<1> HIDE DEF S
<1>4. S = Seq(Characters)
  BY <1>1, <1>2, <1>3, SequenceInduction
<1>5. QED
  BY <1>4 DEF S

\* The text up to the boundary of a letter has the key up to that letter, if the
\* letter is the last one of its character.
BoundariesSplit(text) ==
  \A n \in 1..Len(Key(text)) :
    ~Splits(text, n) =>
      Key(SubSeq(text, 1, Boundaries(text)[n])) = SubSeq(Key(text), 1, n)

LEMMA BoundaryKeys ==
  ASSUME NEW text \in Seq(Characters)
  PROVE  BoundariesSplit(text)
<1> DEFINE S == {s \in Seq(Characters) : BoundariesSplit(s)}
<1>1. << >> \in S
  BY KeyOfNothing DEF BoundariesSplit
<1>2. ASSUME NEW s \in S, NEW c \in Characters PROVE Append(s, c) \in S
  <2> DEFINE t == Append(s, c)
             last == [j \in DOMAIN casefold[c] |-> Len(s) + 1]
  <2>1. s \in Seq(Characters) /\ BoundariesSplit(s) /\ Len(s) \in Nat
    OBVIOUS
  <2>2. casefold[c] \in Seq(Letters) /\ Len(casefold[c]) \in Nat
        /\ DOMAIN casefold[c] = 1..Len(casefold[c])
    BY Folding, LenProperties
  <2>3. last \in [1..Len(casefold[c]) -> Nat]
    BY <2>1, <2>2
  <2>4. last \in Seq(Nat) /\ Len(last) = Len(casefold[c])
        /\ \A j \in 1..Len(casefold[c]) : last[j] = Len(s) + 1
    BY <2>2, <2>3, FunctionIsSequence
  <2> HIDE DEF last
  <2>5. Boundaries(s) \in Seq(Nat) /\ Boundaries(t) = Boundaries(s) \o last
    BY <2>1, BoundariesOneMore DEF last
  <2>6. Key(s) \in Seq(Letters) /\ Key(t) = Key(s) \o casefold[c]
    BY <2>1, KeyOneMore
  <2>7. Len(Boundaries(s)) = Len(Key(s)) /\ Len(Key(s)) \in Nat
        /\ \A n \in 1..Len(Key(s)) : Boundaries(s)[n] \in 1..Len(s)
    BY <2>1, <2>6, BoundariesBounded DEF BoundariesFit
  <2>8. t \in Seq(Characters) /\ Len(t) = Len(s) + 1
    BY <2>1
  <2>9. Len(Key(t)) = Len(Key(s)) + Len(casefold[c])
    BY <2>2, <2>6
  <2>10. ASSUME NEW n \in 1..Len(Key(t)), ~Splits(t, n)
         PROVE  Key(SubSeq(t, 1, Boundaries(t)[n])) = SubSeq(Key(t), 1, n)
    <3> HIDE DEF t
    <3>0. Len(Boundaries(t)) = Len(Key(t)) /\ Boundaries(t) \in Seq(Nat)
      BY <2>8, BoundariesBounded, BoundariesOneMore DEF BoundariesFit
    <3>1. CASE n \in 1..Len(Key(s))
      <4>1. Boundaries(t)[n] = Boundaries(s)[n] /\ Boundaries(s)[n] \in 1..Len(s)
        BY <2>4, <2>5, <2>7, <3>1, Joined
      <4>2. SubSeq(t, 1, Boundaries(s)[n]) = SubSeq(s, 1, Boundaries(s)[n])
        BY <2>1, <4>1 DEF t
      <4>3. SubSeq(Key(t), 1, n) = SubSeq(Key(s), 1, n)
        BY <2>2, <2>6, <2>7, <3>1
      <4>4. ~Splits(s, n)
        <5>1. SUFFICES ASSUME n \in 1 .. Len(Boundaries(s)) - 1,
                              Boundaries(s)[n] = Boundaries(s)[n + 1]
                       PROVE  FALSE
          BY DEF Splits
        <5>2. n + 1 \in 1..Len(Boundaries(s)) /\ n \in Int
          BY <2>7, <5>1
        <5>3. (Boundaries(s) \o last)[n + 1] = Boundaries(s)[n + 1]
          BY <2>4, <2>5, <5>2, Joined
        <5>4. Boundaries(t)[n] = Boundaries(t)[n + 1]
          BY <2>5, <4>1, <5>1, <5>3
        <5>5. n \in 1 .. Len(Boundaries(t)) - 1
          BY <2>2, <2>7, <2>9, <3>0, <5>1
        <5>6. QED
          BY <2>10, <5>4, <5>5 DEF Splits
      <4>5. Key(SubSeq(s, 1, Boundaries(s)[n])) = SubSeq(Key(s), 1, n)
        BY <2>1, <3>1, <4>4 DEF BoundariesSplit
      <4>6. QED
        BY <4>1, <4>2, <4>3, <4>5
    <3>2. CASE ~(n \in 1..Len(Key(s)))
      <4>1. ASSUME NEW m \in 1..Len(Key(t)), ~(m \in 1..Len(Key(s)))
            PROVE  Boundaries(t)[m] = Len(t)
        <5> DEFINE i == m - Len(Key(s))
        <5>1. \A k, l \in Nat : \A j \in 1..(k + l) : ~(j \in 1..k) =>
                j - k \in 1..l /\ k + (j - k) = j
          OBVIOUS
        <5>2. i \in 1..Len(casefold[c]) /\ Len(Boundaries(s)) + i = m
          BY <2>2, <2>7, <2>9, <4>1, <5>1
        <5> HIDE DEF i
        <5>3. i \in 1..Len(last)
          BY <2>4, <5>2
        <5>4. (Boundaries(s) \o last)[Len(Boundaries(s)) + i] = last[i]
          BY <2>4, <2>5, <5>3, Joined
        <5>5. last[i] = Len(t)
          BY <2>4, <2>8, <5>2
        <5>6. QED
          BY <2>5, <5>2, <5>4, <5>5
      <4>2. Boundaries(t)[n] = Len(t)
        BY <3>2, <4>1
      <4>3. n = Len(Key(t))
        <5>1. SUFFICES ASSUME n # Len(Key(t)) PROVE FALSE
          OBVIOUS
        <5>2. n + 1 \in 1..Len(Key(t)) /\ ~(n + 1 \in 1..Len(Key(s)))
          BY <2>2, <2>7, <2>9, <3>2, <5>1
        <5>3. Boundaries(t)[n + 1] = Len(t)
          BY <4>1, <5>2
        <5>4. n \in 1 .. Len(Boundaries(t)) - 1
          BY <3>0, <2>2, <2>7, <2>9, <5>2
        <5>5. QED
          BY <2>10, <4>2, <5>3, <5>4 DEF Splits
      <4>4. SubSeq(t, 1, Len(t)) = t
        BY <2>8, SubSeqFull
      <4>5. Key(t) \in Seq(Letters)
        BY <2>8, KeyOneMore
      <4>6. SubSeq(Key(t), 1, Len(Key(t))) = Key(t)
        BY <4>5, SubSeqFull
      <4>7. QED
        BY <4>2, <4>3, <4>4, <4>6
    <3>3. QED
      BY <3>1, <3>2
  <2>11. BoundariesSplit(t)
    BY <2>10 DEF BoundariesSplit
  <2>12. QED
    BY <2>8, <2>11
<1>3. S \in SUBSET Seq(Characters)
  OBVIOUS
<1> HIDE DEF S
<1>4. S = Seq(Characters)
  BY <1>1, <1>2, <1>3, SequenceInduction
<1>5. QED
  BY <1>4 DEF S

\* Cutting a text yields texts.
LEMMA CutTexts ==
  ASSUME NEW text \in Seq(Characters), NEW n \in Nat
  PROVE  /\ _prefix_through_normalized(text, n) \in Seq(Characters)
         /\ _suffix_after_normalized(text, n) \in Seq(Characters)
<1>1. CASE n \in 1..Len(Boundaries(text))
  <2>1. Boundaries(text)[n] \in 1..Len(text)
    BY <1>1, BoundariesBounded DEF BoundariesFit
  <2>2. \A b \in 1..Len(text) : /\ SubSeq(text, 1, b) \in Seq(Characters)
                                /\ SubSeq(text, b + 1, Len(text)) \in Seq(Characters)
    OBVIOUS
  <2>3. ~(n <= 0) /\ ~(n > Len(Boundaries(text)))
    BY <1>1
  <2>4. QED
    BY <2>1, <2>2, <2>3 DEF _prefix_through_normalized, _suffix_after_normalized
<1>2. CASE ~(n \in 1..Len(Boundaries(text)))
  <2>1. Len(Boundaries(text)) \in Nat
    BY BoundariesBounded, KeyType DEF BoundariesFit
  <2>2. n <= 0 \/ n > Len(Boundaries(text))
    BY <1>2, <2>1
  <2>3. << >> \in Seq(Characters)
    OBVIOUS
  <2>4. QED
    BY <2>2, <2>3 DEF _prefix_through_normalized, _suffix_after_normalized
<1>3. QED
  BY <1>1, <1>2

\* Cutting a text behind its first n letters cuts its key there, if they do not
\* end inside a character.
LEMMA CutKeys ==
  ASSUME NEW text \in Seq(Characters), NEW n \in 0..Len(Key(text)), ~Splits(text, n)
  PROVE  /\ Key(_prefix_through_normalized(text, n)) = SubSeq(Key(text), 1, n)
         /\ Key(text) = SubSeq(Key(text), 1, n) \o Key(_suffix_after_normalized(text, n))
<1>1. Key(text) \in Seq(Letters) /\ Len(Key(text)) \in Nat
  BY KeyType
<1>2. CASE n = 0
  <2>1. SubSeq(Key(text), 1, 0) = << >>
    BY <1>1
  <2>2. << >> \o Key(text) = Key(text)
    BY <1>1, ConcatEmptySeq
  <2>3. _prefix_through_normalized(text, 0) = << >> /\ _suffix_after_normalized(text, 0) = text
    BY DEF _prefix_through_normalized, _suffix_after_normalized
  <2>4. QED
    BY <1>2, <2>1, <2>2, <2>3, KeyOfNothing
<1>3. CASE n # 0
  <2> DEFINE b == Boundaries(text)[n]
             front == SubSeq(text, 1, b)
             back == SubSeq(text, b + 1, Len(text))
  <2>1. n \in 1..Len(Key(text))
    BY <1>1, <1>3
  <2>2. b \in 1..Len(text) /\ Len(Boundaries(text)) = Len(Key(text))
    BY <2>1, BoundariesBounded DEF BoundariesFit
  <2>3. Key(front) = SubSeq(Key(text), 1, n)
    BY <2>1, BoundaryKeys DEF BoundariesSplit
  <2>4. _prefix_through_normalized(text, n) = front /\ _suffix_after_normalized(text, n) = back
    <3>1. \A k \in Nat : \A m \in 1..k : ~(m <= 0) /\ ~(m > k)
      OBVIOUS
    <3>2. ~(n <= 0) /\ ~(n > Len(Boundaries(text)))
      BY <1>1, <2>1, <2>2, <3>1
    <3>3. QED
      BY <3>2, Zenon DEF _prefix_through_normalized, _suffix_after_normalized
  <2>5. front \in Seq(Characters) /\ back \in Seq(Characters) /\ text = front \o back
    <3> HIDE DEF b
    <3>1. \A i \in 1..Len(text) : /\ SubSeq(text, 1, i) \in Seq(Characters)
                                  /\ SubSeq(text, i + 1, Len(text)) \in Seq(Characters)
                                  /\ text = SubSeq(text, 1, i) \o SubSeq(text, i + 1, Len(text))
      OBVIOUS
    <3>2. QED
      BY <2>2, <3>1
  <2> HIDE DEF front, back
  <2>6. Key(text) = Key(front) \o Key(back)
    BY <2>5, KeyOfJoined
  <2>7. QED
    BY <2>3, <2>4, <2>6
<1>4. QED
  BY <1>2, <1>3

\* The longest common prefix of two sequences exists and is one.
LEMMA CommonPrefix ==
  ASSUME NEW T, NEW a \in Seq(T), NEW b \in Seq(T)
  PROVE  /\ common_prefix(a, b) \in Seq(T)
         /\ IsPrefix(common_prefix(a, b), a) /\ IsPrefix(common_prefix(a, b), b)
<1> DEFINE S == {a, b}
           P == UNION {Prefixes(s) : s \in S}
           C == {p \in P : \A t \in S : IsPrefix(p, t)}
           L == {Len(a) - Len(p) : p \in C}
<1>1. ASSUME NEW p \in C PROVE p \in Seq(T) /\ Len(p) \in 0..Len(a)
  <2>1. PICK s \in S : p \in Prefixes(s)
    OBVIOUS
  <2>2. PICK n \in 0..Len(s) : p = SubSeq(s, 1, n)
    BY <2>1 DEF Prefixes
  <2>3. s \in Seq(T)
    OBVIOUS
  <2>4. p \in Seq(T)
    BY <2>2, <2>3
  <2>5. Len(p) <= Len(a)
    BY DEF IsPrefix
  <2>6. QED
    BY <2>4, <2>5
<1>2. << >> \in C
  <2>1. << >> = SubSeq(a, 1, 0) /\ << >> = SubSeq(b, 1, 0) /\ 0 \in 0..Len(a)
    OBVIOUS
  <2>2. << >> \in Prefixes(a)
    BY <2>1 DEF Prefixes
  <2>3. IsPrefix(<< >>, a) /\ IsPrefix(<< >>, b)
    BY <2>1 DEF IsPrefix
  <2>4. QED
    BY <2>2, <2>3
<1>3. L \in SUBSET Nat /\ L # {}
  BY <1>1, <1>2
<1> HIDE DEF C
<1>4. PICK m \in L : \A r \in L : m <= r
  BY <1>3, LeastNumber
<1>5. \E p \in C : \A other \in C : Len(other) <= Len(p)
  <2>1. PICK p \in C : m = Len(a) - Len(p)
    BY <1>4
  <2>2. \A other \in C : Len(a) - Len(p) <= Len(a) - Len(other)
    BY <1>4, <2>1
  <2>3. \A other \in C : Len(other) <= Len(p)
    BY <1>1, <2>2
  <2>4. QED
    BY <2>3
<1>6. LongestCommonPrefix(S) = CHOOSE p \in C : \A other \in C : Len(other) <= Len(p)
  BY DEF LongestCommonPrefix, CommonPrefixes, C
<1>7. LongestCommonPrefix(S) \in C
  BY <1>5, <1>6
<1>8. common_prefix(a, b) \in C
  BY <1>7 DEF common_prefix
<1>9. QED
  BY <1>1, <1>8 DEF C

-----------------------------------------------------------------------------
(* Endpointing.                                                            *)

\* The numbers of chunks.
LEMMA ChunkFields ==
  ASSUME NEW chunk \in Chunks
  PROVE  chunk.number \in 1..MaxChunks /\ chunk.number \in Int
BY LiveAssumption DEF Chunks

\* The chunks of a window, and their numbers.
LEMMA ChunkNumbers ==
  ASSUME NEW chunks \in Seq(Chunks)
  PROVE  /\ Numbers(chunks) \subseteq 1..MaxChunks
         /\ [i \in DOMAIN chunks |-> chunks[i].number] \in Seq(1..MaxChunks)
         /\ Len([i \in DOMAIN chunks |-> chunks[i].number]) = Len(chunks)
<1>1. \A i \in DOMAIN chunks : chunks[i] \in Chunks /\ chunks[i].number \in 1..MaxChunks
  BY ChunkFields
<1>2. DOMAIN chunks = 1..Len(chunks) /\ Len(chunks) \in Nat
  OBVIOUS
<1>3. QED
  <2> DEFINE numbers == [i \in 1..Len(chunks) |-> chunks[i].number]
  <2>1. \A i \in 1..Len(chunks) : chunks[i].number \in 1..MaxChunks
    BY <1>1, <1>2
  <2>2. numbers \in Seq(1..MaxChunks) /\ Len(numbers) = Len(chunks)
    BY <1>2, <2>1, FunctionIsSequence
  <2>3. Numbers(chunks) \subseteq 1..MaxChunks
    BY <1>1 DEF Numbers
  <2>4. QED
    BY <1>2, <2>2, <2>3

\* A window grows by one chunk, which follows the others.
LEMMA Appended ==
  ASSUME NEW chunks \in Seq(Chunks), NEW chunk \in Chunks
  PROVE  LET grown == Append(chunks, chunk)
         IN  /\ grown \in Seq(Chunks) /\ Len(grown) = Len(chunks) + 1
             /\ grown # << >> /\ grown[Len(grown)] = chunk
             /\ Numbers(grown) = Numbers(chunks) \cup {chunk.number}
             /\ (Contiguous(chunks)
                 /\ (chunks # << >> => chunk.number = chunks[Len(chunks)].number + 1))
                  => Contiguous(grown)
<1> DEFINE grown == Append(chunks, chunk)
<1>1. /\ grown \in Seq(Chunks) /\ Len(grown) = Len(chunks) + 1 /\ grown # << >>
      /\ grown[Len(grown)] = chunk /\ DOMAIN grown = 1..(Len(chunks) + 1)
      /\ \A i \in 1..Len(chunks) : grown[i] = chunks[i]
      /\ DOMAIN chunks = 1..Len(chunks) /\ Len(chunks) \in Nat
  OBVIOUS
<1>2. Numbers(grown) = Numbers(chunks) \cup {chunk.number}
  <2> HIDE DEF grown
  <2>1. \A i \in DOMAIN grown : i \in DOMAIN chunks \/ i = Len(grown)
    BY <1>1
  <2>2. Numbers(grown) \subseteq Numbers(chunks) \cup {chunk.number}
    BY <1>1, <2>1 DEF Numbers
  <2>3. Len(grown) \in DOMAIN grown /\ DOMAIN chunks \subseteq DOMAIN grown
    BY <1>1
  <2>4. Numbers(chunks) \cup {chunk.number} \subseteq Numbers(grown)
    BY <1>1, <2>3 DEF Numbers
  <2>5. QED
    BY <2>2, <2>4
<1>3. ASSUME Contiguous(chunks),
             chunks # << >> => chunk.number = chunks[Len(chunks)].number + 1
      PROVE  Contiguous(grown)
  <2>1. CASE chunks = << >>
    <3>1. Len(chunks) = 0
      BY <2>1
    <3>2. \A i \in DOMAIN grown : i = 1
      BY <1>1, <3>1
    <3>3. chunk.number \in Int
      BY ChunkFields
    <3> HIDE DEF grown
    <3>4. grown[1] = chunk
      BY <1>1, <3>1
    <3>5. QED
      BY <3>2, <3>3, <3>4 DEF Contiguous
  <2>2. CASE chunks # << >>
    <3>1. Len(chunks) \in Nat \ {0}
      BY <2>2
    <3> HIDE DEF grown
    <3>2. grown[1] = chunks[1] /\ 1 \in DOMAIN chunks /\ Len(chunks) \in DOMAIN chunks
      BY <1>1, <3>1
    <3>3. chunks[1].number \in Int
      BY <3>2, ChunkFields
    <3>4. chunk.number = chunks[1].number + Len(chunks)
      BY <1>3, <2>2, <3>1, <3>2, <3>3 DEF Contiguous
    <3>5. ASSUME NEW i \in DOMAIN grown
          PROVE  grown[i].number = chunks[1].number + i - 1
      <4>1. CASE i \in 1..Len(chunks)
        BY <1>1, <1>3, <4>1 DEF Contiguous
      <4>2. CASE i = Len(chunks) + 1
        <5>1. grown[i] = chunk
          BY <1>1, <4>2
        <5>2. i - 1 = Len(chunks)
          BY <3>1, <4>2
        <5>3. chunks[1].number + i - 1 = chunks[1].number + Len(chunks)
          BY <3>1, <3>3, <5>2
        <5>4. QED
          BY <3>4, <5>1, <5>3
      <4>3. QED
        BY <1>1, <4>1, <4>2
    <3>6. QED
      BY <3>2, <3>5 DEF Contiguous
  <2>3. QED
    BY <2>1, <2>2
<1>4. QED
  BY <1>1, <1>2, <1>3

\* What defines the durations of parts of a window.
Totals(f, chunks, n) ==
  f = [s \in SUBSET (1..n) |->
         IF s = {} THEN 0 ELSE f[s \ {Max(s)}] + chunks[Max(s)].duration]

\* A part of a window has a last chunk.
LEMMA LastOfPart ==
  ASSUME NEW n \in Nat, NEW s \in SUBSET (1..n), s # {}
  PROVE  Max(s) \in s /\ \A i \in s : Max(s) >= i
<1> DEFINE L == {n - i : i \in s}
<1>1. L \in SUBSET Nat /\ L # {}
  <2>1. \A i \in 1..n : n - i \in Nat
    OBVIOUS
  <2>2. \A i \in s : n - i \in Nat
    BY <2>1
  <2>3. QED
    BY <2>2
<1>2. PICK m \in L : \A r \in L : m <= r
  BY <1>1, LeastNumber
<1>3. PICK i \in s : m = n - i
  BY <1>2
<1>4. \A j \in s : n - i <= n - j
  BY <1>2, <1>3
<1>5. \A j \in s : i >= j
  BY <1>3, <1>4
<1>6. QED
  BY <1>5 DEF Max

LEMMA TotalsExist ==
  ASSUME NEW chunks, NEW n \in Nat
  PROVE  \E f : Totals(f, chunks, n)
<1> DEFINE N == {m \in Nat : \E f : Totals(f, chunks, m)}
<1>1. 0 \in N
  <2> DEFINE f == [s \in SUBSET (1..0) |-> 0]
  <2>1. \A s \in SUBSET (1..0) : s = {}
    OBVIOUS
  <2>2. f = [s \in SUBSET (1..0) |->
               IF s = {} THEN 0 ELSE f[s \ {Max(s)}] + chunks[Max(s)].duration]
    BY <2>1
  <2>3. QED
    BY <2>2 DEF Totals
<1>2. ASSUME NEW m \in N PROVE m + 1 \in N
  <2>0. m \in Nat
    OBVIOUS
  <2>1. PICK f : Totals(f, chunks, m)
    OBVIOUS
  <2> DEFINE g == [s \in SUBSET (1..(m + 1)) |->
                     IF m + 1 \in s THEN f[s \ {m + 1}] + chunks[m + 1].duration ELSE f[s]]
             h == [s \in SUBSET (1..(m + 1)) |->
                     IF s = {} THEN 0 ELSE g[s \ {Max(s)}] + chunks[Max(s)].duration]
  <2>2. ASSUME NEW s \in SUBSET (1..(m + 1)) PROVE g[s] = h[s]
    <3>1. CASE s = {}
      <4>1. {} \in SUBSET (1..m)
        OBVIOUS
      <4>2. f[{}] = 0
        BY <2>1, <4>1 DEF Totals
      <4>3. QED
        BY <3>1, <4>2
    <3>2. CASE m + 1 \in s
      <4>1. Max(s) = m + 1
        <5>1. m + 1 \in Nat /\ s # {}
          BY <2>0, <3>2
        <5>2. Max(s) \in s /\ Max(s) >= m + 1
          BY <3>2, <5>1, LastOfPart
        <5>3. Max(s) \in 1..(m + 1)
          BY <5>2
        <5>4. QED
          BY <2>0, <5>2, <5>3
      <4>2. s \ {m + 1} \in SUBSET (1..m) /\ s \ {m + 1} \in SUBSET (1..(m + 1))
        BY <3>2
      <4>3. g[s \ {m + 1}] = f[s \ {m + 1}]
        BY <4>2
      <4>4. QED
        BY <3>2, <4>1, <4>3
    <3>3. CASE s # {} /\ m + 1 \notin s
      <4>1. s \in SUBSET (1..m) /\ Max(s) \in s
        <5>1. \A i \in 1..(m + 1) : i # m + 1 => i \in 1..m
          BY <2>0
        <5>2. s \in SUBSET (1..m)
          BY <3>3, <5>1
        <5>3. QED
          BY <2>0, <3>3, <5>2, LastOfPart
      <4>2. s \ {Max(s)} \in SUBSET (1..(m + 1)) /\ m + 1 \notin s \ {Max(s)}
        BY <3>3, <4>1
      <4>3. f[s] = f[s \ {Max(s)}] + chunks[Max(s)].duration
        BY <2>1, <3>3, <4>1 DEF Totals
      <4>4. g[s] = f[s]
        BY <3>3
      <4>5. g[s \ {Max(s)}] = f[s \ {Max(s)}]
        BY <4>2
      <4>6. h[s] = g[s \ {Max(s)}] + chunks[Max(s)].duration
        BY <3>3
      <4> HIDE DEF g, h
      <4>7. QED
        BY <4>3, <4>4, <4>5, <4>6
    <3>4. QED
      BY <3>1, <3>2, <3>3
  <2>3. g = h
    BY <2>2
  <2>4. Totals(g, chunks, m + 1)
    BY <2>3 DEF Totals
  <2>5. QED
    BY <2>4
<1>3. N \in SUBSET Nat
  OBVIOUS
<1> HIDE DEF N
<1>4. N = Nat
  BY <1>1, <1>2, <1>3, NumberInduction
<1>5. QED
  BY <1>4 DEF N

\* A window lasts a natural number of units.
LEMMA LengthType ==
  ASSUME NEW chunks \in Seq(Chunks)
  PROVE  Length(chunks) \in Nat
<1> DEFINE n == Len(chunks)
           f == CHOOSE f : f = [s \in SUBSET (DOMAIN chunks) |->
                  IF s = {} THEN 0 ELSE f[s \ {Max(s)}] + chunks[Max(s)].duration]
<1>1. n \in Nat /\ DOMAIN chunks = 1..n
  OBVIOUS
<1>2. \E g : Totals(g, chunks, n)
  BY <1>1, TotalsExist
<1>3. Totals(f, chunks, n)
  BY <1>1, <1>2 DEF Totals
<1>4. Length(chunks) = f[DOMAIN chunks]
  BY DEF Length, FoldLeft, MapThenFoldSet
<1> HIDE DEF f
<1> DEFINE N == {m \in Nat : m <= n => \A s \in SUBSET (1..m) : f[s] \in Nat}
<1>5. 0 \in N
  <2>1. \A s \in SUBSET (1..0) : s = {} /\ s \in SUBSET (1..n)
    BY <1>1
  <2>2. QED
    BY <1>3, <2>1 DEF Totals
<1>6. ASSUME NEW m \in N PROVE m + 1 \in N
  <2>1. SUFFICES ASSUME m + 1 <= n, NEW s \in SUBSET (1..(m + 1)) PROVE f[s] \in Nat
    OBVIOUS
  <2>2. m \in Nat /\ s \in SUBSET (1..n) /\ \A p \in SUBSET (1..m) : f[p] \in Nat
    BY <1>1, <2>1
  <2> HIDE DEF N, n
  <2>3. CASE s = {}
    BY <2>2, <2>3
  <2>4. CASE s # {}
    <3>1. Max(s) \in s /\ \A i \in s : Max(s) >= i
      <4>1. m + 1 \in Nat
        BY <2>2
      <4>2. QED
        BY <2>4, <4>1, LastOfPart
    <3>2. s \ {Max(s)} \in SUBSET (1..m)
      <4>1. \A i, last \in 1..(m + 1) : last >= i /\ i # last => i \in 1..m
        BY <2>2
      <4>2. \A i \in s \ {Max(s)} : i \in 1..m
        BY <3>1, <4>1
      <4>3. QED
        BY <4>2
    <3>3. chunks[Max(s)] \in Chunks
      <4>1. Max(s) \in DOMAIN chunks
        BY <1>1, <2>2, <3>1
      <4>2. QED
        BY <1>1, <4>1 DEF n
    <3>4. chunks[Max(s)].duration \in Nat
      BY <3>3, LiveAssumption DEF Chunks
    <3>5. f[s] = f[s \ {Max(s)}] + chunks[Max(s)].duration
      BY <1>3, <2>2, <2>4 DEF Totals
    <3>6. QED
      BY <2>2, <3>2, <3>4, <3>5
  <2>5. QED
    BY <2>3, <2>4
<1>7. N \in SUBSET Nat
  OBVIOUS
<1> HIDE DEF N
<1>8. N = Nat
  BY <1>5, <1>6, <1>7, NumberInduction
<1>9. n \in N /\ DOMAIN chunks \in SUBSET (1..n)
  BY <1>1, <1>8
<1>10. QED
  BY <1>1, <1>4, <1>9 DEF N

-----------------------------------------------------------------------------
(* Type correctness.                                                       *)

Windows == [kind : {"partial", "final"}, chunks : Seq(Chunks) \ {<< >>}]

LEMMA WindowFields ==
  ASSUME window \in {None} \cup Windows
  PROVE  /\ window # None => window \in Windows /\ window.chunks \in Seq(Chunks)
                             /\ window.chunks # << >>
                             /\ window.kind \in {"partial", "final"}
         /\ window.kind \in {"partial", "final"} => window # None
BY DEF Windows, None

LEMMA WindowType ==
  ASSUME NEW k \in {"partial", "final"}, NEW chunks \in Seq(Chunks), chunks # << >>
  PROVE  /\ [kind |-> k, chunks |-> chunks] \in Windows
         /\ [kind |-> k, chunks |-> chunks] # None
<1>1. [kind |-> k, chunks |-> chunks] \in Windows
  BY DEF Windows
<1>2. [kind |-> k, chunks |-> chunks].kind = k
  OBVIOUS
<1>3. None.kind = "none"
  BY DEF None
<1>4. QED
  BY <1>1, <1>2, <1>3

\* The two invariants of types: of the cutting and of the agreement.
CutType ==
  /\ taken \in 0..MaxChunks
  /\ voiced \subseteq 1..taken
  /\ active \in Seq(Chunks)
  /\ preroll \in Seq(Chunks)
  /\ silence \in Nat
  /\ duration \in Nat
  /\ next_partial \in Nat
  /\ window \in {None} \cup Windows
  /\ heard \in Seq(1..MaxChunks)

AgreementType ==
  /\ committed \in Seq(Characters)
  /\ committed_key \in Seq(Letters)
  /\ history \in Seq(Texts)
  /\ Len(history) <= 2
  /\ index \in Nat
  /\ revision \in Nat \ {0}
  /\ split \in BOOLEAN
  /\ sources \subseteq 1..MaxChunks
  /\ silent \subseteq 1..MaxChunks

Flags == live \in BOOLEAN /\ ended \in BOOLEAN

LEMMA TypeParts == TypeOK <=> CutType /\ AgreementType /\ Flags
BY DEF TypeOK, CutType, AgreementType, Flags, Windows

\* The window a chunk makes, and the chunk.
LEMMA Extends ==
  ASSUME CutType, ~ended, window = None, taken < MaxChunks, NEW length \in Durations
  PROVE  LET chunk == [number |-> taken + 1, duration |-> length]
         IN  /\ chunk \in Chunks /\ Extended(chunk) \in Seq(Chunks)
             /\ Extended(chunk) # << >>
<1>1. taken + 1 \in 1..MaxChunks
  BY LiveAssumption DEF CutType
<1> DEFINE chunk == [number |-> taken + 1, duration |-> length]
<1>2. chunk \in Chunks
  BY <1>1 DEF Chunks
<1> HIDE DEF chunk
<1>3. Append(preroll, chunk) \in Seq(Chunks) /\ Append(active, chunk) \in Seq(Chunks)
  BY <1>2, AppendProperties DEF CutType
<1>4. Extended(chunk) \in Seq(Chunks) /\ Extended(chunk) # << >>
  <2>1. preroll \in Seq(Chunks) /\ active \in Seq(Chunks)
    BY DEF CutType
  <2>2. Append(preroll, chunk) # << >> /\ Append(active, chunk) # << >>
    BY <1>2, <2>1
  <2>3. QED
    BY <1>3, <2>2 DEF Extended
<1>5. QED
  BY <1>2, <1>4 DEF chunk

LEMMA CutTypeNext == CutType /\ [Next]_vars => CutType'
<1> SUFFICES ASSUME CutType, [Next]_vars PROVE CutType'
  OBVIOUS
<1>1. ASSUME TakeChunk PROVE CutType'
  <2>1. PICK length \in Durations, isVoiced \in BOOLEAN :
          LET chunk == [number |-> taken + 1, duration |-> length] IN
          /\ taken' = taken + 1
          /\ voiced' = IF isVoiced THEN voiced \cup {taken + 1} ELSE voiced
          /\ IF active = << >> /\ ~isVoiced THEN Skip(chunk) ELSE Grow(chunk, isVoiced)
    BY <1>1 DEF TakeChunk
  <2> DEFINE chunk == [number |-> taken + 1, duration |-> length]
  <2>2. ~ended /\ window = None /\ taken < MaxChunks /\ heard' = heard
    BY <1>1 DEF TakeChunk
  <2>3. /\ chunk \in Chunks /\ Extended(chunk) \in Seq(Chunks)
        /\ Extended(chunk) # << >>
    BY <2>2, Extends
  <2>4. taken' \in 0..MaxChunks /\ voiced' \subseteq 1..taken'
    BY <2>1, <2>2, LiveAssumption DEF CutType
  <2>5. chunk.duration \in Nat /\ partial_seconds \in Nat
    <3>1. length \in Nat
      BY LiveAssumption
    <3>2. QED
      BY <3>1, LiveAssumption
  <2>6. IF active = << >> /\ ~isVoiced THEN Skip(chunk) ELSE Grow(chunk, isVoiced)
    BY <2>1
  <2>7. heard' \in Seq(1..MaxChunks)
    BY <2>2 DEF CutType
  <2> HIDE DEF chunk
  <2>8. CASE Skip(chunk)
    <3>1. preroll' \in Seq(Chunks)
      BY <2>3, <2>8 DEF Skip
    <3>2. QED
      BY <2>4, <2>7, <2>8, <3>1 DEF CutType, Skip
  <2>9. CASE Grow(chunk, isVoiced)
    <3> DEFINE newSilence == IF isVoiced \/ active = << >> THEN 0
                             ELSE silence + chunk.duration
               newDuration == Length(Extended(chunk))
    <3>1. newSilence \in Nat /\ newDuration \in Nat
      BY <2>3, <2>5, LengthType DEF CutType
    <3>2. CASE Finishes(newSilence, newDuration)
      <4>1. window' = [kind |-> "final", chunks |-> Extended(chunk)] /\ Reset
        BY <2>9, <3>2 DEF Grow
      <4>2. window' \in Windows
        BY <2>3, <4>1, WindowType
      <4>3. /\ active' \in Seq(Chunks) /\ preroll' \in Seq(Chunks)
            /\ silence' \in Nat /\ duration' \in Nat /\ next_partial' \in Nat
        BY <2>5, <4>1 DEF Reset
      <4>4. QED
        BY <2>4, <2>7, <4>2, <4>3 DEF CutType
    <3>3. CASE ~Finishes(newSilence, newDuration)
      <4>1. /\ active' = Extended(chunk) /\ preroll' = << >>
            /\ silence' = newSilence /\ duration' = newDuration
            /\ IF live /\ newDuration >= next_partial
               THEN /\ window' = [kind |-> "partial", chunks |-> Extended(chunk)]
                    /\ next_partial' = next_partial + partial_seconds
               ELSE UNCHANGED <<window, next_partial>>
        BY <2>9, <3>3 DEF Grow
      <4> HIDE DEF newSilence, newDuration
      <4>2. window' \in {None} \cup Windows /\ next_partial' \in Nat
        BY <2>2, <2>3, <2>5, <4>1, WindowType DEF CutType
      <4>3. active' \in Seq(Chunks) /\ preroll' \in Seq(Chunks)
        BY <2>3, <4>1
      <4>4. silence' \in Nat /\ duration' \in Nat
        BY <3>1, <4>1
      <4>5. QED
        BY <2>4, <2>7, <4>2, <4>3, <4>4 DEF CutType
    <3>4. QED
      BY <3>2, <3>3
  <2>10. QED
    BY <2>6, <2>8, <2>9
<1>2. ASSUME InputEnds PROVE CutType'
  <2>1. UNCHANGED <<taken, voiced, heard>>
    BY <1>2 DEF InputEnds
  <2>2. CASE active = << >>
    BY <1>2, <2>1, <2>2 DEF InputEnds, CutType, cutting
  <2>3. CASE active # << >>
    <3>1. window' = [kind |-> "final", chunks |-> active] /\ Reset
      BY <1>2, <2>3 DEF InputEnds
    <3>2. window' \in Windows
      BY <2>3, <3>1, WindowType DEF CutType
    <3>3. /\ active' \in Seq(Chunks) /\ preroll' \in Seq(Chunks)
          /\ silence' \in Nat /\ duration' \in Nat /\ next_partial' \in Nat
      BY <3>1, LiveAssumption DEF Reset
    <3>4. QED
      BY <2>1, <3>2, <3>3 DEF CutType
  <2>4. QED
    BY <2>2, <2>3
<1>3. ASSUME window # None
      PROVE  heard \o [i \in DOMAIN window.chunks |-> window.chunks[i].number]
               \in Seq(1..MaxChunks)
  <2>1. window.chunks \in Seq(Chunks) /\ heard \in Seq(1..MaxChunks)
    BY <1>3, WindowFields DEF CutType
  <2>2. [i \in DOMAIN window.chunks |-> window.chunks[i].number] \in Seq(1..MaxChunks)
    BY <2>1, ChunkNumbers
  <2>3. QED
    BY <2>1, <2>2, Joined
<1>4. ASSUME HearNothing PROVE CutType'
  <2>1. heard' \in Seq(1..MaxChunks)
    BY <1>3, <1>4 DEF HearNothing, CutType
  <2>2. QED
    BY <1>4, <2>1 DEF HearNothing, CutType, cutting
<1>5. ASSUME Partial PROVE CutType'
  BY <1>5 DEF Partial, CutType, cutting
<1>6. ASSUME Commit PROVE CutType'
  <2>1. heard' \in Seq(1..MaxChunks)
    BY <1>3, <1>6 DEF Commit
  <2>2. QED
    BY <1>6, <2>1 DEF Commit, CutType, cutting
<1>7. ASSUME CommitBatch PROVE CutType'
  BY <1>7 DEF CommitBatch, CutType, cutting
<1>8. ASSUME UNCHANGED vars PROVE CutType'
  BY <1>8 DEF vars, CutType, cutting
<1>9. QED
  BY <1>1, <1>2, <1>4, <1>5, <1>6, <1>7, <1>8 DEF Next

-----------------------------------------------------------------------------
(* Agreement.                                                              *)

\* The latest two hypotheses.
LEMMA LatestType ==
  ASSUME NEW hypotheses \in Seq(Texts), Len(hypotheses) <= 2, NEW text \in Texts
  PROVE  /\ Latest(hypotheses, text) \in Seq(Texts)
         /\ Len(Latest(hypotheses, text)) \in 1..2
<1>1. Len(hypotheses) \in Nat
  OBVIOUS
<1>2. CASE Len(hypotheses) = 2
  <2>1. hypotheses[2] \in Texts
    BY <1>2
  <2>2. <<hypotheses[2], text>> \in Seq(Texts) /\ Len(<<hypotheses[2], text>>) = 2
    BY <2>1
  <2>3. QED
    BY <1>2, <2>2 DEF Latest
<1>3. CASE Len(hypotheses) # 2
  <2>1. /\ Append(hypotheses, text) \in Seq(Texts)
        /\ Len(Append(hypotheses, text)) = Len(hypotheses) + 1
    BY AppendProperties
  <2>2. Len(hypotheses) + 1 \in 1..2
    <3>1. \A n \in Nat : n <= 2 /\ n # 2 => n + 1 \in 1..2
      OBVIOUS
    <3>2. QED
      BY <1>1, <1>3, <3>1, Zenon
  <2>3. Latest(hypotheses, text) = Append(hypotheses, text)
    BY <1>3 DEF Latest
  <2>4. QED
    BY <2>1, <2>2, <2>3
<1>4. QED
  BY <1>2, <1>3

\* What they agree on is a common prefix of both, and nothing if there are no two.
LEMMA AgreedKey ==
  ASSUME NEW hypotheses \in Seq(Texts)
  PROVE  /\ agreed_key(hypotheses) \in Seq(Letters)
         /\ Len(hypotheses) < 2 => agreed_key(hypotheses) = << >>
         /\ ~(Len(hypotheses) < 2) =>
              /\ IsPrefix(agreed_key(hypotheses), Key(hypotheses[1]))
              /\ IsPrefix(agreed_key(hypotheses), Key(hypotheses[2]))
<1>1. CASE Len(hypotheses) < 2
  <2>1. << >> \in Seq(Letters)
    BY EmptySeq
  <2>2. QED
    BY <1>1, <2>1 DEF agreed_key
<1>2. CASE ~(Len(hypotheses) < 2)
  <2>1. hypotheses[1] \in Texts /\ hypotheses[2] \in Texts
    BY <1>2
  <2>2. hypotheses[1] \in Seq(Characters) /\ hypotheses[2] \in Seq(Characters)
    BY <2>1, LiveAssumption
  <2>3. Key(hypotheses[1]) \in Seq(Letters) /\ Key(hypotheses[2]) \in Seq(Letters)
    BY <2>2, KeyType
  <2>4. agreed_key(hypotheses) = common_prefix(Key(hypotheses[1]), Key(hypotheses[2]))
    BY <1>2 DEF agreed_key
  <2>5. QED
    BY <1>2, <2>3, <2>4, CommonPrefix
<1>3. QED
  BY <1>1, <1>2

\* A prefix is the beginning of a given length.
LEMMA PrefixIsBeginning ==
  ASSUME NEW T, NEW a \in Seq(T), NEW b \in Seq(T), IsPrefix(a, b)
  PROVE  Len(a) \in 0..Len(b) /\ a = SubSeq(b, 1, Len(a))
<1>1. Len(a) \in Nat /\ Len(b) \in Nat /\ a = SubSeq(a, 1, Len(a))
  BY SubSeqFull
<1>2. QED
  BY <1>1 DEF IsPrefix

\* What update commits for a hypothesis that is not final.
Delta(text) ==
  LET latest == Latest(history, text)
      agreed == agreed_key(latest)
  IN  IF IsStrictPrefix(committed_key, agreed)
      THEN _suffix_after_normalized(
             _prefix_through_normalized(latest[1], Len(agreed)), Len(committed_key))
      ELSE << >>

\* It is cut inside a character.
CutInside(text) ==
  LET latest == Latest(history, text)
      agreed == agreed_key(latest)
  IN  \/ Splits(latest[1], Len(agreed))
      \/ Splits(_prefix_through_normalized(latest[1], Len(agreed)), Len(committed_key))

LEMMA UpdateIs ==
  ASSUME NEW text, UpdatePartial(text)
  PROVE  /\ history' = Latest(history, text)
         /\ committed' = committed \o Delta(text)
         /\ committed_key' = IF Delta(text) # << >> THEN agreed_key(Latest(history, text))
                             ELSE committed_key
         /\ split' = (split \/ (Delta(text) # << >> /\ CutInside(text)))
         /\ sources' = sources \cup {window.chunks[1].number}
BY DEF UpdatePartial, Delta, CutInside

LEMMA DeltaType ==
  ASSUME AgreementType, NEW text \in Texts
  PROVE  Delta(text) \in Seq(Characters)
<1> DEFINE latest == Latest(history, text)
           agreed == agreed_key(latest)
<1>1. latest \in Seq(Texts) /\ Len(latest) \in 1..2
  BY LatestType DEF AgreementType
<1> HIDE DEF latest
<1>2. agreed \in Seq(Letters) /\ Len(agreed) \in Nat
  BY <1>1, AgreedKey, LenProperties
<1>3. latest[1] \in Seq(Characters)
  <2>1. latest[1] \in Texts
    BY <1>1
  <2>2. QED
    BY <2>1, LiveAssumption
<1>4. _prefix_through_normalized(latest[1], Len(agreed)) \in Seq(Characters)
  BY <1>2, <1>3, CutTexts
<1>5. Len(committed_key) \in Nat
  BY LenProperties DEF AgreementType
<1>6. _suffix_after_normalized(_prefix_through_normalized(latest[1], Len(agreed)),
                               Len(committed_key)) \in Seq(Characters)
  BY <1>4, <1>5, CutTexts
<1>7. << >> \in Seq(Characters)
  BY EmptySeq
<1>8. QED
  BY <1>6, <1>7 DEF Delta, latest

\* The agreed key goes on where the committed one ends, if anything is committed.
LEMMA AgreedExtends ==
  ASSUME AgreementType, NEW text \in Texts, Delta(text) # << >>
  PROVE  LET latest == Latest(history, text)
         IN  /\ IsStrictPrefix(committed_key, agreed_key(latest))
             /\ Len(latest) = 2
             /\ \A i \in 1..2 : IsPrefix(agreed_key(latest), Key(latest[i]))
<1> DEFINE latest == Latest(history, text)
<1>1. latest \in Seq(Texts) /\ Len(latest) \in 1..2
  BY LatestType DEF AgreementType
<1>2. IsStrictPrefix(committed_key, agreed_key(latest))
  BY DEF Delta
<1> HIDE DEF latest
<1>3. agreed_key(latest) # << >>
  <2>1. Len(committed_key) \in Nat /\ committed_key \in Seq(Letters)
    BY LenProperties DEF AgreementType
  <2>2. SUFFICES ASSUME agreed_key(latest) = << >> PROVE FALSE
    OBVIOUS
  <2>3. Len(committed_key) = 0 /\ committed_key # << >>
    BY <1>2, <2>1, <2>2 DEF IsStrictPrefix, IsPrefix
  <2>4. QED
    BY <2>1, <2>3
<1>4. ~(Len(latest) < 2)
  BY <1>1, <1>3, AgreedKey
<1>5. Len(latest) = 2
  BY <1>1, <1>4
<1>6. \A i \in 1..2 : i = 1 \/ i = 2
  OBVIOUS
<1>7. \A i \in 1..2 : IsPrefix(agreed_key(latest), Key(latest[i]))
  BY <1>1, <1>4, <1>6, AgreedKey
<1>8. QED
  BY <1>2, <1>5, <1>7 DEF latest

\* A window starts with a chunk of the input.
LEMMA WindowStart ==
  ASSUME CutType, window # None
  PROVE  window.chunks[1].number \in 1..MaxChunks
<1>1. window.chunks \in Seq(Chunks) /\ window.chunks # << >>
  BY WindowFields DEF CutType
<1>2. 1 \in DOMAIN window.chunks
  BY <1>1
<1>3. QED
  BY <1>1, <1>2, ChunkFields

LEMMA AgreementTypeNext == CutType /\ AgreementType /\ [Next]_vars => AgreementType'
<1> SUFFICES ASSUME CutType, AgreementType, [Next]_vars PROVE AgreementType'
  OBVIOUS
<1>0. ASSUME TakeChunk \/ InputEnds \/ UNCHANGED vars PROVE AgreementType'
  BY <1>0 DEF TakeChunk, InputEnds, vars, agreement, AgreementType
<1>1. ASSUME HearNothing PROVE AgreementType'
  <2>1. silent' \subseteq 1..MaxChunks
    BY <1>1, WindowStart DEF HearNothing, AgreementType
  <2>2. QED
    BY <1>1, <2>1 DEF HearNothing, agreement, AgreementType
<1>2. ASSUME Partial PROVE AgreementType'
  <2>1. PICK text \in Texts \ {<< >>} : UpdatePartial(text)
    BY <1>2 DEF Partial
  <2>2. revision' = revision + 1 /\ index' = index
    BY <1>2 DEF Partial
  <2>3. Latest(history, text) \in Seq(Texts) /\ Len(Latest(history, text)) \in 1..2
    BY LatestType DEF AgreementType
  <2>4. history' \in Seq(Texts) /\ Len(history') <= 2
    <3>1. history' = Latest(history, text)
      BY <2>1, UpdateIs
    <3>2. \A n \in 1..2 : n <= 2
      OBVIOUS
    <3>3. QED
      BY <2>3, <3>1, <3>2
  <2>5. committed' \in Seq(Characters)
    <3>1. committed' = committed \o Delta(text)
      BY <2>1, UpdateIs
    <3>2. Delta(text) \in Seq(Characters)
      BY DeltaType
    <3>3. QED
      BY <3>1, <3>2, Joined DEF AgreementType
  <2>6. committed_key' \in Seq(Letters)
    BY <2>1, <2>3, UpdateIs, AgreedKey DEF AgreementType
  <2>7. index' \in Nat /\ revision' \in Nat \ {0}
    BY <2>2 DEF AgreementType
  <2>8. split' \in BOOLEAN
    BY <2>1, UpdateIs DEF AgreementType
  <2>9. sources' \subseteq 1..MaxChunks /\ silent' \subseteq 1..MaxChunks
    <3>1. window.chunks[1].number \in 1..MaxChunks
      BY <1>2, WindowStart DEF Partial
    <3>2. silent' = silent
      BY <1>2 DEF Partial
    <3>3. QED
      BY <2>1, <3>1, <3>2, UpdateIs DEF AgreementType
  <2>10. QED
    BY <2>4, <2>5, <2>6, <2>7, <2>8, <2>9 DEF AgreementType
<1>3. ASSUME Commit PROVE AgreementType'
  <2>1. /\ committed' = << >> /\ committed_key' = << >> /\ history' = << >>
        /\ index' = index + 1 /\ revision' = 1
        /\ split' = FALSE /\ sources' = {} /\ silent' = {}
    BY <1>3 DEF Commit
  <2>2. committed' \in Seq(Characters) /\ committed_key' \in Seq(Letters)
        /\ history' \in Seq(Texts) /\ Len(history') = 0
    BY <2>1, EmptySeq
  <2>3. /\ index' \in Nat /\ revision' \in Nat \ {0} /\ Len(history') <= 2
        /\ sources' \subseteq 1..MaxChunks /\ silent' \subseteq 1..MaxChunks
    BY <2>1, <2>2 DEF AgreementType
  <2>4. split' \in BOOLEAN
    BY <2>1
  <2>5. QED
    BY <2>2, <2>3, <2>4, Zenon DEF AgreementType
<1>4. ASSUME CommitBatch PROVE AgreementType'
  BY <1>4 DEF CommitBatch, agreement, AgreementType
<1>5. QED
  BY <1>0, <1>1, <1>2, <1>3, <1>4 DEF Next

LEMMA FlagsNext == Flags /\ [Next]_vars => Flags'
BY DEF Next, TakeChunk, InputEnds, HearNothing, Partial, Commit, CommitBatch, vars, Flags

LEMMA InitTypes == Init => TypeOK
<1> SUFFICES ASSUME Init PROVE CutType /\ AgreementType /\ Flags
  BY TypeParts
<1>1. << >> \in Seq(Chunks) /\ << >> \in Seq(1..MaxChunks) /\ << >> \in Seq(Characters)
      /\ << >> \in Seq(Letters) /\ << >> \in Seq(Texts) /\ Len(<< >>) = 0
  BY EmptySeq
<1>2. CutType
  BY <1>1, LiveAssumption DEF Init, CutType
<1>3. AgreementType
  <2>1. split \in BOOLEAN
    BY DEF Init
  <2>2. /\ index \in Nat /\ revision \in Nat \ {0} /\ Len(history) <= 2
        /\ sources \subseteq 1..MaxChunks /\ silent \subseteq 1..MaxChunks
    BY <1>1 DEF Init
  <2>3. committed \in Seq(Characters) /\ committed_key \in Seq(Letters)
        /\ history \in Seq(Texts)
    BY <1>1 DEF Init
  <2>4. QED
    BY <2>1, <2>2, <2>3, Zenon DEF AgreementType
<1>4. QED
  BY <1>2, <1>3 DEF Init, Flags

\* The windows, the texts and the counters keep their types: durations add up
\* to natural numbers, and cut texts are texts.  live_windows, session.py:89;
\* LocalAgreement.update, stabilizer.py:67.
THEOREM TypeCorrect == Spec => []TypeOK
<1>1. Init => TypeOK
  BY InitTypes
<1>2. TypeOK /\ [Next]_vars => TypeOK'
  <2> SUFFICES ASSUME TypeOK, [Next]_vars PROVE TypeOK'
    OBVIOUS
  <2>1. CutType /\ AgreementType /\ Flags
    BY TypeParts
  <2>2. CutType' /\ AgreementType' /\ Flags'
    BY <2>1, CutTypeNext, AgreementTypeNext, FlagsNext
  <2>3. QED
    BY <2>2 DEF TypeOK, CutType, AgreementType, Flags, Windows
<1>3. QED
  BY <1>1, <1>2, PTL DEF Spec

\* A partial hypothesis leaves the committed key the key of the committed text,
\* unless it is cut inside a character.
LEMMA PartialKeepsKey ==
  ASSUME AgreementType, committed_key = Key(committed), Partial, ~split'
  PROVE  committed_key' = Key(committed')
<1>1. PICK text \in Texts \ {<< >>} : UpdatePartial(text)
  BY DEF Partial
<1>2. CASE Delta(text) = << >>
  <2>1. committed \o << >> = committed
    BY ConcatEmptySeq DEF AgreementType
  <2>2. committed' = committed /\ committed_key' = committed_key
    BY <1>1, <1>2, <2>1, UpdateIs
  <2>3. QED
    BY <2>2
<1>3. CASE Delta(text) # << >>
  <2> DEFINE latest == Latest(history, text)
             agreed == agreed_key(latest)
             front == _prefix_through_normalized(latest[1], Len(agreed))
  <2>1. /\ IsStrictPrefix(committed_key, agreed) /\ Len(latest) = 2
        /\ IsPrefix(agreed, Key(latest[1]))
    BY <1>3, AgreedExtends
  <2>2. latest \in Seq(Texts)
    BY LatestType DEF AgreementType
  <2>3. Delta(text) = _suffix_after_normalized(front, Len(committed_key))
    BY <2>1 DEF Delta
  <2>4. committed' = committed \o Delta(text) /\ committed_key' = agreed
    BY <1>1, <1>3, UpdateIs
  <2> HIDE DEF latest
  <2>5. agreed \in Seq(Letters)
    BY <2>2, AgreedKey
  <2>6. latest[1] \in Seq(Characters)
    <3>1. latest[1] \in Texts
      BY <2>1, <2>2
    <3>2. QED
      BY <3>1, LiveAssumption
  <2> HIDE DEF agreed
  <2>7. Key(latest[1]) \in Seq(Letters)
    BY <2>6, KeyType
  <2>8. /\ Len(agreed) \in 0..Len(Key(latest[1]))
        /\ agreed = SubSeq(Key(latest[1]), 1, Len(agreed))
    BY <2>1, <2>5, <2>7, PrefixIsBeginning
  <2>0. ~Splits(latest[1], Len(agreed)) /\ ~Splits(front, Len(committed_key))
    BY <1>1, <1>3, UpdateIs DEF CutInside, latest, agreed
  <2>9. Key(front) = agreed
    BY <2>0, <2>6, <2>8, CutKeys
  <2>10. front \in Seq(Characters)
    BY <2>6, <2>8, CutTexts
  <2> HIDE DEF front
  <2>11. Len(committed_key) \in 0..Len(agreed)
         /\ committed_key = SubSeq(agreed, 1, Len(committed_key))
    BY <2>1, <2>5, PrefixIsBeginning DEF IsStrictPrefix, AgreementType
  <2>12. agreed = committed_key \o Key(Delta(text))
    BY <2>0, <2>3, <2>9, <2>10, <2>11, CutKeys
  <2>13. Delta(text) \in Seq(Characters) /\ committed \in Seq(Characters)
    BY DeltaType DEF AgreementType
  <2>14. Key(committed \o Delta(text)) = Key(committed) \o Key(Delta(text))
    BY <2>13, KeyOfJoined
  <2>15. QED
    BY <2>4, <2>12, <2>14
<1>4. QED
  BY <1>2, <1>3

\* The final text has the key of the last hypothesis.
LEMMA FinalTextKey ==
  ASSUME AgreementType, committed_key = Key(committed), NEW text \in Texts,
         ~(IsPrefix(committed_key, Key(text)) /\ Splits(text, Len(committed_key)))
  PROVE  Key(FinalText(text)) = Key(text)
<1>1. text \in Seq(Characters) /\ committed \in Seq(Characters)
  BY LiveAssumption DEF AgreementType
<1>2. CASE IsPrefix(committed_key, Key(text))
  <2> DEFINE rest == _suffix_after_normalized(text, Len(committed_key))
  <2>1. Key(text) \in Seq(Letters) /\ committed_key \in Seq(Letters)
    BY <1>1, KeyType DEF AgreementType
  <2>2. Len(committed_key) \in 0..Len(Key(text))
        /\ committed_key = SubSeq(Key(text), 1, Len(committed_key))
    BY <1>2, <2>1, PrefixIsBeginning
  <2>3. Key(text) = committed_key \o Key(rest)
    BY <1>1, <1>2, <2>2, CutKeys
  <2>4. rest \in Seq(Characters)
    BY <1>1, <2>2, CutTexts
  <2>5. FinalText(text) = committed \o rest
    BY <1>2 DEF FinalText
  <2> HIDE DEF rest
  <2>6. Key(committed \o rest) = Key(committed) \o Key(rest)
    BY <1>1, <2>4, KeyOfJoined
  <2>7. QED
    BY <2>3, <2>5, <2>6
<1>3. CASE ~IsPrefix(committed_key, Key(text))
  BY <1>3 DEF FinalText
<1>4. QED
  BY <1>2, <1>3

LEMMA AgreementNext ==
  TypeOK /\ AgreementInv /\ [Next]_vars => AgreementInv'
<1> SUFFICES ASSUME AgreementType, AgreementInv, [Next]_vars, ~split'
             PROVE  committed_key' = Key(committed')
  BY TypeParts DEF AgreementInv
<1>1. ASSUME ~split PROVE committed_key = Key(committed)
  BY <1>1 DEF AgreementInv
<1>2. CASE TakeChunk \/ InputEnds \/ HearNothing \/ CommitBatch \/ UNCHANGED vars
  <2>1. committed' = committed /\ committed_key' = committed_key /\ split' = split
    BY <1>2 DEF TakeChunk, InputEnds, HearNothing, CommitBatch, vars, agreement
  <2>2. QED
    BY <1>1, <2>1
<1>3. CASE Partial
  <2>1. PICK text \in Texts \ {<< >>} : UpdatePartial(text)
    BY <1>3 DEF Partial
  <2>2. ~split
    BY <2>1, UpdateIs
  <2>3. QED
    BY <1>1, <1>3, <2>2, PartialKeepsKey
<1>4. CASE Commit
  <2>1. committed' = << >> /\ committed_key' = << >>
    BY <1>4 DEF Commit
  <2>2. QED
    BY <2>1, KeyOfNothing
<1>5. QED
  BY <1>2, <1>3, <1>4 DEF Next

\* The committed key is the key of the committed text, for any alphabet, folding,
\* texts and lengths, unless an agreement was cut inside a character that folds
\* to several letters.  LocalAgreement.update, stabilizer.py:67.
THEOREM AgreementInvariant == Spec => []AgreementInv
<1>1. Init => AgreementInv
  <2>1. SUFFICES ASSUME Init PROVE AgreementInv
    OBVIOUS
  <2>2. committed = << >> /\ committed_key = << >>
    BY <2>1 DEF Init
  <2>3. QED
    BY <2>2, KeyOfNothing DEF AgreementInv
<1>2. TypeOK /\ AgreementInv /\ [Next]_vars => AgreementInv'
  BY AgreementNext
<1>3. QED
  BY <1>1, <1>2, TypeCorrect, PTL DEF Spec

\* A commit repeats the last hypothesis, punctuation and case aside, for any
\* alphabet, folding, texts and lengths, unless a character that folds to several
\* letters is cut between them.  LocalAgreement.update, stabilizer.py:67.
THEOREM CommitsSayTheHypothesis == Spec => CommitSaysFinalHypothesis
<1> DEFINE Says == Commit => \/ Key(event'.text) = Key(event'.hypothesis)
                             \/ split
                             \/ /\ IsPrefix(committed_key, Key(event'.hypothesis))
                                /\ Splits(event'.hypothesis, Len(committed_key))
<1>1. TypeOK /\ AgreementInv /\ [Next]_vars => [Says]_vars
  <2> SUFFICES ASSUME TypeOK, AgreementInv, Commit, ~split,
                      ~(/\ IsPrefix(committed_key, Key(event'.hypothesis))
                        /\ Splits(event'.hypothesis, Len(committed_key)))
               PROVE  Key(event'.text) = Key(event'.hypothesis)
    OBVIOUS
  <2>1. PICK text \in Texts \ {<< >>} : Yield("commit", FinalText(text), text)
    BY DEF Commit
  <2>2. event'.text = FinalText(text) /\ event'.hypothesis = text
    BY <2>1 DEF Yield
  <2>3. AgreementType /\ committed_key = Key(committed)
    BY TypeParts DEF AgreementInv
  <2>4. QED
    BY <2>2, <2>3, FinalTextKey
<1>2. QED
  BY <1>1, TypeCorrect, AgreementInvariant, PTL DEF Spec, CommitSaysFinalHypothesis

-----------------------------------------------------------------------------
(* Speech.                                                                 *)

Pending == IF window = None THEN {} ELSE Numbers(window.chunks)
Covered == voiced \subseteq Range(heard) \cup Numbers(active) \cup Pending
Increasing == \A i, j \in DOMAIN heard : i < j => heard[i] < heard[j]

\* A contiguous window ends with its largest number.
LEMMA LastIsLargest ==
  ASSUME NEW chunks \in Seq(Chunks), Contiguous(chunks), chunks # << >>
  PROVE  \A n \in Numbers(chunks) : n <= chunks[Len(chunks)].number
<1>1. Len(chunks) \in Nat \ {0} /\ DOMAIN chunks = 1..Len(chunks)
  OBVIOUS
<1>2. 1 \in DOMAIN chunks /\ Len(chunks) \in DOMAIN chunks
  BY <1>1
<1>3. chunks[1].number \in Int
  BY <1>2, ChunkFields
<1>4. chunks[Len(chunks)].number = chunks[1].number + Len(chunks) - 1
  BY <1>2 DEF Contiguous
<1>5. ASSUME NEW i \in DOMAIN chunks PROVE chunks[i].number <= chunks[Len(chunks)].number
  <2>1. chunks[i].number = chunks[1].number + i - 1 /\ i \in 1..Len(chunks)
    BY <1>1 DEF Contiguous
  <2>2. QED
    BY <1>1, <1>3, <1>4, <2>1
<1>6. QED
  BY <1>5 DEF Numbers

LEMMA EmptyWindow ==
  Numbers(<< >>) = {} /\ Contiguous(<< >>)
BY DEF Numbers, Contiguous

\* The window that a chunk extends.
LEMMA ExtendedWindow ==
  ASSUME CutType, OpenWindow, Remembered, ~ended, window = None, taken < MaxChunks,
         NEW length \in Durations
  PROVE  LET chunk  == [number |-> taken + 1, duration |-> length]
             chunks == Extended(chunk)
         IN  /\ chunks \in Seq(Chunks) /\ chunks # << >>
             /\ Contiguous(chunks) /\ chunks[Len(chunks)].number = taken + 1
             /\ Numbers(chunks) = Numbers(active) \cup Numbers(preroll) \cup {taken + 1}
<1> DEFINE chunk == [number |-> taken + 1, duration |-> length]
<1>1. chunk \in Chunks /\ chunk.number = taken + 1
  BY Extends
<1> HIDE DEF chunk
<1>2. active \in Seq(Chunks) /\ preroll \in Seq(Chunks) /\ taken \in Int
  BY LiveAssumption DEF CutType
<1>3. CASE active = << >>
  <2>1. Contiguous(preroll)
    <3>1. CASE preroll = << >>
      BY <3>1, EmptyWindow
    <3>2. CASE preroll # << >>
      <4>1. Len(preroll) = 1 /\ DOMAIN preroll = 1..1 /\ preroll[1] \in Chunks
        BY <1>2, <3>2 DEF Remembered
      <4>2. \A i \in 1..1 : i = 1
        OBVIOUS
      <4>3. preroll[1].number \in Int
        BY <4>1, ChunkFields
      <4>4. QED
        BY <4>1, <4>2, <4>3 DEF Contiguous
    <3>3. QED
      BY <3>1, <3>2
  <2>2. preroll # << >> => chunk.number = preroll[Len(preroll)].number + 1
    BY <1>1, <1>2 DEF Remembered
  <2>3. Extended(chunk) = Append(preroll, chunk)
    BY <1>3 DEF Extended
  <2>4. Numbers(active) = {}
    BY <1>3, EmptyWindow
  <2>5. /\ Append(preroll, chunk) \in Seq(Chunks) /\ Append(preroll, chunk) # << >>
        /\ Append(preroll, chunk)[Len(Append(preroll, chunk))] = chunk
        /\ Numbers(Append(preroll, chunk)) = Numbers(preroll) \cup {chunk.number}
        /\ Contiguous(Append(preroll, chunk))
    BY <1>1, <1>2, <2>1, <2>2, Appended
  <2>6. QED
    BY <1>1, <2>3, <2>4, <2>5 DEF chunk
<1>4. CASE active # << >>
  <2>1. Numbers(preroll) = {}
    BY <1>4, EmptyWindow DEF Remembered
  <2>2. Contiguous(active) /\ chunk.number = active[Len(active)].number + 1
    BY <1>1, <1>4 DEF OpenWindow
  <2>3. Extended(chunk) = Append(active, chunk)
    BY <1>4 DEF Extended
  <2>4. /\ Append(active, chunk) \in Seq(Chunks) /\ Append(active, chunk) # << >>
        /\ Append(active, chunk)[Len(Append(active, chunk))] = chunk
        /\ Numbers(Append(active, chunk)) = Numbers(active) \cup {chunk.number}
        /\ Contiguous(Append(active, chunk))
    BY <1>1, <1>2, <2>2, Appended
  <2>5. QED
    BY <1>1, <2>1, <2>3, <2>4 DEF chunk
<1>5. QED
  BY <1>3, <1>4

\* What was heard are numbers of chunks.
LEMMA HeardNumber ==
  ASSUME CutType, NEW i \in DOMAIN heard
  PROVE  heard[i] \in 1..MaxChunks /\ heard[i] \in Int
<1> DEFINE all == 1..MaxChunks
<1>1. heard \in Seq(all)
  BY DEF CutType
<1>2. \A n \in all : n \in Int
  BY LiveAssumption
<1> HIDE DEF all
<1>3. heard[i] \in all
  BY <1>1
<1>4. QED
  BY <1>2, <1>3 DEF all

\* The six parts of the invariant.
CutParts == OpenWindow /\ Remembered /\ Yielded /\ HeardBefore /\ Covered /\ Increasing

LEMMA TakeChunkCuts ==
  ASSUME CutType, CutParts, TakeChunk
  PROVE  CutParts'
<1>1. PICK length \in Durations, isVoiced \in BOOLEAN :
        LET chunk == [number |-> taken + 1, duration |-> length] IN
        /\ taken' = taken + 1
        /\ voiced' = IF isVoiced THEN voiced \cup {taken + 1} ELSE voiced
        /\ IF active = << >> /\ ~isVoiced THEN Skip(chunk) ELSE Grow(chunk, isVoiced)
  BY DEF TakeChunk
<1> DEFINE chunk == [number |-> taken + 1, duration |-> length]
           chunks == Extended(chunk)
<1>2. ~ended /\ window = None /\ taken < MaxChunks /\ heard' = heard
      /\ taken' = taken + 1 /\ taken \in Int
  BY <1>1, LiveAssumption DEF TakeChunk, CutType
<1>3. /\ chunks \in Seq(Chunks) /\ chunks # << >>
      /\ Contiguous(chunks) /\ chunks[Len(chunks)].number = taken + 1
      /\ Numbers(chunks) = Numbers(active) \cup Numbers(preroll) \cup {taken + 1}
  BY <1>2, ExtendedWindow DEF CutParts
<1>4. chunk \in Chunks /\ chunk.number = taken + 1
  BY <1>2, Extends
<1>5. IF active = << >> /\ ~isVoiced THEN Skip(chunk) ELSE Grow(chunk, isVoiced)
  BY <1>1
<1>6. voiced' = IF isVoiced THEN voiced \cup {taken + 1} ELSE voiced
  BY <1>1
<1> HIDE DEF chunk, chunks
<1>7. ASSUME NEW i \in DOMAIN heard
      PROVE  /\ heard[i] <= taken' /\ heard[i] \in Int
             /\ heard[i] < taken + 1
             /\ \A n \in Numbers(active) \cup Numbers(preroll) : heard[i] < n
  <2>1. heard[i] \in Int
    BY HeardNumber
  <2>2. heard[i] <= taken
    BY DEF CutParts, HeardBefore
  <2>3. QED
    BY <1>2, <2>1, <2>2 DEF CutParts, HeardBefore
<1>8. Increasing'
  BY <1>2 DEF CutParts, Increasing
<1>9. CASE active = << >> /\ Skip(chunk) /\ ~isVoiced
  <2>1. preroll' = <<chunk>> /\ active' = active /\ window' = window
    BY <1>9 DEF Skip
  <2>2. Len(preroll') = 1 /\ preroll'[1] = chunk /\ DOMAIN preroll' = 1..1
    BY <2>1
  <2>3. Numbers(preroll') = {taken + 1}
    <3>1. \A i \in 1..1 : i = 1
      OBVIOUS
    <3>2. 1 \in 1..1
      OBVIOUS
    <3>3. QED
      BY <1>4, <2>2, <3>1, <3>2 DEF Numbers
  <2>4. OpenWindow'
    BY <1>9, <2>1, EmptyWindow DEF OpenWindow
  <2>5. Remembered'
    BY <1>2, <1>4, <1>9, <2>1, <2>2 DEF Remembered
  <2>6. Yielded'
    BY <1>2, <2>1 DEF Yielded, None
  <2>7. HeardBefore'
    BY <1>2, <1>7, <2>1, <2>3 DEF HeardBefore
  <2>8. Covered'
    BY <1>2, <1>6, <1>9, <2>1 DEF CutParts, Covered, Pending
  <2>9. QED
    BY <1>8, <2>4, <2>5, <2>6, <2>7, <2>8 DEF CutParts
<1>10. CASE Grow(chunk, isVoiced)
  <2> DEFINE newSilence == IF isVoiced \/ active = << >> THEN 0 ELSE silence + chunk.duration
             newDuration == Length(chunks)
  <2>1. \/ window' = [kind |-> "final", chunks |-> chunks] /\ Reset
        \/ /\ active' = chunks /\ preroll' = << >>
           /\ window' = [kind |-> "partial", chunks |-> chunks] \/ window' = window
    BY <1>10 DEF Grow, chunks
  <2>2. voiced \subseteq Range(heard) \cup Numbers(active)
    BY <1>2 DEF CutParts, Covered, Pending
  <2>3. voiced' \subseteq Range(heard) \cup Numbers(chunks)
    BY <1>3, <1>6, <2>2
  <2>4. \A i \in DOMAIN heard : \A n \in Numbers(chunks) : heard[i] < n
    BY <1>3, <1>7
  <2>5. CASE window' = [kind |-> "final", chunks |-> chunks] /\ Reset
    <3>1. /\ window'.kind = "final" /\ window'.chunks = chunks /\ window' # None
          /\ active' = << >> /\ preroll' = << >>
      BY <1>3, <2>5, WindowType DEF Reset
    <3>2. Numbers(active') = {} /\ Numbers(preroll') = {} /\ Contiguous(active')
      BY <3>1, EmptyWindow
    <3>3. Numbers(chunks) \subseteq 1..taken'
      <4>1. \A n \in Numbers(chunks) : n <= taken + 1 /\ n \in 1..MaxChunks
        BY <1>3, LastIsLargest, ChunkNumbers
      <4>2. QED
        BY <1>2, <4>1, LiveAssumption
    <3>4. OpenWindow' /\ Remembered'
      BY <3>1, <3>2 DEF OpenWindow, Remembered
    <3>5. Yielded'
      BY <1>3, <3>1, <3>3 DEF Yielded
    <3>6. HeardBefore'
      BY <1>2, <1>7, <2>4, <3>1, <3>2 DEF HeardBefore
    <3>7. Covered'
      BY <1>2, <2>3, <3>1 DEF Covered, Pending
    <3>8. QED
      BY <1>8, <3>4, <3>5, <3>6, <3>7 DEF CutParts
  <2>6. CASE /\ active' = chunks /\ preroll' = << >>
             /\ window' = [kind |-> "partial", chunks |-> chunks] \/ window' = window
    <3>1. Numbers(active') = Numbers(chunks) /\ Numbers(preroll') = {}
      BY <2>6, EmptyWindow
    <3>2. window' # None => window'.chunks = chunks
      BY <1>2, <2>6
    <3>3. OpenWindow'
      BY <1>2, <1>3, <2>6 DEF OpenWindow
    <3>4. Remembered'
      BY <2>6 DEF Remembered
    <3>5. Yielded'
      BY <1>2, <2>6 DEF Yielded, None
    <3>6. HeardBefore'
      BY <1>2, <1>7, <2>4, <3>1, <3>2 DEF HeardBefore
    <3>7. Covered'
      BY <1>2, <2>3, <3>1 DEF Covered
    <3>8. QED
      BY <1>8, <3>3, <3>4, <3>5, <3>6, <3>7 DEF CutParts
  <2>7. QED
    BY <2>1, <2>5, <2>6
<1>11. QED
  BY <1>5, <1>9, <1>10

\* A joined sequence is made of its parts.
LEMMA JoinedParts ==
  ASSUME NEW T, NEW a \in Seq(T), NEW b \in Seq(T)
  PROVE  /\ \A k \in DOMAIN (a \o b) :
              \/ k \in DOMAIN a /\ (a \o b)[k] = a[k]
              \/ k - Len(a) \in DOMAIN b /\ (a \o b)[k] = b[k - Len(a)] /\ k > Len(a)
         /\ DOMAIN (a \o b) \subseteq Int /\ DOMAIN a \subseteq 1..Len(a)
         /\ Range(a \o b) = Range(a) \cup Range(b)
<1> DEFINE c == a \o b
           n == Len(a)
           m == Len(b)
<1>1. /\ n \in Nat /\ m \in Nat /\ DOMAIN a = 1..n /\ DOMAIN b = 1..m
      /\ DOMAIN c = 1..(n + m)
  OBVIOUS
<1>2. /\ \A i \in 1..n : c[i] = a[i]
      /\ \A i \in 1..m : c[n + i] = b[i]
  BY Joined
<1> HIDE DEF c, n, m
<1>3. ASSUME NEW k \in DOMAIN c
      PROVE  \/ k \in DOMAIN a /\ c[k] = a[k]
             \/ k - n \in DOMAIN b /\ c[k] = b[k - n] /\ k > n
  <2>1. CASE k <= n
    BY <1>1, <1>2, <2>1
  <2>2. CASE k > n
    <3>1. k - n \in 1..m /\ n + (k - n) = k
      BY <1>1, <2>2
    <3>2. QED
      BY <1>1, <1>2, <2>2, <3>1
  <2>3. QED
    BY <1>1, <2>1, <2>2
<1>4. Range(c) \subseteq Range(a) \cup Range(b)
  BY <1>3 DEF Range
<1>5. Range(a) \subseteq Range(c)
  <2>1. \A i \in DOMAIN a : i \in DOMAIN c /\ c[i] = a[i]
    BY <1>1, <1>2
  <2>2. QED
    BY <2>1 DEF Range
<1>6. Range(b) \subseteq Range(c)
  <2>1. \A i \in DOMAIN b : n + i \in DOMAIN c /\ c[n + i] = b[i]
    BY <1>1, <1>2
  <2>2. QED
    BY <2>1 DEF Range
<1>7. DOMAIN c \subseteq Int
  BY <1>1
<1>8. QED
  BY <1>1, <1>3, <1>4, <1>5, <1>6, <1>7 DEF c, n

\* The chunks of a final window have been handed to the backend.
LEMMA FinalIsHeard ==
  ASSUME CutType, CutParts, window # None, window.kind = "final",
         heard' = heard \o [i \in DOMAIN window.chunks |-> window.chunks[i].number],
         window' = None, UNCHANGED <<taken, voiced, active, preroll>>
  PROVE  CutParts'
<1> DEFINE chunks  == window.chunks
           numbers == [i \in DOMAIN chunks |-> chunks[i].number]
<1>1. chunks \in Seq(Chunks)
  BY WindowFields DEF CutType
<1>2. /\ active = << >> /\ preroll = << >>
      /\ Contiguous(chunks) /\ Numbers(chunks) \subseteq 1..taken
  BY DEF CutParts, Yielded
<1>3. numbers \in Seq(1..MaxChunks) /\ DOMAIN numbers = DOMAIN chunks
  BY <1>1, ChunkNumbers
<1>4. /\ \A i \in DOMAIN numbers : numbers[i] = chunks[i].number
      /\ Range(numbers) = Numbers(chunks)
  BY <1>3 DEF Range, Numbers
<1>5. heard \in Seq(1..MaxChunks) /\ heard' = heard \o numbers
  BY DEF CutType
<1>6. \A i \in DOMAIN chunks : chunks[i].number \in Numbers(chunks)
  BY DEF Numbers
<1>7. /\ taken \in Int /\ taken' = taken
      /\ \A n \in 1..taken : n <= taken /\ n \in Int
  BY LiveAssumption DEF CutType
<1>8. \A i \in DOMAIN heard : heard[i] \in Int /\ heard[i] <= taken
  BY HeardNumber DEF CutParts, HeardBefore
<1>9. \A i \in DOMAIN heard : \A n \in Numbers(chunks) : heard[i] < n
  BY DEF CutParts, HeardBefore
<1>10. \A i, j \in DOMAIN numbers : i < j => numbers[i] < numbers[j]
  <2>1. DOMAIN chunks = 1..Len(chunks) /\ Len(chunks) \in Nat
    BY <1>1
  <2>2. \A i \in DOMAIN chunks : 1 \in DOMAIN chunks /\ i \in Int
    BY <2>1
  <2>3. \A i \in DOMAIN chunks : chunks[1].number \in Int
    BY <1>1, <2>2, ChunkFields
  <2>4. \A i \in DOMAIN chunks : chunks[i].number = chunks[1].number + i - 1
    BY <1>2 DEF Contiguous
  <2> HIDE DEF chunks, numbers
  <2>5. ASSUME NEW i \in DOMAIN numbers, NEW j \in DOMAIN numbers, i < j
        PROVE  numbers[i] < numbers[j]
    <3>1. i \in DOMAIN chunks /\ j \in DOMAIN chunks
      BY <1>3
    <3>2. i \in Int /\ j \in Int /\ chunks[1].number \in Int
      BY <2>2, <2>3, <3>1
    <3>3. /\ numbers[i] = chunks[1].number + i - 1
          /\ numbers[j] = chunks[1].number + j - 1
      BY <1>4, <2>4, <3>1
    <3>4. QED
      BY <2>5, <3>2, <3>3
  <2>6. QED
    BY <2>5
<1>11. \A i \in DOMAIN numbers : numbers[i] \in Numbers(chunks)
  BY <1>3, <1>4, <1>6
<1> HIDE DEF chunks, numbers
<1>12. /\ \A k \in DOMAIN heard' :
            \/ k \in DOMAIN heard /\ heard'[k] = heard[k]
            \/ /\ k - Len(heard) \in DOMAIN numbers /\ k > Len(heard)
               /\ heard'[k] = numbers[k - Len(heard)]
       /\ DOMAIN heard' \subseteq Int /\ DOMAIN heard \subseteq 1..Len(heard)
       /\ Range(heard') = Range(heard) \cup Numbers(chunks)
  <2> DEFINE all == 1..MaxChunks
  <2>1. heard \in Seq(all) /\ numbers \in Seq(all)
    BY <1>3, <1>5
  <2> HIDE DEF all
  <2>2. /\ \A k \in DOMAIN (heard \o numbers) :
              \/ k \in DOMAIN heard /\ (heard \o numbers)[k] = heard[k]
              \/ /\ k - Len(heard) \in DOMAIN numbers
                 /\ (heard \o numbers)[k] = numbers[k - Len(heard)]
                 /\ k > Len(heard)
        /\ DOMAIN (heard \o numbers) \subseteq Int /\ DOMAIN heard \subseteq 1..Len(heard)
        /\ Range(heard \o numbers) = Range(heard) \cup Range(numbers)
    BY <2>1, JoinedParts
  <2>3. heard' = heard \o numbers /\ Range(numbers) = Numbers(chunks)
    BY <1>4, <1>5
  <2> DEFINE joined == heard \o numbers
  <2> HIDE DEF joined
  <2>4. QED
    BY <2>2, <2>3 DEF joined
<1>13. Len(heard) \in Int
  BY <1>5
<1>14. Numbers(active') = {} /\ Numbers(preroll') = {} /\ Contiguous(active')
       /\ active' = << >> /\ preroll' = << >> /\ window' = None
  BY <1>2, EmptyWindow
<1>15. OpenWindow' /\ Remembered'
  BY <1>14 DEF OpenWindow, Remembered
<1>16. Yielded'
  BY <1>14 DEF Yielded, None
<1>17. HeardBefore'
  <2>1. \A k \in DOMAIN heard' : heard'[k] <= taken'
    BY <1>2, <1>7, <1>8, <1>11, <1>12
  <2>2. QED
    BY <1>14, <2>1 DEF HeardBefore
<1>18. Covered'
  <2>1. voiced' \subseteq Range(heard) \cup Numbers(active) \cup Numbers(chunks)
    BY DEF CutParts, Covered, Pending, chunks
  <2>2. QED
    BY <1>2, <1>12, <1>14, <2>1 DEF Covered
<1>19. Increasing'
  <2> SUFFICES ASSUME NEW i \in DOMAIN heard', NEW j \in DOMAIN heard', i < j
               PROVE  heard'[i] < heard'[j]
    BY DEF Increasing
  <2>1. CASE i \in DOMAIN heard /\ heard'[i] = heard[i]
    <3>1. CASE j \in DOMAIN heard /\ heard'[j] = heard[j]
      BY <2>1, <3>1 DEF CutParts, Increasing
    <3>2. CASE j - Len(heard) \in DOMAIN numbers /\ heard'[j] = numbers[j - Len(heard)]
      BY <1>9, <1>11, <2>1, <3>2
    <3>3. QED
      BY <1>12, <3>1, <3>2
  <2>2. CASE /\ i - Len(heard) \in DOMAIN numbers /\ i > Len(heard)
             /\ heard'[i] = numbers[i - Len(heard)]
    <3>1. j \notin DOMAIN heard /\ i \in Int /\ j \in Int
      BY <1>12, <1>13, <2>2
    <3>2. j - Len(heard) \in DOMAIN numbers /\ heard'[j] = numbers[j - Len(heard)]
      BY <1>12, <3>1
    <3>3. i - Len(heard) < j - Len(heard)
      BY <1>13, <3>1
    <3>4. QED
      BY <1>10, <2>2, <3>2, <3>3
  <2>3. QED
    BY <1>12, <2>1, <2>2
<1>20. QED
  BY <1>15, <1>16, <1>17, <1>18, <1>19 DEF CutParts

\* A partial window is the open one, which stays.
LEMMA PartialIsPut ==
  ASSUME CutType, CutParts, window # None, window.kind = "partial",
         window' = None, UNCHANGED <<taken, voiced, active, preroll, heard>>
  PROVE  CutParts'
<1>1. window.chunks = active
  BY DEF CutParts, Yielded
<1>2. OpenWindow' /\ Remembered' /\ Increasing'
  BY DEF CutParts, OpenWindow, Remembered, Increasing
<1>3. Yielded'
  BY DEF Yielded, None
<1>4. HeardBefore'
  BY DEF CutParts, HeardBefore
<1>5. Covered'
  BY <1>1 DEF CutParts, Covered, Pending
<1>6. QED
  BY <1>2, <1>3, <1>4, <1>5 DEF CutParts

\* What is open when the input ends is the last window.
LEMMA InputEndsCuts ==
  ASSUME CutType, CutParts, InputEnds
  PROVE  CutParts'
<1>1. window = None /\ taken' = taken /\ voiced' = voiced /\ heard' = heard
  BY DEF InputEnds
<1>2. Increasing'
  BY <1>1 DEF CutParts, Increasing
<1>3. CASE active = << >>
  <2>1. active' = active /\ preroll' = preroll /\ window' = window
    BY <1>3 DEF InputEnds, cutting
  <2>2. QED
    BY <1>1, <1>2, <2>1
       DEF CutParts, OpenWindow, Remembered, Yielded, HeardBefore, Covered, Pending
<1>4. CASE active # << >>
  <2>1. window' = [kind |-> "final", chunks |-> active] /\ Reset
    BY <1>4 DEF InputEnds
  <2>2. active \in Seq(Chunks)
    BY DEF CutType
  <2>3. /\ window'.kind = "final" /\ window'.chunks = active /\ window' # None
        /\ active' = << >> /\ preroll' = << >>
    BY <1>4, <2>1, <2>2, WindowType DEF Reset
  <2>4. Numbers(active') = {} /\ Numbers(preroll') = {} /\ Contiguous(active')
    BY <2>3, EmptyWindow
  <2>5. Contiguous(active) /\ active[Len(active)].number = taken
    BY <1>4 DEF CutParts, OpenWindow
  <2>6. Numbers(active) \subseteq 1..taken
    <3>1. \A n \in Numbers(active) : n <= taken /\ n \in 1..MaxChunks
      BY <1>4, <2>2, <2>5, LastIsLargest, ChunkNumbers
    <3>2. \A n \in 1..MaxChunks : n <= taken => n \in 1..taken
      BY LiveAssumption DEF CutType
    <3>3. QED
      BY <3>1, <3>2
  <2>7. OpenWindow' /\ Remembered'
    BY <2>3, <2>4 DEF OpenWindow, Remembered
  <2>8. Yielded'
    BY <1>1, <2>3, <2>5, <2>6 DEF Yielded
  <2>9. HeardBefore'
    BY <1>1, <2>3, <2>4 DEF CutParts, HeardBefore
  <2>10. Covered'
    BY <1>1, <2>3 DEF CutParts, Covered, Pending
  <2>11. QED
    BY <1>2, <2>7, <2>8, <2>9, <2>10 DEF CutParts
<1>5. QED
  BY <1>3, <1>4

LEMMA CutPartsNext == CutType /\ CutParts /\ [Next]_vars => CutParts'
<1> SUFFICES ASSUME CutType, CutParts, [Next]_vars PROVE CutParts'
  OBVIOUS
<1>1. ASSUME UNCHANGED <<taken, voiced, active, preroll, window, heard>> PROVE CutParts'
  BY <1>1 DEF CutParts, OpenWindow, Remembered, Yielded, HeardBefore, Covered, Pending,
              Increasing
<1>2. window # None => window.kind \in {"partial", "final"}
  BY WindowFields DEF CutType
<1>3. CASE TakeChunk
  BY <1>3, TakeChunkCuts
<1>4. CASE InputEnds
  BY <1>4, InputEndsCuts
<1>5. CASE HearNothing
  <2>1. /\ window # None /\ window' = None
        /\ UNCHANGED <<taken, voiced, active, preroll>>
    BY <1>5 DEF HearNothing, cutting
  <2>2. CASE window.kind = "final"
    <3>1. heard' = heard \o [i \in DOMAIN window.chunks |-> window.chunks[i].number]
      BY <1>5, <2>2 DEF HearNothing
    <3>2. QED
      BY <2>1, <2>2, <3>1, FinalIsHeard
  <2>3. CASE window.kind = "partial"
    <3>1. heard' = heard
      BY <1>5, <2>3 DEF HearNothing
    <3>2. QED
      BY <2>1, <2>3, <3>1, PartialIsPut
  <2>4. QED
    BY <1>2, <2>1, <2>2, <2>3
<1>6. CASE Partial
  <2>1. /\ window # None /\ window.kind = "partial" /\ window' = None
        /\ UNCHANGED <<taken, voiced, active, preroll, heard>>
    BY <1>6 DEF Partial, cutting
  <2>2. QED
    BY <2>1, PartialIsPut
<1>7. CASE Commit
  <2>1. /\ window # None /\ window.kind = "final" /\ window' = None
        /\ heard' = heard \o [i \in DOMAIN window.chunks |-> window.chunks[i].number]
        /\ UNCHANGED <<taken, voiced, active, preroll>>
    BY <1>7 DEF Commit, cutting
  <2>2. QED
    BY <2>1, FinalIsHeard
<1>8. CASE CommitBatch
  <2>1. UNCHANGED <<taken, voiced, active, preroll, window, heard>>
    BY <1>8 DEF CommitBatch, cutting
  <2>2. QED
    BY <1>1, <2>1
<1>9. CASE UNCHANGED vars
  <2>1. UNCHANGED <<taken, voiced, active, preroll, window, heard>>
    BY <1>9 DEF vars, cutting
  <2>2. QED
    BY <1>1, <2>1
<1>10. QED
  BY <1>3, <1>4, <1>5, <1>6, <1>7, <1>8, <1>9 DEF Next

\* The parts are the invariant, whose numbers follow one another pairwise.
LEMMA CutPartsGive == CutType /\ CutParts => CutInv
<1> SUFFICES ASSUME CutType, CutParts PROVE CutInv
  OBVIOUS
<1>1. ASSUME NEW i \in 2..Len(active)
      PROVE  active[i].number = active[i - 1].number + 1
  <2>1. active \in Seq(Chunks)
    BY DEF CutType
  <2>2. /\ 1 \in DOMAIN active /\ i \in DOMAIN active /\ i - 1 \in DOMAIN active
        /\ i \in Int
    BY <2>1
  <2>3. active[1].number \in Int
    BY <2>1, <2>2, ChunkFields
  <2>4. \A j \in DOMAIN active : active[j].number = active[1].number + j - 1
    BY DEF CutParts, OpenWindow, Contiguous
  <2>5. /\ active[i].number = active[1].number + i - 1
        /\ active[i - 1].number = active[1].number + (i - 1) - 1
    BY <2>2, <2>4
  <2>6. QED
    BY <2>2, <2>3, <2>5
<1>2. VoicedAudioIsHeard
  BY <1>1 DEF CutParts, Covered, Pending, Increasing, VoicedAudioIsHeard
<1>3. QED
  BY <1>2 DEF CutParts, CutInv

\* A window is contiguous, ends with the chunk taken last while it is open, and
\* comes after all that was handed to the backend.  utterances, session.py:43;
\* live_windows, session.py:89.
THEOREM SpeechInvariant == Spec => []CutInv
<1>1. Init => CutType
  BY InitTypes, TypeParts
<1>2. Init => CutParts
  <2> SUFFICES ASSUME Init PROVE CutParts
    OBVIOUS
  <2>1. /\ active = << >> /\ preroll = << >> /\ window = None /\ voiced = {}
        /\ DOMAIN heard = {}
    BY DEF Init
  <2>2. Contiguous(active) /\ window.kind = "none"
    BY <2>1, EmptyWindow DEF None
  <2>3. QED
    BY <2>1, <2>2 DEF CutParts, OpenWindow, Remembered, Yielded, HeardBefore, Covered,
                      Increasing
<1>3. CutType /\ CutParts => CutInv
  BY CutPartsGive
<1>4. QED
  BY <1>1, <1>2, <1>3, CutTypeNext, CutPartsNext, PTL DEF Spec

\* A window that goes on starts with the chunk it started with.
LEMMA GrowingStart ==
  ASSUME CutType, TakeChunk, active # << >>
  PROVE  \/ active' # << >> /\ active'[1] = active[1]
         \/ window' # None /\ window'.chunks[1] = active[1]
<1>1. PICK length \in Durations, isVoiced \in BOOLEAN :
        LET chunk == [number |-> taken + 1, duration |-> length] IN
        IF active = << >> /\ ~isVoiced THEN Skip(chunk) ELSE Grow(chunk, isVoiced)
  BY DEF TakeChunk
<1> DEFINE chunk == [number |-> taken + 1, duration |-> length]
<1>2. Grow(chunk, isVoiced)
  BY <1>1
<1>3. chunk \in Chunks /\ Extended(chunk) \in Seq(Chunks) /\ Extended(chunk) # << >>
  BY Extends DEF TakeChunk
<1> HIDE DEF chunk
<1>4. Extended(chunk)[1] = active[1]
  <2>1. active \in Seq(Chunks)
    BY DEF CutType
  <2>2. Append(active, chunk)[1] = active[1]
    BY <1>3, <2>1
  <2>3. QED
    BY <2>2 DEF Extended
<1>5. \/ active' = Extended(chunk)
      \/ window' = [kind |-> "final", chunks |-> Extended(chunk)]
  BY <1>2 DEF Grow
<1>6. CASE active' = Extended(chunk)
  BY <1>3, <1>4, <1>6
<1>7. CASE window' = [kind |-> "final", chunks |-> Extended(chunk)]
  <2>1. window' # None
    BY <1>3, <1>7, WindowType
  <2>2. window'.chunks = Extended(chunk)
    BY <1>7
  <2>3. QED
    BY <1>4, <2>1, <2>2
<1>8. QED
  BY <1>5, <1>6, <1>7

\* Only a live session yields a partial window.
LEMMA PartialIsLive ==
  ASSUME VotesInv, [Next]_vars
  PROVE  window'.kind = "partial" => live'
<1>1. live' = live
  BY DEF Next, TakeChunk, InputEnds, HearNothing, Partial, Commit, CommitBatch, vars
<1>2. None.kind = "none"
  BY DEF None
<1>3. CASE window' = None \/ window' = window
  BY <1>1, <1>2, <1>3 DEF VotesInv
<1>4. CASE TakeChunk
  <2>1. PICK length \in Durations, isVoiced \in BOOLEAN :
          LET chunk == [number |-> taken + 1, duration |-> length] IN
          IF active = << >> /\ ~isVoiced THEN Skip(chunk) ELSE Grow(chunk, isVoiced)
    BY <1>4 DEF TakeChunk
  <2> DEFINE chunk == [number |-> taken + 1, duration |-> length]
  <2>2. Skip(chunk) \/ Grow(chunk, isVoiced)
    BY <2>1
  <2> HIDE DEF chunk
  <2>3. \/ window' = window \/ live
        \/ window' = [kind |-> "final", chunks |-> Extended(chunk)]
    BY <2>2 DEF Skip, Grow
  <2>4. QED
    BY <1>1, <1>3, <2>3
<1>5. CASE InputEnds
  <2>1. window' = window \/ window' = [kind |-> "final", chunks |-> active]
    BY <1>5 DEF InputEnds
  <2>2. QED
    BY <1>3, <2>1
<1>6. CASE HearNothing \/ Partial \/ Commit \/ CommitBatch \/ UNCHANGED vars
  BY <1>3, <1>6 DEF HearNothing, Partial, Commit, CommitBatch, vars
<1>7. QED
  BY <1>4, <1>5, <1>6 DEF Next

LEMMA VotesNext == TypeOK /\ CutInv /\ VotesInv /\ [Next]_vars => VotesInv'
<1> SUFFICES ASSUME CutType, CutInv, VotesInv, [Next]_vars
             PROVE  AgreementStaysInUtterance' /\ (~live' => sources' = {})
  BY TypeParts, PartialIsLive DEF VotesInv
<1>1. /\ sources \subseteq silent \cup OpenUtterance
      /\ ~live => sources = {}
      /\ window.kind = "partial" => live
  BY DEF VotesInv, AgreementStaysInUtterance
<1>2. window # None => window.chunks # << >> /\ window.kind \in {"partial", "final"}
  BY WindowFields DEF CutType
<1>3. /\ window.kind = "partial" => window.chunks = active
      /\ window.kind = "final" => active = << >>
  BY DEF CutInv, Yielded
<1>4. ASSUME sources' = sources, silent' = silent, live' = live,
             OpenUtterance \subseteq OpenUtterance'
      PROVE  AgreementStaysInUtterance' /\ (~live' => sources' = {})
  BY <1>1, <1>4 DEF AgreementStaysInUtterance
<1>5. CASE TakeChunk
  <2>1. sources' = sources /\ silent' = silent /\ live' = live /\ window = None
    BY <1>5 DEF TakeChunk, agreement
  <2>2. CASE active = << >>
    BY <1>4, <2>1, <2>2 DEF OpenUtterance
  <2>3. CASE active # << >>
    <3>1. \/ active' # << >> /\ active'[1] = active[1]
          \/ window' # None /\ window'.chunks[1] = active[1]
      BY <1>5, <2>3, GrowingStart
    <3>2. OpenUtterance \subseteq OpenUtterance'
      BY <2>1, <2>3, <3>1 DEF OpenUtterance
    <3>3. QED
      BY <1>4, <2>1, <3>2
  <2>4. QED
    BY <2>2, <2>3
<1>6. CASE InputEnds
  <2>1. sources' = sources /\ silent' = silent /\ live' = live /\ window = None
    BY <1>6 DEF InputEnds, agreement
  <2>2. CASE active = << >>
    BY <1>4, <2>1, <2>2 DEF OpenUtterance
  <2>3. CASE active # << >>
    <3>1. window' = [kind |-> "final", chunks |-> active] /\ active \in Seq(Chunks)
      BY <1>6, <2>3 DEF InputEnds, CutType
    <3>2. window' # None /\ window'.chunks = active
      BY <2>3, <3>1, WindowType
    <3>3. OpenUtterance \subseteq OpenUtterance'
      BY <2>1, <2>3, <3>2 DEF OpenUtterance
    <3>4. QED
      BY <1>4, <2>1, <3>3
  <2>4. QED
    BY <2>2, <2>3
<1>7. CASE HearNothing
  <2>1. /\ sources' = sources /\ live' = live /\ active' = active
        /\ window # None /\ window' = None
        /\ silent' = IF live /\ window.kind = "final"
                     THEN silent \cup {window.chunks[1].number} ELSE silent
    BY <1>7 DEF HearNothing, agreement, cutting
  <2>2. CASE window.kind = "partial"
    <3>1. silent' = silent /\ window.chunks = active /\ active # << >>
      BY <1>2, <1>3, <2>1, <2>2
    <3>2. OpenUtterance \subseteq OpenUtterance'
      BY <2>1, <3>1 DEF OpenUtterance
    <3>3. QED
      BY <1>4, <2>1, <3>1, <3>2
  <2>3. CASE window.kind = "final"
    <3>1. OpenUtterance = {window.chunks[1].number}
      BY <1>3, <2>1, <2>3 DEF OpenUtterance
    <3>2. CASE live
      BY <1>1, <2>1, <2>3, <3>1, <3>2 DEF AgreementStaysInUtterance
    <3>3. CASE ~live
      BY <1>1, <2>1, <3>3 DEF AgreementStaysInUtterance
    <3>4. QED
      BY <3>2, <3>3
  <2>4. QED
    BY <1>2, <2>1, <2>2, <2>3
<1>8. CASE Partial
  <2>1. PICK text \in Texts \ {<< >>} : UpdatePartial(text)
    BY <1>8 DEF Partial
  <2>2. sources' = sources \cup {window.chunks[1].number}
    BY <2>1, UpdateIs
  <2>3. /\ window # None /\ window.kind = "partial" /\ window' = None
        /\ live' = live /\ active' = active /\ silent' = silent
    BY <1>8 DEF Partial, cutting
  <2>4. window.chunks = active /\ active # << >> /\ live
    BY <1>1, <1>2, <1>3, <2>3
  <2>5. OpenUtterance = {active[1].number} /\ OpenUtterance' = {active[1].number}
    BY <2>3, <2>4 DEF OpenUtterance
  <2>6. QED
    BY <1>1, <2>2, <2>3, <2>4, <2>5 DEF AgreementStaysInUtterance
<1>9. CASE Commit
  <2>1. sources' = {}
    BY <1>9 DEF Commit
  <2>2. QED
    BY <2>1 DEF AgreementStaysInUtterance
<1>10. CASE CommitBatch \/ UNCHANGED vars
  <2>1. /\ sources' = sources /\ silent' = silent /\ live' = live
        /\ active' = active /\ window' = window
    BY <1>10 DEF CommitBatch, agreement, cutting, vars
  <2>2. OpenUtterance' = OpenUtterance
    BY <2>1 DEF OpenUtterance
  <2>3. QED
    BY <1>4, <2>1, <2>2
<1>11. QED
  BY <1>5, <1>6, <1>7, <1>8, <1>9, <1>10 DEF Next

\* No hypothesis votes beside those of the open utterance, but for those of an
\* utterance whose final window was without a word.  transcribe_events,
\* session.py:415.
THEOREM AgreementIsOfItsUtterance == Spec => []AgreementStaysInUtterance
<1>1. Init => VotesInv
  <2> SUFFICES ASSUME Init PROVE VotesInv
    OBVIOUS
  <2>1. sources = {} /\ window.kind = "none"
    BY DEF Init, None
  <2>2. QED
    BY <2>1 DEF VotesInv, AgreementStaysInUtterance
<1>2. TypeOK /\ CutInv /\ VotesInv /\ [Next]_vars => VotesInv'
  BY VotesNext
<1>3. VotesInv => AgreementStaysInUtterance
  BY DEF VotesInv
<1>4. QED
  BY <1>1, <1>2, <1>3, TypeCorrect, SpeechInvariant, PTL DEF Spec

\* Every voiced chunk was in exactly one final window, in order, or is in the one
\* that is open or waits for the backend.  utterances, session.py:43; live_windows,
\* session.py:89.
THEOREM SpeechIsHeard == Spec => []VoicedAudioIsHeard
<1>1. CutInv => VoicedAudioIsHeard
  BY DEF CutInv
<1>2. QED
  BY <1>1, SpeechInvariant, PTL

=============================================================================
