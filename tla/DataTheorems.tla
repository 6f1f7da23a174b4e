---------------------------- MODULE DataTheorems ----------------------------
(***************************************************************************)
(* Lemmas about the data that several components are made of: the tables   *)
(* of module Tables, the lists of module Slices, and the induction over    *)
(* the naturals that what a loop builds needs.  (The library states        *)
(* induction for an operator, which no backend can instantiate; here it is *)
(* for a set.)                                                             *)
(***************************************************************************)
EXTENDS Tables, Slices, SequencesExt, SequenceTheorems, FiniteSetTheorems, WellFoundedInduction, TLAPS

\* An INSERT keeps the type of a table.
LEMMA PutType ==
  ASSUME NEW S, NEW t, t \in [DOMAIN t -> S], NEW k, NEW row \in S
  PROVE  Put(t, k, row) \in [DOMAIN t \cup {k} -> S]
BY DEF Put

\* A DELETE removes the keys it matches and leaves other rows alone.
LEMMA WithoutRows ==
  ASSUME NEW t, NEW keys
  PROVE  /\ DOMAIN Without(t, keys) = DOMAIN t \ keys
         /\ \A j \in DOMAIN t \ keys : Without(t, keys)[j] = t[j]
BY DEF Without, Restrict

\* A DELETE keeps the type of a table.
LEMMA WithoutType ==
  ASSUME NEW S, NEW t, t \in [DOMAIN t -> S], NEW keys
  PROVE  Without(t, keys) \in [DOMAIN t \ keys -> S]
BY DEF Without, Restrict

-----------------------------------------------------------------------------
(* Induction.                                                              *)

\* A set of naturals that is not empty has a least element.
LEMMA LeastNumber ==
  ASSUME NEW T, T \subseteq Nat, T # {}
  PROVE  \E x \in T : \A y \in T : x <= y
<1> DEFINE R == {ss \in Nat \X Nat : ss[1] < ss[2]}
<1>1. OpToRel(<, Nat) = R
  BY Zenon DEF OpToRel
<1>2. IsWellFoundedOn(OpToRel(<, Nat), Nat)
  BY NatLessThanWellFounded
<1>3. IsWellFoundedOn(R, Nat)
  BY <1>1, <1>2, Zenon
<1>4. ASSUME NEW x \in Nat, NEW y \in Nat, x < y
      PROVE  <<x, y>> \in R
  BY <1>4
<1> HIDE DEF R
<1>5. PICK x \in T : \A y \in T : ~ (<<y, x>> \in R)
  BY <1>3, WFMin
<1>6. \A y \in T : ~ (y < x)
  BY <1>4, <1>5
<1> QED BY <1>6

\* A set of naturals that is bounded and not empty has a greatest element.
LEMMA GreatestNumber ==
  ASSUME NEW b \in Nat, NEW S, S \subseteq 0..b, S # {}
  PROVE  \E x \in S : \A y \in S : y <= x
<1> DEFINE T == {n \in Nat : \A y \in S : y <= n}
<1>1. b \in T
  OBVIOUS
<1>2. T \subseteq Nat /\ T # {}
  BY <1>1
<1>3. PICK n \in T : \A m \in T : n <= m
  <2> HIDE DEF T
  <2> QED BY <1>2, LeastNumber
<1>4. n \in S
  <2>1. SUFFICES ASSUME n \notin S PROVE FALSE
    OBVIOUS
  <2>2. n \in Nat /\ \A y \in S : y \in Nat /\ y <= n /\ y # n
    BY <1>3, <2>1
  <2>3. \A y \in S : y <= n - 1
    BY <2>2
  <2>4. PICK y \in S : TRUE
    OBVIOUS
  <2>5. n - 1 \in Nat
    BY <2>2, <2>3, <2>4
  <2>6. n - 1 \in T
    BY <2>3, <2>5
  <2> QED BY <1>3, <2>2, <2>6
<1> QED BY <1>3, <1>4

\* Induction over the naturals.
LEMMA Induction ==
  ASSUME NEW P, 0 \in P, \A n \in Nat : n \in P => n + 1 \in P
  PROVE  Nat \subseteq P
<1> DEFINE T == Nat \ P
<1>1. SUFFICES ASSUME T # {} PROVE FALSE
  OBVIOUS
<1>2. PICK n \in T : \A m \in T : n <= m
  <2> HIDE DEF T
  <2>1. T \subseteq Nat
    BY DEF T
  <2> QED BY <1>1, <2>1, LeastNumber
<1>3. n \in Nat /\ n # 0 /\ n - 1 \in Nat /\ n - 1 \notin T
  BY <1>2
<1> QED BY <1>2, <1>3

\* There is a function that a primitive recursion defines, up to any bound.
Iterated(S, m, base, loop) ==
  {f \in [0..m -> S] : f[0] = base /\ \A i \in 1..m : f[i] = loop[i][f[i - 1]]}

LEMMA Recursion ==
  ASSUME NEW S, NEW m \in Nat, NEW base \in S, NEW loop \in [1..m -> [S -> S]]
  PROVE  Iterated(S, m, base, loop) # {}
<1> DEFINE Fcns(n) == Iterated(S, n, base, loop)
           P == {n \in Nat : n <= m => Fcns(n) # {}}
<1>1. 0 \in P
  <2>1. [i \in 0..0 |-> base] \in Fcns(0)
    BY DEF Iterated
  <2> QED BY <2>1
<1>2. ASSUME NEW n \in Nat, n \in P
      PROVE  n + 1 \in P
  <2>1. SUFFICES ASSUME n + 1 <= m PROVE Fcns(n + 1) # {}
    OBVIOUS
  <2>2. PICK f \in Fcns(n) : TRUE
    BY <1>2, <2>1
  <2> DEFINE g == [i \in 0..(n + 1) |-> IF i = n + 1 THEN loop[n + 1][f[n]] ELSE f[i]]
  <2>3. loop[n + 1][f[n]] \in S
    BY <2>1, <2>2 DEF Iterated
  <2>4. g \in [0..(n + 1) -> S] /\ g[0] = base
    BY <2>2, <2>3 DEF Iterated
  <2>5. ASSUME NEW i \in 1..(n + 1)
        PROVE  g[i] = loop[i][g[i - 1]]
    BY <2>2 DEF Iterated
  <2> HIDE DEF g
  <2> QED BY <2>4, <2>5 DEF Iterated
<1> HIDE DEF P
<1>3. m \in P
  BY <1>1, <1>2, Induction
<1> QED BY <1>3 DEF P

-----------------------------------------------------------------------------
(* Lists.                                                                  *)

\* The loop of Filter, step by step.
LEMMA FilterLoop ==
  ASSUME NEW S, NEW s \in Seq(S), NEW keep
  PROVE  \E f \in [0..Len(s) -> Seq(S)] :
           /\ Filter(s, keep) = f[Len(s)]
           /\ f[0] = <<>>
           /\ \A i \in 1..Len(s) :
                f[i] = IF s[i] \in keep THEN Append(f[i - 1], s[i]) ELSE f[i - 1]
<1> DEFINE loop == [i \in 1..Len(s) |-> [x \in Seq(S) |->
                      IF s[i] \in keep THEN Append(x, s[i]) ELSE x]]
           kept == CHOOSE f : f = [n \in 0..Len(s) |->
                     IF n = 0 THEN <<>>
                     ELSE IF s[n] \in keep THEN Append(f[n - 1], s[n]) ELSE f[n - 1]]
<1>1. Filter(s, keep) = kept[Len(s)]
  BY Zenon DEF Filter
<1>2. \A i \in 1..Len(s) : s[i] \in S
  OBVIOUS
<1>3. loop \in [1..Len(s) -> [Seq(S) -> Seq(S)]]
  BY <1>2
<1>4. \A i \in 1..Len(s), x \in Seq(S) :
        loop[i][x] = IF s[i] \in keep THEN Append(x, s[i]) ELSE x
  OBVIOUS
<1> HIDE DEF loop, kept
<1>5. Len(s) \in Nat /\ <<>> \in Seq(S)
  OBVIOUS
<1>6. PICK g \in [0..Len(s) -> Seq(S)] :
        g[0] = <<>> /\ \A i \in 1..Len(s) : g[i] = loop[i][g[i - 1]]
  <2> DEFINE m == Len(s)  empty == <<>>  Lists == Seq(S)
  <2>1. m \in Nat /\ empty \in Lists /\ loop \in [1..m -> [Lists -> Lists]]
    BY <1>3, <1>5
  <2> HIDE DEF m, empty, Lists
  <2>2. Iterated(Lists, m, empty, loop) # {}
    BY <2>1, Recursion
  <2> QED BY <2>2 DEF Iterated, m, empty, Lists
<1>7. \A i \in 1..Len(s) :
        g[i] = IF s[i] \in keep THEN Append(g[i - 1], s[i]) ELSE g[i - 1]
  <2>1. SUFFICES ASSUME NEW i \in 1..Len(s)
                 PROVE  g[i] = IF s[i] \in keep THEN Append(g[i - 1], s[i]) ELSE g[i - 1]
    OBVIOUS
  <2>2. g[i - 1] \in Seq(S)
    BY <1>6
  <2> QED BY <1>4, <1>6, <2>2
<1>8. \A n \in 0..Len(s) :
        g[n] = IF n = 0 THEN <<>>
               ELSE IF s[n] \in keep THEN Append(g[n - 1], s[n]) ELSE g[n - 1]
  <2>1. \A n \in 0..Len(s) : n = 0 \/ (n # 0 /\ n \in 1..Len(s))
    BY <1>5
  <2> QED BY <1>6, <1>7, <2>1, Zenon
<1>9. g = [n \in 0..Len(s) |->
            IF n = 0 THEN <<>>
            ELSE IF s[n] \in keep THEN Append(g[n - 1], s[n]) ELSE g[n - 1]]
  <2> DEFINE body(n) == IF n = 0 THEN <<>>
                        ELSE IF s[n] \in keep THEN Append(g[n - 1], s[n]) ELSE g[n - 1]
  <2>1. \A n \in 0..Len(s) : g[n] = body(n)
    BY <1>8
  <2> HIDE DEF body
  <2>2. g = [n \in 0..Len(s) |-> body(n)]
    BY <2>1
  <2> QED BY <2>2 DEF body
<1>10. kept = [n \in 0..Len(s) |->
                IF n = 0 THEN <<>>
                ELSE IF s[n] \in keep THEN Append(kept[n - 1], s[n]) ELSE kept[n - 1]]
  BY <1>9, Zenon DEF kept
<1>11. /\ kept[0] = <<>>
       /\ \A i \in 1..Len(s) :
            kept[i] = IF s[i] \in keep THEN Append(kept[i - 1], s[i]) ELSE kept[i - 1]
  <2> DEFINE body(n) == IF n = 0 THEN <<>>
                        ELSE IF s[n] \in keep THEN Append(kept[n - 1], s[n]) ELSE kept[n - 1]
  <2>1. kept = [n \in 0..Len(s) |-> body(n)]
    BY <1>10
  <2> HIDE DEF body
  <2>2. \A n \in 0..Len(s) : kept[n] = body(n)
    BY <2>1
  <2>3. 0 \in 0..Len(s) /\ \A i \in 1..Len(s) : i \in 0..Len(s) /\ i # 0
    BY <1>5
  <2> QED BY <2>2, <2>3 DEF body
<1> DEFINE P == {n \in Nat : n <= Len(s) => kept[n] \in Seq(S)}
<1>12. 0 \in P
  BY <1>5, <1>11
<1>13. ASSUME NEW n \in Nat, n \in P, n + 1 <= Len(s)
       PROVE  kept[n + 1] \in Seq(S)
  <2>1. n + 1 \in 1..Len(s) /\ n + 1 - 1 = n /\ kept[n] \in Seq(S)
    BY <1>5, <1>13
  <2>2. kept[n + 1] = IF s[n + 1] \in keep THEN Append(kept[n], s[n + 1]) ELSE kept[n]
    BY <1>11, <2>1
  <2> QED BY <1>2, <2>1, <2>2
<1>14. ASSUME NEW n \in Nat, n \in P
       PROVE  n + 1 \in P
  BY <1>13, <1>14
<1>15. \A n \in 0..Len(s) : kept[n] \in Seq(S)
  <2>1. Nat \subseteq P
    <3> HIDE DEF P
    <3> QED BY <1>12, <1>14, Induction
  <2> QED BY <1>5, <2>1
<1>16. kept \in [0..Len(s) -> Seq(S)]
  BY <1>10, <1>15
<1> QED BY <1>1, <1>11, <1>16

\* Appending adds one member.
LEMMA AppendMembers ==
  ASSUME NEW S, NEW s \in Seq(S), NEW x \in S
  PROVE  ToSet(Append(s, x)) = ToSet(s) \cup {x}
<1>1. /\ DOMAIN Append(s, x) = 1..(Len(s) + 1) /\ DOMAIN s = 1..Len(s) /\ Len(s) \in Nat
      /\ \A i \in 1..Len(s) : Append(s, x)[i] = s[i]
      /\ Append(s, x)[Len(s) + 1] = x
  OBVIOUS
<1>2. 1..(Len(s) + 1) = (1..Len(s)) \cup {Len(s) + 1}
  BY <1>1
<1> QED BY <1>1, <1>2 DEF ToSet

\* A filter keeps the type of a list, and of its members those that pass.
LEMMA FilterMembers ==
  ASSUME NEW S, NEW s \in Seq(S), NEW keep
  PROVE  /\ Filter(s, keep) \in Seq(S)
         /\ ToSet(Filter(s, keep)) = ToSet(s) \cap keep
<1>1. PICK f \in [0..Len(s) -> Seq(S)] :
        /\ Filter(s, keep) = f[Len(s)]
        /\ f[0] = <<>>
        /\ \A i \in 1..Len(s) :
             f[i] = IF s[i] \in keep THEN Append(f[i - 1], s[i]) ELSE f[i - 1]
  BY FilterLoop
<1> DEFINE Upto(n) == {s[i] : i \in 1..n} \cap keep
           P == {n \in Nat : n <= Len(s) => ToSet(f[n]) = Upto(n)}
<1>2. 0 \in P
  BY <1>1 DEF ToSet
<1>3. ASSUME NEW n \in Nat, n \in P, n + 1 <= Len(s)
      PROVE  ToSet(f[n + 1]) = Upto(n + 1)
  <2>1. n \in 0..Len(s) /\ n + 1 \in 1..Len(s) /\ n + 1 - 1 = n
    BY <1>3
  <2>2. f[n] \in Seq(S) /\ s[n + 1] \in S
    BY <1>1, <2>1
  <2>3. f[n + 1] = IF s[n + 1] \in keep THEN Append(f[n], s[n + 1]) ELSE f[n]
    BY <1>1, <2>1
  <2>4. ToSet(Append(f[n], s[n + 1])) = ToSet(f[n]) \cup {s[n + 1]}
    BY <2>2, AppendMembers
  <2>5. 1..(n + 1) = (1..n) \cup {n + 1}
    BY <1>3
  <2>6. {s[i] : i \in 1..(n + 1)} = {s[i] : i \in 1..n} \cup {s[n + 1]}
    BY <2>5
  <2>7. ToSet(f[n]) = Upto(n)
    BY <1>3
  <2> QED BY <2>3, <2>4, <2>6, <2>7
<1>4. Len(s) \in P
  <2>1. ASSUME NEW n \in Nat, n \in P
        PROVE  n + 1 \in P
    <3>1. CASE n + 1 <= Len(s)
      <4>1. ToSet(f[n + 1]) = Upto(n + 1)
        BY <1>3, <2>1, <3>1
      <4> HIDE DEF Upto
      <4> QED BY <4>1
    <3>2. CASE ~(n + 1 <= Len(s))
      BY <3>2
    <3> QED BY <3>1, <3>2
  <2> HIDE DEF P
  <2>2. Len(s) \in Nat
    OBVIOUS
  <2> QED BY <1>2, <2>1, <2>2, Induction
<1>5. ToSet(s) = {s[i] : i \in 1..Len(s)}
  BY DEF ToSet
<1> QED BY <1>1, <1>4, <1>5

\* A list is one of its members, or of any set that has them.
LEMMA SeqOfMembers ==
  ASSUME NEW S, NEW s \in Seq(S), NEW T, ToSet(s) \subseteq T
  PROVE  s \in Seq(T)
<1>1. Len(s) \in Nat /\ DOMAIN s = 1..Len(s) /\ s \in [1..Len(s) -> S]
  OBVIOUS
<1>2. \A i \in 1..Len(s) : s[i] \in T
  BY <1>1 DEF ToSet
<1>3. s \in [1..Len(s) -> T]
  BY <1>1, <1>2
<1> QED BY <1>1, <1>3, SeqDef

\* A list without its first element has the members of the rest of it.
LEMMA TailMembers ==
  ASSUME NEW S, NEW s \in Seq(S), s # <<>>
  PROVE  /\ Head(s) \in ToSet(s) /\ Tail(s) \in Seq(S)
         /\ Len(s) \in Nat /\ Len(Tail(s)) = Len(s) - 1 /\ DOMAIN Tail(s) = 1..(Len(s) - 1)
         /\ \A i \in 1..(Len(s) - 1) : i + 1 \in DOMAIN s /\ Tail(s)[i] = s[i + 1]
         /\ ToSet(Tail(s)) \subseteq ToSet(s)
<1>1. /\ Len(s) \in Nat /\ Len(s) # 0 /\ DOMAIN s = 1..Len(s)
      /\ Head(s) = s[1] /\ Tail(s) \in Seq(S) /\ Len(Tail(s)) = Len(s) - 1
      /\ DOMAIN Tail(s) = 1..(Len(s) - 1)
      /\ \A i \in 1..(Len(s) - 1) : Tail(s)[i] = s[i + 1]
  OBVIOUS
<1>2. 1 \in 1..Len(s) /\ \A i \in 1..(Len(s) - 1) : i + 1 \in 1..Len(s)
  BY <1>1
<1> QED BY <1>1, <1>2 DEF ToSet

\* A list without the element at one place: those after it move up.
LEMMA RemoveAtPlaces ==
  ASSUME NEW S, NEW s \in Seq(S), NEW n \in 1..Len(s)
  PROVE  LET rest == RemoveAt(s, n) IN
         /\ rest \in Seq(S) /\ Len(rest) = Len(s) - 1 /\ DOMAIN rest = 1..(Len(s) - 1)
         /\ \A i \in 1..(Len(s) - 1) : rest[i] = IF i < n THEN s[i] ELSE s[i + 1]
<1> DEFINE left == SubSeq(s, 1, n - 1)
           right == SubSeq(s, n + 1, Len(s))
<1>1. Len(s) \in Nat /\ DOMAIN s = 1..Len(s) /\ \A i \in 1..Len(s) : s[i] \in S
  OBVIOUS
<1>2. RemoveAt(s, n) = left \o right
  BY DEF RemoveAt
<1>3. n \in 1..Len(s)
  OBVIOUS
<1>4. /\ left \in Seq(S) /\ Len(left) = n - 1
      /\ \A i \in 1..(n - 1) : left[i] = s[i]
  <2>1. 1 \in Int /\ n - 1 \in Int /\ \A i \in 1..(n - 1) : s[i] \in S
    BY <1>1, <1>3
  <2>2. /\ SubSeq(s, 1, n - 1) \in Seq(S)
        /\ Len(SubSeq(s, 1, n - 1)) = IF 1 <= n - 1 THEN n - 1 - 1 + 1 ELSE 0
        /\ \A i \in 1..(n - 1 - 1 + 1) : SubSeq(s, 1, n - 1)[i] = s[1 + i - 1]
    BY <2>1, SubSeqProperties
  <2>3. n - 1 - 1 + 1 = n - 1 /\ \A i \in 1..(n - 1) : 1 + i - 1 = i
    BY <1>1, <1>3
  <2>4. left = SubSeq(s, 1, n - 1)
    OBVIOUS
  <2> HIDE DEF left
  <2> QED BY <1>1, <1>3, <2>2, <2>3, <2>4
<1>5. /\ right \in Seq(S) /\ Len(right) = Len(s) - n
      /\ \A i \in 1..(Len(s) - n) : right[i] = s[n + i]
  <2>1. n + 1 \in Int /\ Len(s) \in Int /\ \A i \in (n + 1)..Len(s) : s[i] \in S
    BY <1>1, <1>3
  <2>2. /\ SubSeq(s, n + 1, Len(s)) \in Seq(S)
        /\ Len(SubSeq(s, n + 1, Len(s))) =
             IF n + 1 <= Len(s) THEN Len(s) - (n + 1) + 1 ELSE 0
        /\ \A i \in 1..(Len(s) - (n + 1) + 1) : SubSeq(s, n + 1, Len(s))[i] = s[n + 1 + i - 1]
    BY <2>1, SubSeqProperties
  <2>3. /\ Len(s) - (n + 1) + 1 = Len(s) - n
        /\ \A i \in 1..(Len(s) - n) : n + 1 + i - 1 = n + i
    BY <1>1, <1>3
  <2>4. right = SubSeq(s, n + 1, Len(s))
    OBVIOUS
  <2> HIDE DEF right
  <2>5. right \in Seq(S) /\ Len(right) = Len(s) - n
    <3>1. /\ right \in Seq(S)
          /\ n + 1 <= Len(s) => Len(right) = Len(s) - (n + 1) + 1
          /\ ~(n + 1 <= Len(s)) => Len(right) = 0
      BY <2>2, <2>4, Zenon
    <3>2. ASSUME NEW m \in Nat, NEW len, n \in 1..m,
                 n + 1 <= m => len = m - (n + 1) + 1, ~(n + 1 <= m) => len = 0
          PROVE  len = m - n
      BY <3>2
    <3> QED BY <1>1, <1>3, <3>1, <3>2
  <2>6. ASSUME NEW i \in 1..(Len(s) - n) PROVE right[i] = s[n + i]
    <3>1. right[i] = s[n + 1 + i - 1]
      BY <2>2, <2>3, <2>4
    <3> QED BY <2>3, <3>1
  <2> QED BY <2>5, <2>6
<1> DEFINE rest == left \o right
<1>6. /\ rest \in Seq(S) /\ Len(rest) = Len(s) - 1 /\ DOMAIN rest = 1..(Len(s) - 1)
      /\ \A i \in 1..(Len(s) - 1) : rest[i] = IF i < n THEN s[i] ELSE s[i + 1]
  <2> HIDE DEF left, right
  <2>1. rest \in Seq(S) /\ Len(rest) = Len(s) - 1
    <3>1. rest \in Seq(S) /\ Len(rest) = Len(left) + Len(right)
      BY <1>4, <1>5, ConcatProperties
    <3>2. Len(left) + Len(right) = Len(s) - 1
      BY <1>1, <1>3, <1>4, <1>5
    <3> QED BY <3>1, <3>2
  <2>2. DOMAIN rest = 1..(Len(s) - 1)
    BY <2>1
  <2>3. \A i \in 1..(Len(s) - 1) : rest[i] = IF i < n THEN s[i] ELSE s[i + 1]
    <3> TAKE i \in 1..(Len(s) - 1)
    <3>1. rest[i] = IF i <= n - 1 THEN left[i] ELSE right[i - (n - 1)]
      BY <1>1, <1>3, <1>4, <1>5, ConcatProperties
    <3>2. CASE i < n
      BY <1>1, <1>3, <1>4, <3>1, <3>2
    <3>3. CASE ~(i < n)
      <4>1. i - (n - 1) \in 1..(Len(s) - n) /\ n + (i - (n - 1)) = i + 1
        BY <1>1, <1>3, <3>3
      <4> QED BY <1>1, <1>3, <1>5, <3>1, <3>3, <4>1
    <3> QED BY <3>2, <3>3
  <2> QED BY <2>1, <2>2, <2>3
<1> QED BY <1>2, <1>6

\* Of a list that names nothing twice, RemoveFirst removes just that element.
LEMMA RemoveFirstMembers ==
  ASSUME NEW S, NEW s \in Seq(S), IsInjective(s), NEW e \in ToSet(s)
  PROVE  /\ RemoveFirst(s, e) \in Seq(S)
         /\ IsInjective(RemoveFirst(s, e))
         /\ ToSet(RemoveFirst(s, e)) = ToSet(s) \ {e}
<1> DEFINE I == {i \in 1..Len(s) : s[i] = e}
           k == Min(I)
<1>1. Len(s) \in Nat /\ DOMAIN s = 1..Len(s) /\ \A i \in 1..Len(s) : s[i] \in S
  OBVIOUS
<1>2. PICK n \in I : TRUE
  BY <1>1 DEF ToSet
<1>3. I = {n}
  BY <1>1, <1>2 DEF IsInjective
<1>4. k = n
  BY <1>1, <1>2, <1>3 DEF Min
<1>5. RemoveFirst(s, e) = RemoveAt(s, k)
  BY <1>2 DEF RemoveFirst, SelectInSeq
<1>6. n \in 1..Len(s) /\ s[n] = e
  BY <1>2
<1> HIDE DEF k, I
<1> DEFINE rest == RemoveAt(s, n)
<1>7. /\ rest \in Seq(S) /\ Len(rest) = Len(s) - 1 /\ DOMAIN rest = 1..(Len(s) - 1)
      /\ \A i \in 1..(Len(s) - 1) : rest[i] = IF i < n THEN s[i] ELSE s[i + 1]
  BY <1>6, RemoveAtPlaces
<1> HIDE DEF rest
<1>8. IsInjective(rest)
  <2> SUFFICES ASSUME NEW i \in 1..(Len(s) - 1), NEW j \in 1..(Len(s) - 1), rest[i] = rest[j]
               PROVE  i = j
    BY <1>7 DEF IsInjective
  <2> DEFINE from(m) == IF m < n THEN m ELSE m + 1
  <2>1. rest[i] = s[from(i)] /\ rest[j] = s[from(j)]
    BY <1>7
  <2>2. from(i) \in DOMAIN s /\ from(j) \in DOMAIN s
    BY <1>1, <1>6
  <2>3. from(i) = from(j)
    <3> HIDE DEF from
    <3> QED BY <2>1, <2>2 DEF IsInjective
  <2> QED BY <1>1, <1>6, <2>3
<1>9. ToSet(rest) = ToSet(s) \ {e}
  <2>1. ASSUME NEW i \in 1..(Len(s) - 1) PROVE rest[i] \in ToSet(s) /\ rest[i] # e
    <3>1. CASE i < n
      <4>1. rest[i] = s[i] /\ i \in DOMAIN s /\ i # n
        BY <1>1, <1>7, <1>6, <3>1
      <4> QED BY <1>1, <1>6, <4>1 DEF ToSet, IsInjective
    <3>2. CASE ~(i < n)
      <4>1. rest[i] = s[i + 1] /\ i + 1 \in DOMAIN s /\ i + 1 # n
        BY <1>1, <1>7, <1>6, <3>2
      <4> QED BY <1>1, <1>6, <4>1 DEF ToSet, IsInjective
    <3> QED BY <3>1, <3>2
  <2>2. ASSUME NEW j \in 1..Len(s), j # n PROVE s[j] \in ToSet(rest)
    <3>1. CASE j < n
      <4>1. j \in 1..(Len(s) - 1) /\ rest[j] = s[j]
        BY <1>1, <1>7, <1>6, <3>1
      <4> QED BY <1>7, <4>1 DEF ToSet
    <3>2. CASE ~(j < n)
      <4>1. j - 1 \in 1..(Len(s) - 1) /\ ~(j - 1 < n) /\ j - 1 + 1 = j
        BY <1>1, <1>6, <2>2, <3>2
      <4>2. rest[j - 1] = s[j]
        BY <1>7, <4>1
      <4> QED BY <1>7, <4>1, <4>2 DEF ToSet
    <3> QED BY <3>1, <3>2
  <2>3. ToSet(rest) \subseteq ToSet(s) \ {e}
    BY <1>7, <2>1 DEF ToSet
  <2>4. ASSUME NEW x \in ToSet(s), x # e PROVE x \in ToSet(rest)
    <3>1. PICK j \in 1..Len(s) : s[j] = x
      BY <1>1 DEF ToSet
    <3> QED BY <1>6, <2>2, <2>4, <3>1
  <2> QED BY <2>3, <2>4
<1> QED BY <1>4, <1>5, <1>7, <1>8, <1>9 DEF rest

\* The loop of FlattenSeq, step by step.
LEMMA FlattenLoop ==
  ASSUME NEW S, NEW seqs \in Seq(Seq(S)), seqs # <<>>
  PROVE  \E f \in [0..Len(seqs) -> Seq(S)] :
           /\ FlattenSeq(seqs) = f[Len(seqs)]
           /\ f[0] = <<>>
           /\ \A i \in 1..Len(seqs) : f[i] = f[i - 1] \o seqs[i]
<1> DEFINE loop == [i \in 1..Len(seqs) |-> [x \in Seq(S) |-> x \o seqs[i]]]
           flat == CHOOSE f : f = [i \in 1..Len(seqs) |->
                     IF i = 1 THEN seqs[i] ELSE f[i - 1] \o seqs[i]]
<1>1. Len(seqs) \in Nat /\ Len(seqs) # 0 /\ <<>> \in Seq(S)
  OBVIOUS
<1>2. FlattenSeq(seqs) = flat[Len(seqs)]
  BY <1>1, Zenon DEF FlattenSeq
<1>3. \A i \in 1..Len(seqs) : seqs[i] \in Seq(S)
  OBVIOUS
<1>4. loop \in [1..Len(seqs) -> [Seq(S) -> Seq(S)]]
  BY <1>3
<1>5. \A i \in 1..Len(seqs), x \in Seq(S) : loop[i][x] = x \o seqs[i]
  OBVIOUS
<1> HIDE DEF loop, flat
<1>6. PICK g \in [0..Len(seqs) -> Seq(S)] :
        g[0] = <<>> /\ \A i \in 1..Len(seqs) : g[i] = loop[i][g[i - 1]]
  <2> DEFINE m == Len(seqs)  empty == <<>>  Lists == Seq(S)
  <2>1. m \in Nat /\ empty \in Lists /\ loop \in [1..m -> [Lists -> Lists]]
    BY <1>1, <1>4
  <2> HIDE DEF m, empty, Lists
  <2>2. Iterated(Lists, m, empty, loop) # {}
    BY <2>1, Recursion
  <2> QED BY <2>2 DEF Iterated, m, empty, Lists
<1>7. \A i \in 1..Len(seqs) : g[i] = g[i - 1] \o seqs[i]
  <2>1. SUFFICES ASSUME NEW i \in 1..Len(seqs) PROVE g[i] = g[i - 1] \o seqs[i]
    OBVIOUS
  <2>2. g[i - 1] \in Seq(S)
    BY <1>6
  <2> QED BY <1>5, <1>6, <2>2
<1>8. g[1] = seqs[1]
  <2>1. 1 \in 1..Len(seqs) /\ 1 - 1 = 0
    BY <1>1
  <2>2. g[1] = <<>> \o seqs[1] /\ seqs[1] \in Seq(S)
    BY <1>3, <1>6, <1>7, <2>1
  <2> QED BY <2>2, ConcatEmptySeq
<1> DEFINE h == [i \in 1..Len(seqs) |-> g[i]]
<1>9. \A i \in 1..Len(seqs) : h[i] = IF i = 1 THEN seqs[i] ELSE h[i - 1] \o seqs[i]
  <2>1. SUFFICES ASSUME NEW i \in 1..Len(seqs), i # 1 PROVE h[i] = h[i - 1] \o seqs[i]
    BY <1>8
  <2>2. i - 1 \in 1..Len(seqs)
    BY <1>1, <2>1
  <2> QED BY <1>7, <2>2
<1>10. h = [i \in 1..Len(seqs) |-> IF i = 1 THEN seqs[i] ELSE h[i - 1] \o seqs[i]]
  <2> DEFINE body(i) == IF i = 1 THEN seqs[i] ELSE h[i - 1] \o seqs[i]
  <2>1. \A i \in 1..Len(seqs) : h[i] = body(i)
    BY <1>9
  <2>2. DOMAIN h = 1..Len(seqs) /\ h = [i \in DOMAIN h |-> h[i]]
    OBVIOUS
  <2> HIDE DEF body, h
  <2>3. h = [i \in 1..Len(seqs) |-> body(i)]
    BY <2>1, <2>2
  <2> QED BY <2>3 DEF body
<1> HIDE DEF h
<1>11. flat = [i \in 1..Len(seqs) |-> IF i = 1 THEN seqs[i] ELSE flat[i - 1] \o seqs[i]]
  BY <1>10, Zenon DEF flat
<1>12. \A i \in 1..Len(seqs) : flat[i] = IF i = 1 THEN seqs[i] ELSE flat[i - 1] \o seqs[i]
  <2> DEFINE body(i) == IF i = 1 THEN seqs[i] ELSE flat[i - 1] \o seqs[i]
  <2>1. flat = [i \in 1..Len(seqs) |-> body(i)]
    BY <1>11
  <2> HIDE DEF body
  <2>2. \A i \in 1..Len(seqs) : flat[i] = body(i)
    BY <2>1
  <2> QED BY <2>2 DEF body
<1> DEFINE P == {n \in Nat : n \in 1..Len(seqs) => flat[n] = g[n]}
<1>13. 0 \in P
  OBVIOUS
<1>14. ASSUME NEW n \in Nat, n \in P, n + 1 \in 1..Len(seqs)
       PROVE  flat[n + 1] = g[n + 1]
  <2>1. CASE n = 0
    BY <1>8, <1>12, <1>14, <2>1
  <2>2. CASE n # 0
    <3>1. n \in 1..Len(seqs) /\ n + 1 # 1 /\ n + 1 - 1 = n
      BY <1>1, <1>14, <2>2
    <3>2. flat[n] = g[n]
      BY <1>14, <3>1
    <3>3. flat[n + 1] = flat[n] \o seqs[n + 1]
      <4>1. flat[n + 1] = IF n + 1 = 1 THEN seqs[n + 1] ELSE flat[n + 1 - 1] \o seqs[n + 1]
        BY <1>12, <1>14
      <4> QED BY <3>1, <4>1
    <3>4. g[n + 1] = g[n] \o seqs[n + 1]
      <4>1. PICK k \in 1..Len(seqs) : k = n + 1
        BY <1>14
      <4>2. k - 1 = n
        BY <4>1
      <4>3. g[k] = g[k - 1] \o seqs[k]
        BY <1>7
      <4> HIDE DEF P
      <4> QED BY ONLY <4>1, <4>2, <4>3, Zenon
    <3> QED BY <3>2, <3>3, <3>4
  <2> QED BY <2>1, <2>2
<1>15. \A n \in Nat : n \in P => n + 1 \in P
  BY <1>14
<1>16. flat[Len(seqs)] = g[Len(seqs)]
  <2>1. Nat \subseteq P
    <3> HIDE DEF P
    <3> QED BY <1>13, <1>15, Induction
  <2> QED BY <1>1, <2>1
<1> QED BY <1>2, <1>6, <1>7, <1>16

\* The members of a concatenation are those of its parts.
LEMMA ConcatMembers ==
  ASSUME NEW S, NEW s \in Seq(S), NEW t \in Seq(S)
  PROVE  s \o t \in Seq(S) /\ ToSet(s \o t) = ToSet(s) \cup ToSet(t)
<1>1. /\ s \o t \in Seq(S) /\ Len(s) \in Nat /\ Len(t) \in Nat
      /\ DOMAIN s = 1..Len(s) /\ DOMAIN t = 1..Len(t) /\ DOMAIN (s \o t) = 1..(Len(s) + Len(t))
      /\ \A i \in 1..(Len(s) + Len(t)) :
           (s \o t)[i] = IF i <= Len(s) THEN s[i] ELSE t[i - Len(s)]
  OBVIOUS
<1> DEFINE both == s \o t
<1> HIDE DEF both
<1>2. \A i \in 1..Len(s) : i \in DOMAIN both /\ both[i] = s[i]
  BY <1>1 DEF both
<1>3. \A i \in 1..Len(t) : i + Len(s) \in DOMAIN both /\ both[i + Len(s)] = t[i]
  BY <1>1 DEF both
<1>4. \A i \in DOMAIN both : \/ i \in 1..Len(s) /\ both[i] = s[i]
                             \/ i - Len(s) \in 1..Len(t) /\ both[i] = t[i - Len(s)]
  BY <1>1 DEF both
<1>5. ToSet(both) = ToSet(s) \cup ToSet(t)
  BY <1>1, <1>2, <1>3, <1>4 DEF ToSet
<1> QED BY <1>1, <1>5 DEF both

\* As the loop of FlattenSeq goes through a list of lists, it has the members of those
\* it has been through.
LEMMA FlattenPrefixes ==
  ASSUME NEW S, NEW seqs \in Seq(Seq(S)), seqs # <<>>
  PROVE  \E f \in [0..Len(seqs) -> Seq(S)] :
           /\ FlattenSeq(seqs) = f[Len(seqs)]
           /\ f[0] = <<>>
           /\ \A i \in 1..Len(seqs) : f[i] = f[i - 1] \o seqs[i]
           /\ \A n \in 0..Len(seqs) : \A x :
                x \in ToSet(f[n]) <=> \E i \in 1..n : x \in ToSet(seqs[i])
<1>1. PICK f \in [0..Len(seqs) -> Seq(S)] :
        /\ FlattenSeq(seqs) = f[Len(seqs)]
        /\ f[0] = <<>>
        /\ \A i \in 1..Len(seqs) : f[i] = f[i - 1] \o seqs[i]
  BY FlattenLoop
<1> DEFINE Upto(n) == UNION {ToSet(seqs[i]) : i \in 1..n}
           P == {n \in Nat : n <= Len(seqs) => ToSet(f[n]) = Upto(n)}
<1>2. 0 \in P
  BY <1>1 DEF ToSet
<1>3. ASSUME NEW n \in Nat, n \in P, n + 1 <= Len(seqs)
      PROVE  ToSet(f[n + 1]) = Upto(n + 1)
  <2>1. n \in 0..Len(seqs) /\ n + 1 \in 1..Len(seqs) /\ n + 1 - 1 = n
    BY <1>3
  <2>2. f[n] \in Seq(S) /\ seqs[n + 1] \in Seq(S) /\ f[n + 1] = f[n] \o seqs[n + 1]
    <3>1. PICK k \in 1..Len(seqs) : k = n + 1
      BY <2>1
    <3>2. k - 1 = n
      BY <3>1
    <3>3. f[k] = f[k - 1] \o seqs[k]
      BY <1>1
    <3>4. seqs[k] \in Seq(S)
      OBVIOUS
    <3>5. f[n] \in Seq(S)
      BY <2>1
    <3> HIDE DEF P, Upto
    <3> QED BY ONLY <3>1, <3>2, <3>3, <3>4, <3>5, Zenon
  <2>3. ToSet(f[n + 1]) = ToSet(f[n]) \cup ToSet(seqs[n + 1])
    BY <2>2, ConcatMembers
  <2>4. 1..(n + 1) = (1..n) \cup {n + 1}
    BY <1>3
  <2>5. Upto(n + 1) = Upto(n) \cup ToSet(seqs[n + 1])
    BY <2>4
  <2>6. ToSet(f[n]) = Upto(n)
    BY <1>3, <2>1
  <2> HIDE DEF Upto
  <2> QED BY <2>3, <2>5, <2>6
<1>4. \A n \in Nat : n \in P => n + 1 \in P
  <2> SUFFICES ASSUME NEW n \in Nat, n \in P PROVE n + 1 \in P
    OBVIOUS
  <2>1. CASE n + 1 <= Len(seqs)
    <3>1. ToSet(f[n + 1]) = Upto(n + 1)
      BY <1>3, <2>1
    <3> HIDE DEF Upto
    <3> QED BY <3>1
  <2>2. CASE ~(n + 1 <= Len(seqs))
    BY <2>2
  <2> QED BY <2>1, <2>2
<1>5. Len(seqs) \in Nat
  OBVIOUS
<1>6. Nat \subseteq P
  <2> HIDE DEF P
  <2> QED BY <1>2, <1>4, Induction
<1> QED BY <1>1, <1>5, <1>6

\* The members of a list of lists, put together, are theirs.
LEMMA FlattenMembers ==
  ASSUME NEW S, NEW seqs \in Seq(Seq(S))
  PROVE  /\ FlattenSeq(seqs) \in Seq(S)
         /\ ToSet(FlattenSeq(seqs)) = UNION {ToSet(seqs[i]) : i \in 1..Len(seqs)}
<1>1. CASE seqs = <<>>
  <2>1. FlattenSeq(seqs) = <<>> /\ Len(seqs) = 0
    BY <1>1 DEF FlattenSeq
  <2>2. ToSet(<<>>) = {} /\ <<>> \in Seq(S) /\ 1..0 = {}
    BY DEF ToSet
  <2> QED BY <2>1, <2>2
<1>2. CASE seqs # <<>>
  <2>1. PICK f \in [0..Len(seqs) -> Seq(S)] :
          /\ FlattenSeq(seqs) = f[Len(seqs)]
          /\ f[0] = <<>>
          /\ \A i \in 1..Len(seqs) : f[i] = f[i - 1] \o seqs[i]
          /\ \A n \in 0..Len(seqs) : \A x :
               x \in ToSet(f[n]) <=> \E i \in 1..n : x \in ToSet(seqs[i])
    BY <1>2, FlattenPrefixes
  <2>2. Len(seqs) \in 0..Len(seqs)
    OBVIOUS
  <2>3. f[Len(seqs)] \in Seq(S)
    BY <2>1, <2>2
  <2>4. \A x : x \in ToSet(f[Len(seqs)]) <=> \E i \in 1..Len(seqs) : x \in ToSet(seqs[i])
    BY <2>1, <2>2
  <2> QED BY <2>1, <2>3, <2>4
<1> QED BY <1>1, <1>2

\* A filter never lengthens a list, and shortens it if it drops anything.
LEMMA FilterLength ==
  ASSUME NEW S, NEW s \in Seq(S), NEW keep
  PROVE  /\ Len(Filter(s, keep)) \in Nat /\ Len(s) \in Nat
         /\ Len(Filter(s, keep)) <= Len(s)
         /\ (\E i \in DOMAIN s : s[i] \notin keep) => Len(Filter(s, keep)) < Len(s)
<1>1. PICK f \in [0..Len(s) -> Seq(S)] :
        /\ Filter(s, keep) = f[Len(s)]
        /\ f[0] = <<>>
        /\ \A i \in 1..Len(s) :
             f[i] = IF s[i] \in keep THEN Append(f[i - 1], s[i]) ELSE f[i - 1]
  BY FilterLoop
<1>2. Len(s) \in Nat /\ DOMAIN s = 1..Len(s) /\ \A i \in 1..Len(s) : s[i] \in S
  OBVIOUS
<1> DEFINE Good(n) == /\ Len(f[n]) \in Nat /\ Len(f[n]) <= n
                      /\ (\E i \in 1..n : s[i] \notin keep) => Len(f[n]) < n
           P == {n \in Nat : n <= Len(s) => Good(n)}
<1>3. 0 \in P
  BY <1>1
<1>4. ASSUME NEW n \in Nat, n \in P, n + 1 <= Len(s)
      PROVE  Good(n + 1)
  <2>1. PICK k \in 1..Len(s) : k = n + 1
    BY <1>2, <1>4
  <2>2. k - 1 = n /\ n \in 0..Len(s) /\ s[k] \in S
    BY <1>2, <2>1
  <2>3. f[k] = IF s[k] \in keep THEN Append(f[k - 1], s[k]) ELSE f[k - 1]
    BY <1>1
  <2>4. f[k] = IF s[k] \in keep THEN Append(f[n], s[k]) ELSE f[n]
    BY <2>2, <2>3
  <2>5. Good(n)
    BY <1>4
  <2>6. f[n] \in Seq(S)
    BY <1>1, <2>2
  <2>7. Len(Append(f[n], s[k])) = Len(f[n]) + 1
    BY <2>2, <2>6
  <2>8. \A i \in 1..k : i = k \/ i \in 1..n
    BY <2>1
  <2>9. CASE s[k] \in keep
    <3>1. Len(f[k]) = Len(f[n]) + 1
      BY <2>4, <2>7, <2>9
    <3>2. (\E i \in 1..k : s[i] \notin keep) => \E i \in 1..n : s[i] \notin keep
      BY <2>8, <2>9
    <3>3. Good(k)
      BY <2>1, <2>5, <3>1, <3>2
    <3> QED BY <2>1, <3>3
  <2>10. CASE s[k] \notin keep
    <3>1. Len(f[k]) = Len(f[n])
      BY <2>4, <2>10
    <3>2. Good(k)
      BY <2>1, <2>5, <3>1
    <3> QED BY <2>1, <3>2
  <2> QED BY <2>9, <2>10
<1>5. Len(s) \in P
  <2>1. ASSUME NEW n \in Nat, n \in P
        PROVE  n + 1 \in P
    <3> HIDE DEF Good
    <3> QED BY <1>4, <2>1
  <2> HIDE DEF P
  <2> QED BY <1>2, <1>3, <2>1, Induction
<1> QED BY <1>1, <1>2, <1>5

\* A stretch of a list has members of the list only.
LEMMA SubSeqMembers ==
  ASSUME NEW S, NEW s \in Seq(S), NEW m \in Nat \ {0}, NEW n \in 0..Len(s)
  PROVE  /\ SubSeq(s, m, n) \in Seq(S)
         /\ ToSet(SubSeq(s, m, n)) \subseteq ToSet(s)
<1>1. /\ Len(s) \in Nat /\ DOMAIN s = 1..Len(s)
      /\ SubSeq(s, m, n) = [i \in 1..(1 + n - m) |-> s[i + m - 1]]
  OBVIOUS
<1> DEFINE l == IF m <= n THEN 1 + n - m ELSE 0
<1>2. l \in Nat /\ 1..(1 + n - m) = 1..l
  OBVIOUS
<1>3. \A i \in 1..l : i + m - 1 \in 1..Len(s) /\ s[i + m - 1] \in S
  BY <1>1
<1> HIDE DEF l
<1>4. SubSeq(s, m, n) \in [1..l -> S] /\ DOMAIN SubSeq(s, m, n) = 1..l
      /\ \A i \in 1..l : SubSeq(s, m, n)[i] = s[i + m - 1]
  BY <1>1, <1>2, <1>3
<1> QED BY <1>1, <1>2, <1>3, <1>4, SeqDef DEF ToSet

\* A list without the element at one place.
LEMMA RemoveAtMembers ==
  ASSUME NEW S, NEW s \in Seq(S), NEW i \in DOMAIN s
  PROVE  /\ RemoveAt(s, i) \in Seq(S)
         /\ ToSet(RemoveAt(s, i)) \subseteq ToSet(s)
<1>1. Len(s) \in Nat /\ i \in 1..Len(s)
  OBVIOUS
<1>2. 1 \in Nat \ {0} /\ i - 1 \in 0..Len(s) /\ i + 1 \in Nat \ {0} /\ Len(s) \in 0..Len(s)
  BY <1>1
<1> DEFINE before == SubSeq(s, 1, i - 1)
           after == SubSeq(s, i + 1, Len(s))
<1>3. /\ before \in Seq(S) /\ ToSet(before) \subseteq ToSet(s)
      /\ after \in Seq(S) /\ ToSet(after) \subseteq ToSet(s)
  BY <1>2, SubSeqMembers
<1>4. RemoveAt(s, i) = before \o after
  BY DEF RemoveAt
<1> HIDE DEF before, after
<1> QED BY <1>3, <1>4, ConcatMembers

-----------------------------------------------------------------------------
(* Finite sets of numbers, in order.                                       *)

\* Sorting a set lists each of its members, the smaller first.
LEMMA AscendingMembers ==
  ASSUME NEW S, S \subseteq Nat, IsFiniteSet(S)
  PROVE  /\ Ascending(S) \in Seq(S) /\ Len(Ascending(S)) = Cardinality(S)
         /\ Cardinality(S) \in Nat
         /\ ToSet(Ascending(S)) = S
         /\ \A i, j \in 1..Cardinality(S) : i < j => Ascending(S)[i] < Ascending(S)[j]
<1> DEFINE n == Cardinality(S)
           Below(x) == {y \in S : y < x}
           Rank(x) == Cardinality(Below(x))
           rank == [x \in S |-> Rank(x)]
<1>1. n \in Nat
  BY FS_CardinalityType
<1>2. \A x \in S : IsFiniteSet(Below(x)) /\ Rank(x) \in Nat /\ Rank(x) < n
  <2> SUFFICES ASSUME NEW x \in S
      PROVE  IsFiniteSet(Below(x)) /\ Rank(x) \in Nat /\ Rank(x) < n
    OBVIOUS
  <2>1. Below(x) \in SUBSET S /\ Below(x) # S
    OBVIOUS
  <2> HIDE DEF Below
  <2>2. IsFiniteSet(Below(x)) /\ Rank(x) <= n /\ Rank(x) # n
    BY <2>1, FS_Subset
  <2>3. Rank(x) \in Nat
    BY <2>2, FS_CardinalityType
  <2> QED BY <1>1, <2>2, <2>3
<1>3. \A x, y \in S : x < y => Rank(x) < Rank(y)
  <2> SUFFICES ASSUME NEW x \in S, NEW y \in S, x < y PROVE Rank(x) < Rank(y)
    OBVIOUS
  <2>1. Below(x) \in SUBSET Below(y) /\ Below(x) # Below(y)
    <3>1. x \in Nat /\ y \in Nat /\ \A z \in S : z \in Nat
      OBVIOUS
    <3>2. x \in Below(y) /\ x \notin Below(x)
      BY <3>1
    <3>3. \A z \in Below(x) : z \in Below(y)
      BY <3>1
    <3> QED BY <3>2, <3>3
  <2>2. IsFiniteSet(Below(y)) /\ Rank(x) \in Nat /\ Rank(y) \in Nat
    BY <1>2
  <2> HIDE DEF Below
  <2>3. Rank(x) <= Rank(y) /\ Rank(x) # Rank(y)
    BY <2>1, <2>2, FS_Subset
  <2> QED BY <2>2, <2>3
<1> HIDE DEF Below, Rank
<1>4. rank \in Injection(S, 0..(n - 1))
  <2>1. rank \in [S -> 0..(n - 1)]
    BY <1>1, <1>2 DEF Rank
  <2>2. \A x, y \in S : Rank(x) = Rank(y) => x = y
    <3> SUFFICES ASSUME NEW x \in S, NEW y \in S, x # y PROVE Rank(x) # Rank(y)
      OBVIOUS
    <3>1. x < y \/ y < x
      OBVIOUS
    <3> QED BY <1>2, <1>3, <3>1
  <2> QED BY <2>1, <2>2 DEF Injection, IsInjective
<1>5. \A r \in 0..(n - 1) : \E x \in S : Rank(x) = r
  <2>1. IsFiniteSet(0..(n - 1)) /\ Cardinality(0..(n - 1)) = n
    <3> HIDE DEF n
    <3>1. 0 \in Int /\ n - 1 \in Int /\ n \in Nat
      BY <1>1
    <3>2. /\ IsFiniteSet(0..(n - 1))
          /\ Cardinality(0..(n - 1)) = IF 0 > n - 1 THEN 0 ELSE (n - 1) - 0 + 1
      BY <3>1, FS_Interval
    <3>3. (0 > n - 1 => n = 0) /\ (~(0 > n - 1) => (n - 1) - 0 + 1 = n)
      BY <3>1
    <3> QED BY <3>2, <3>3
  <2> HIDE DEF n, rank
  <2>2. rank \in Surjection(S, 0..(n - 1))
    BY <1>4, <2>1, FS_Injection DEF n
  <2> QED BY <2>2 DEF Surjection, rank
<1> DEFINE a == Ascending(S)
<1>6. a = [i \in 1..n |-> CHOOSE x \in S : Rank(x) = i - 1]
  BY DEF Ascending, Rank, Below
<1> HIDE DEF a
<1>7. \A i \in 1..n : a[i] \in S /\ Rank(a[i]) = i - 1
  <2> SUFFICES ASSUME NEW i \in 1..n PROVE a[i] \in S /\ Rank(a[i]) = i - 1
    OBVIOUS
  <2>1. \E x \in S : Rank(x) = i - 1
    BY <1>1, <1>5
  <2> QED BY <1>6, <2>1
<1>8. a \in Seq(S) /\ Len(a) = n
  <2>1. a \in [1..n -> S]
    BY <1>6, <1>7
  <2> QED BY <1>1, <2>1, SeqDef
<1>9. \A i, j \in 1..n : i < j => a[i] < a[j]
  <2> SUFFICES ASSUME NEW i \in 1..n, NEW j \in 1..n, i < j, ~(a[i] < a[j]) PROVE FALSE
    OBVIOUS
  <2>1. a[i] \in Nat /\ a[j] \in Nat /\ a[i] \in S /\ a[j] \in S
    BY <1>7
  <2>2. a[j] < a[i] \/ a[j] = a[i]
    BY <2>1
  <2>3. Rank(a[i]) = i - 1 /\ Rank(a[j]) = j - 1
    BY <1>7
  <2> QED BY <1>3, <2>1, <2>2, <2>3
<1>10. ToSet(a) = S
  <2>1. \A x \in S : \E i \in 1..n : a[i] = x
    <3> SUFFICES ASSUME NEW x \in S PROVE \E i \in 1..n : a[i] = x
      OBVIOUS
    <3>1. Rank(x) + 1 \in 1..n /\ Rank(x) \in Nat
      BY <1>1, <1>2
    <3>2. a[Rank(x) + 1] \in S /\ Rank(a[Rank(x) + 1]) = Rank(x)
      BY <1>7, <3>1
    <3>3. a[Rank(x) + 1] = x
      <4> DEFINE y == a[Rank(x) + 1]
      <4>1. y \in S /\ Rank(y) = Rank(x) /\ y \in Nat /\ x \in Nat
        BY <3>2
      <4> HIDE DEF y
      <4>2. ~(y < x) /\ ~(x < y)
        BY <1>2, <1>3, <4>1
      <4> QED BY <4>1, <4>2 DEF y
    <3> QED BY <3>1, <3>3
  <2>2. DOMAIN a = 1..n
    BY <1>6
  <2> QED BY <1>7, <2>1, <2>2 DEF ToSet
<1> QED BY <1>1, <1>8, <1>9, <1>10 DEF a

-----------------------------------------------------------------------------
(* Lists of numbers, in order.                                             *)

IsAscending(s) == \A i, j \in DOMAIN s : i < j => s[i] < s[j]

\* A list in order names nothing twice.
LEMMA AscendingLength ==
  ASSUME NEW S, S \subseteq Nat, NEW s \in Seq(S), IsAscending(s)
  PROVE  /\ IsFiniteSet(ToSet(s)) /\ Cardinality(ToSet(s)) = Len(s)
         /\ ToSet(s) \subseteq S /\ Len(s) \in Nat
<1>1. Len(s) \in Nat /\ DOMAIN s = 1..Len(s) /\ \A i \in 1..Len(s) : s[i] \in S
  OBVIOUS
<1>2. ToSet(s) \subseteq S
  BY <1>1 DEF ToSet
<1>3. \A i, j \in 1..Len(s) : s[i] = s[j] => i = j
  <2> SUFFICES ASSUME NEW i \in 1..Len(s), NEW j \in 1..Len(s), i < j PROVE s[i] # s[j]
    BY <1>1
  <2>1. s[i] < s[j] /\ s[i] \in Nat /\ s[j] \in Nat
    BY <1>1 DEF IsAscending
  <2> QED BY <2>1
<1>4. s \in Bijection(1..Len(s), ToSet(s))
  <2>1. s \in [1..Len(s) -> ToSet(s)]
    <3>1. \A i \in 1..Len(s) : s[i] \in ToSet(s)
      BY <1>1 DEF ToSet
    <3> QED BY <1>1, <3>1
  <2>2. \A x \in ToSet(s) : \E i \in 1..Len(s) : s[i] = x
    BY <1>1 DEF ToSet
  <2> QED BY <1>3, <2>1, <2>2 DEF Bijection, Injection, Surjection, IsInjective
<1>5. ExistsBijection(1..Len(s), ToSet(s))
  BY <1>4 DEF ExistsBijection
<1>6. IsFiniteSet(1..Len(s)) /\ Cardinality(1..Len(s)) = Len(s)
  <2>1. 1 \in Int /\ Len(s) \in Int
    BY <1>1
  <2>2. IsFiniteSet(1..Len(s)) /\ Cardinality(1..Len(s)) = IF 1 > Len(s) THEN 0 ELSE Len(s) - 1 + 1
    BY <2>1, FS_Interval
  <2> QED BY <1>1, <2>2
<1> QED BY <1>1, <1>2, <1>5, <1>6, FS_Bijection

\* Lists in order, put together in order.
LEMMA ConcatAscending ==
  ASSUME NEW S, S \subseteq Nat, NEW s \in Seq(S), NEW t \in Seq(S), IsAscending(s), IsAscending(t),
         \A x \in ToSet(s), y \in ToSet(t) : x < y
  PROVE  IsAscending(s \o t)
<1>1. /\ Len(s) \in Nat /\ Len(t) \in Nat /\ DOMAIN s = 1..Len(s) /\ DOMAIN t = 1..Len(t)
      /\ DOMAIN (s \o t) = 1..(Len(s) + Len(t))
      /\ \A i \in 1..(Len(s) + Len(t)) :
           (s \o t)[i] = IF i <= Len(s) THEN s[i] ELSE t[i - Len(s)]
  OBVIOUS
<1> SUFFICES ASSUME NEW i \in 1..(Len(s) + Len(t)), NEW j \in 1..(Len(s) + Len(t)), i < j
    PROVE  (s \o t)[i] < (s \o t)[j]
  BY <1>1 DEF IsAscending
<1>2. CASE j <= Len(s)
  <2>1. i \in DOMAIN s /\ j \in DOMAIN s /\ i <= Len(s)
    BY <1>1, <1>2
  <2> QED BY <1>1, <1>2, <2>1 DEF IsAscending
<1>3. CASE i <= Len(s) /\ ~(j <= Len(s))
  <2>1. i \in DOMAIN s /\ j - Len(s) \in DOMAIN t
    BY <1>1, <1>3
  <2>2. s[i] \in ToSet(s) /\ t[j - Len(s)] \in ToSet(t)
    BY <2>1 DEF ToSet
  <2>3. s[i] < t[j - Len(s)]
    BY <2>2
  <2> QED BY <1>1, <1>3, <2>3
<1>4. CASE ~(i <= Len(s))
  <2>1. i - Len(s) \in DOMAIN t /\ j - Len(s) \in DOMAIN t /\ i - Len(s) < j - Len(s) /\ ~(j <= Len(s))
    BY <1>1, <1>4
  <2> QED BY <1>1, <1>4, <2>1 DEF IsAscending
<1> QED BY <1>1, <1>2, <1>3, <1>4

LEMMA FlattenAscending ==
  ASSUME NEW S, S \subseteq Nat, NEW seqs \in Seq(Seq(S)),
         \A i \in 1..Len(seqs) : IsAscending(seqs[i]),
         \A i, j \in 1..Len(seqs) : i < j => \A x \in ToSet(seqs[i]), y \in ToSet(seqs[j]) : x < y
  PROVE  IsAscending(FlattenSeq(seqs))
<1>1. CASE seqs = <<>>
  <2>1. FlattenSeq(seqs) = <<>>
    BY <1>1 DEF FlattenSeq
  <2> QED BY <2>1 DEF IsAscending
<1>2. CASE seqs # <<>>
  <2>1. PICK f \in [0..Len(seqs) -> Seq(S)] :
          /\ FlattenSeq(seqs) = f[Len(seqs)]
          /\ f[0] = <<>>
          /\ \A i \in 1..Len(seqs) : f[i] = f[i - 1] \o seqs[i]
          /\ \A n \in 0..Len(seqs) : \A x :
               x \in ToSet(f[n]) <=> \E i \in 1..n : x \in ToSet(seqs[i])
    BY <1>2, FlattenPrefixes
  <2>2. Len(seqs) \in Nat /\ \A i \in 1..Len(seqs) : seqs[i] \in Seq(S)
    OBVIOUS
  <2> DEFINE P == {n \in Nat : n <= Len(seqs) => IsAscending(f[n])}
  <2>3. 0 \in P
    BY <2>1 DEF IsAscending
  <2>4. ASSUME NEW n \in Nat, n \in P, n + 1 <= Len(seqs) PROVE IsAscending(f[n + 1])
    <3>1. PICK k \in 1..Len(seqs) : k = n + 1
      BY <2>2, <2>4
    <3>2. k - 1 = n /\ n \in 0..Len(seqs) /\ \A i \in 1..n : i \in 1..Len(seqs) /\ i < k
      BY <2>2, <3>1
    <3>3. f[k] = f[n] \o seqs[k]
      BY <2>1, <3>2
    <3>4. f[n] \in Seq(S) /\ seqs[k] \in Seq(S) /\ IsAscending(f[n]) /\ IsAscending(seqs[k])
      <4>1. IsAscending(f[n])
        BY <2>4
      <4> HIDE DEF P
      <4> QED BY <2>1, <2>2, <3>2, <4>1
    <3>5. \A x \in ToSet(f[n]), y \in ToSet(seqs[k]) : x < y
      <4>1. \A x : x \in ToSet(f[n]) <=> \E i \in 1..n : x \in ToSet(seqs[i])
        BY <2>1, <3>2
      <4> QED BY <3>2, <4>1
    <3>6. IsAscending(f[k])
      BY <3>3, <3>4, <3>5, ConcatAscending
    <3> QED BY <3>1, <3>6
  <2>5. ASSUME NEW n \in Nat, n \in P PROVE n + 1 \in P
    <3>1. CASE n + 1 <= Len(seqs)
      <4>1. IsAscending(f[n + 1])
        BY <2>4, <2>5, <3>1
      <4> QED BY <4>1
    <3>2. CASE ~(n + 1 <= Len(seqs))
      BY <3>2
    <3> QED BY <3>1, <3>2
  <2>6. Len(seqs) \in P
    <3> HIDE DEF P
    <3> QED BY <2>2, <2>3, <2>5, Induction
  <2> QED BY <2>1, <2>2, <2>6
<1> QED BY <1>1, <1>2
-----------------------------------------------------------------------------
\* A stretch of one element.
LEMMA SubSeqOfOne ==
  ASSUME NEW S, NEW s \in Seq(S), NEW i \in 1..Len(s)
  PROVE  SubSeq(s, i, i) = <<s[i]>>
<1> DEFINE sub == SubSeq(s, i, i)
<1>1. sub \in Seq(S) /\ Len(sub) = 1
  OBVIOUS
<1>2. sub[1] = s[i]
  OBVIOUS
<1> HIDE DEF sub
<1>3. sub = <<s[i]>>
  BY <1>1, <1>2
<1> QED BY <1>3 DEF sub
=============================================================================
